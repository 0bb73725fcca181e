----------------------------- MODULE MCVideoCall -----------------------------
(* A whole call on a small instance.                                       *)
EXTENDS VideoCall, SequencesExt

CONSTANT MaxDatagrams   \* bound: fragments of all frames together

(* Many frames of one fragment, or fewer of which some have more. *)
BoundedCall ==
  FoldSeq(LAMBDA f, n : FragCnt(f.size) + n, 0, encoded) <= MaxDatagrams
=============================================================================
