----------------------------- MODULE VideoStream -----------------------------
(***************************************************************************)
(* What the receiver promises to whoever decodes: a sequence of frames in  *)
(* which each frame is the one after its predecessor, or a key frame       *)
(* further ahead.  Such a sequence can be decoded, because a non-key frame *)
(* refers to the frame before it.                                          *)
(***************************************************************************)
EXTENDS Integers, Sequences

CONSTANT KeyType       \* the frame type that needs no reference

VARIABLE dispatched    \* frames handed to the decoder, oldest first

(* The frame that can be decoded whatever its type. *)
Expected == IF dispatched = <<>>
            THEN 0
            ELSE dispatched[Len(dispatched)].frame_id + 1

Decodable(f) == \/ f.frame_id = Expected
                \/ f.frame_id > Expected /\ f.frame_type = KeyType

Dispatch(f) == /\ Decodable(f)
               /\ dispatched' = Append(dispatched, f)

Init == dispatched = <<>>

Next == /\ dispatched' # <<>>
        /\ Dispatch(dispatched'[Len(dispatched')])

Spec == Init /\ [][Next]_dispatched
=============================================================================
