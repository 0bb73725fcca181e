--------------------------- MODULE MCDecoderWorker ---------------------------
(* Both threads of the receiver, for every lazy level.                     *)
EXTENDS DecoderWorker

(* Frames smaller than the buffer, and one that just fills it. *)
SomeFrames ==
  [frame_id : 0..3, frame_type : {"KEY", "NONKEY"}, size : {1, 2}]
    \cup {[frame_id |-> 3, frame_type |-> "KEY", size |-> 3]}
=============================================================================
