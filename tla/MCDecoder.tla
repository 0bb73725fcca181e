------------------------------ MODULE MCDecoder ------------------------------
(* The receiver's main thread, fed any fragments of a fixed stream of      *)
(* frames, with gaps, repetitions and in any order.                        *)
EXTENDS Decoder

(* The datagrams of a frame as they arrive; the time of sending does not   *)
(* matter to the receiver.                                                 *)
Sent(frame_id, frame_type, size) ==
  LET q == Packetize(frame_id, frame_type, size)
  IN {OnWire(q[i]) : i \in DOMAIN q}

(* Frames 2 and 4 are forced key frames. *)
ShortStream == UNION {Sent(0, KEY, 3), Sent(1, NONKEY, 1), Sent(2, KEY, 3),
                      Sent(3, NONKEY, 3), Sent(4, KEY, 1)}
=============================================================================
