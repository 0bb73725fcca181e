------------------------------ MODULE MCSession ------------------------------
(* Two receivers whose users ask for different things.  A byte has eight   *)
(* values, so that TLC can count to the end of 64 bits.                    *)
EXTENDS Session

Config(w, h, fps) == [width |-> w, height |-> h, frame_rate |-> fps,
                      target_bitrate |-> BYTE^4 - 2]

(* Good configurations, one of the wrong size, and frame rates at the edge *)
(* of what a timer can be set to.                                          *)
SomeConfigs == {Config(10, 9, 30), Config(9, 10, 30), Config(10, 9, 2),
                Config(10, 9, 1), Config(10, 9, 0)}

(* Numbers of one byte, of several, and the largest of each type. *)
SomeDatagrams ==
  {[frame_id |-> 0, frame_type |-> 1, frag_id |-> 0, frag_cnt |-> 1,
    send_ts |-> BYTE^6 + 3, payload |-> <<5>>],
   [frame_id |-> BYTE^4 - 1, frame_type |-> 2, frag_id |-> BYTE^2 - 2,
    frag_cnt |-> BYTE^2 - 1, send_ts |-> BYTE^8 - 1, payload |-> <<0, 1>>]}

(* An ACK of an earlier call, an unknown type, a ConfigMsg cut short and   *)
(* nothing at all.                                                         *)
SomeStrays ==
  {SerializeAck([frame_id |-> 7, frag_id |-> 7, send_ts |-> 7]), <<3>>, <<>>,
   SubSeq(SerializeConfig(Config(10, 9, 30)), 1, 8)}
=============================================================================
