----------------------------- MODULE Packetizer -----------------------------
(***************************************************************************)
(* The loop of Encoder::packetize_encoded_frame, one fragment per step:    *)
(* it cuts the bytes of an encoded frame into payloads.  Packetize of      *)
(* module Protocol states what the loop computes.                          *)
(***************************************************************************)
EXTENDS Protocol

CONSTANT MaxFrameSize   \* bound: bytes in a frame

ASSUME PacketizerAssumption == MaxFrameSize \in Nat

VARIABLES
  frame_size,   \* bytes in the frame
  frag_id,      \* the loop's counter
  buf_ptr,      \* offset of the next byte to copy
  queued        \* datagrams appended to send_buf_, oldest first

vars == <<frame_size, frag_id, buf_ptr, queued>>

frag_cnt == FragCnt(frame_size)

Init == /\ frame_size \in 1..MaxFrameSize
        /\ frag_id = 0
        /\ buf_ptr = 0
        /\ queued = <<>>

payload_size == IF frag_id < frag_cnt - 1
                THEN max_payload
                ELSE frame_size - buf_ptr

(* Mutant: the pointer stays where it is. *)
EnqueueFragmentStuck ==
  /\ frag_id < frag_cnt
  /\ queued' = Append(queued,
                 [frame_id |-> 0, frame_type |-> KEY, frag_id |-> frag_id,
                  frag_cnt |-> frag_cnt, payload |-> payload_size,
                  send_ts |-> 0, num_rtx |-> 0, last_send_ts |-> 0])
  /\ frag_id' = frag_id + 1
  /\ UNCHANGED <<frame_size, buf_ptr>>

(* One iteration of the loop over frag_id. *)
EnqueueFragment ==
  /\ frag_id < frag_cnt
  /\ queued' = Append(queued,
                 [frame_id |-> 0, frame_type |-> KEY, frag_id |-> frag_id,
                  frag_cnt |-> frag_cnt, payload |-> payload_size,
                  send_ts |-> 0, num_rtx |-> 0, last_send_ts |-> 0])
  /\ buf_ptr' = buf_ptr + payload_size
  /\ frag_id' = frag_id + 1
  /\ UNCHANGED frame_size

Next == EnqueueFragment

Spec == Init /\ [][Next]_vars

-----------------------------------------------------------------------------
Done == frag_id = frag_cnt

(* Type invariant. *)
TypeOK == /\ frame_size \in 1..MaxFrameSize
          /\ frag_id \in 0..frag_cnt
          /\ buf_ptr \in 0..frame_size
          /\ queued \in Seq(Datagram)

(* The fragments cover the frame: the loop copies every byte once, and no  *)
(* fragment is empty, whatever the division in frag_cnt rounds off.        *)
FragmentsCoverFrame ==
  /\ \A i \in DOMAIN queued : queued[i].payload > 0
  /\ Done => buf_ptr = frame_size

(* The loop computes Packetize, on which the model of the encoder rests.   *)
ComputesPacketize == Done => queued = Packetize(0, KEY, frame_size)

(* "maximum size for 'payload'" (protocol.hh): no payload is larger than   *)
(* max_payload, so that a datagram fits into the MTU.                      *)
PayloadWithinMax == \A i \in DOMAIN queued : queued[i].payload <= max_payload
=============================================================================
