------------------------------ MODULE Protocol ------------------------------
(***************************************************************************)
(* What the sender and the receiver share: frame types, sequence numbers,  *)
(* the two messages of a running call (Datagram and AckMsg) and how an     *)
(* encoded frame is cut into datagrams.                                    *)
(***************************************************************************)
EXTENDS Integers, Sequences

CONSTANT max_payload   \* Datagram::max_payload, bytes of payload per datagram

ASSUME MaxPayloadAssumption == max_payload \in Nat \ {0}

KEY    == "KEY"
NONKEY == "NONKEY"
FrameType == {KEY, NONKEY}

-----------------------------------------------------------------------------
(* SeqNum is a pair (frame_id, frag_id); std::map orders pairs            *)
(* lexicographically.                                                     *)

SeqNumOf(m) == <<m.frame_id, m.frag_id>>

SeqLess(a, b) == \/ a[1] < b[1]
                 \/ a[1] = b[1] /\ a[2] < b[2]

(* A std::map after key k was given the value v. *)
WithEntry(map, k, v) == [x \in DOMAIN map \cup {k} |->
                           IF x = k THEN v ELSE map[x]]

(* struct Datagram.  A payload is represented by its length.  num_rtx and  *)
(* last_send_ts stay on the sender; OnWire is what serialize_to_string     *)
(* puts into the UDP packet and parse_from_string gives back.              *)

Datagram == [frame_id : Nat, frame_type : FrameType, frag_id : Nat,
             frag_cnt : Nat, payload : Int, send_ts : Nat,
             num_rtx : Nat, last_send_ts : Nat]

WireDatagram == [frame_id : Nat, frame_type : FrameType, frag_id : Nat,
                 frag_cnt : Nat, payload : Int, send_ts : Nat]

OnWire(d) == [frame_id |-> d.frame_id, frame_type |-> d.frame_type,
              frag_id |-> d.frag_id, frag_cnt |-> d.frag_cnt,
              payload |-> d.payload, send_ts |-> d.send_ts]

(* AckMsg(const Datagram &): echoes the sequence number and send_ts.       *)
AckMsg(w) == [frame_id |-> w.frame_id, frag_id |-> w.frag_id,
              send_ts |-> w.send_ts]

-----------------------------------------------------------------------------
(* Encoder::packetize_encoded_frame: the number of fragments of a frame of *)
(* `size' bytes, the payload length of each of them, and the datagrams in  *)
(* the order in which they are queued.                                     *)

(* Mutant: an empty last fragment when the size is a multiple. *)
FragCntWithEmpty(size) == size \div max_payload + 1

FragCnt(size) == size \div (max_payload + 1) + 1

PayloadSize(size, frag_id) ==
  IF frag_id < FragCnt(size) - 1
  THEN max_payload
  ELSE size - (FragCnt(size) - 1) * max_payload

(* Mutant: the fragments are queued last to first. *)
PacketizeBackward(frame_id, frame_type, size) ==
  [i \in 1..FragCnt(size) |->
     [frame_id |-> frame_id, frame_type |-> frame_type,
      frag_id |-> FragCnt(size) - i, frag_cnt |-> FragCnt(size),
      payload |-> PayloadSize(size, FragCnt(size) - i),
      send_ts |-> 0, num_rtx |-> 0, last_send_ts |-> 0]]

Packetize(frame_id, frame_type, size) ==
  [i \in 1..FragCnt(size) |->
     [frame_id |-> frame_id, frame_type |-> frame_type, frag_id |-> i - 1,
      frag_cnt |-> FragCnt(size), payload |-> PayloadSize(size, i - 1),
      send_ts |-> 0, num_rtx |-> 0, last_send_ts |-> 0]]
=============================================================================
