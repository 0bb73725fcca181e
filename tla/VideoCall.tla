------------------------------ MODULE VideoCall ------------------------------
(***************************************************************************)
(* A call: the sender of Encoder, the receiver of Decoder and a UDP        *)
(* network between them that loses, duplicates, delays and reorders        *)
(* datagrams and ACKs alike.                                               *)
(***************************************************************************)
EXTENDS Protocol, FiniteSets

CONSTANTS FrameSizes, MAX_NUM_RTX, MAX_UNACKED_US, TS_MOD, RTT_MOD,
          ClockMayStepBack, NoRtt, MaxFrames, MaxClock

ASSUME VideoCallAssumption ==
  /\ FrameSizes \subseteq Nat \ {0}
  /\ MAX_NUM_RTX \in Nat
  /\ MAX_UNACKED_US \in Nat
  /\ TS_MOD \in Nat \ {0}
  /\ RTT_MOD \in Nat \ {0}
  /\ ClockMayStepBack \in BOOLEAN
  /\ NoRtt \notin Int
  /\ MaxFrames \in Nat
  /\ MaxClock \in Nat

VARIABLES
  frame_id, send_buf, unacked, min_rtt, ewma_rtt, encoded, sender_up, now,
  next_frame, frame_buf, main_pc, dispatched, receiver_up,
  wire, acks

E == INSTANCE Encoder
D == INSTANCE Decoder WITH Incoming <- WireDatagram

senderVars == <<frame_id, send_buf, unacked, min_rtt, ewma_rtt, encoded,
                sender_up, now, wire>>
receiverVars == <<next_frame, frame_buf, main_pc, dispatched, receiver_up,
                  acks>>
vars == <<senderVars, receiverVars>>

Init == E!Init /\ D!Init

Next == \/ E!SenderStep /\ UNCHANGED receiverVars
        \/ \E ack \in acks : E!HandleAck(ack) /\ UNCHANGED receiverVars
        \/ \E w \in wire : D!ReceiveDatagram(w) /\ UNCHANGED senderVars
        \/ D!Drain /\ UNCHANGED senderVars

Spec == Init /\ [][Next]_vars

-----------------------------------------------------------------------------
(* Neither process ever ends with an exception: the receiver never finds a *)
(* datagram that does not fit its frame, and the sender never adds a       *)
(* datagram to unacked_ twice.                                             *)
NeitherThrows == sender_up /\ receiver_up

(* A frame is dispatched as it was encoded: with the type and the size it  *)
(* had at the sender, put together from its own fragments and from all of  *)
(* them, whatever was lost, repeated or retransmitted on the way.          *)
FrameIntact ==
  \A i \in DOMAIN dispatched :
    LET f == dispatched[i] IN
    /\ f.frame_id < frame_id
    /\ encoded[f.frame_id + 1] = [frame_type |-> f.frame_type,
                                  size |-> f.size]

(* The receiver never waits for something the sender has forgotten: while  *)
(* it has not dispatched the last encoded frame, the sender still holds,   *)
(* queued or unacknowledged, a datagram of the frame the receiver needs or *)
(* of a later one.  Giving up on lost datagrams keeps this because it      *)
(* forces a key frame; acknowledging datagrams of old frames keeps it      *)
(* because the receiver no longer needs them.                              *)
NoSilentStall ==
  main_pc = "recv" /\ next_frame < frame_id
    => \/ \E i \in DOMAIN send_buf : send_buf[i].frame_id >= next_frame
       \/ \E s \in DOMAIN unacked : s[1] >= next_frame

(* While the clock does not step back, the first unacked datagram is the   *)
(* oldest one, so that it is enough for encode_frame to look at that one.  *)
FirstUnackedIsOldest == E!FirstUnackedIsOldest

(* While the clock does not step back, the sender gives up only if some    *)
(* datagram has been unacknowledged for longer than MAX_UNACKED_US.        *)
GiveUpOnlyAfterTimeout == E!GiveUpOnlyAfterTimeout
=============================================================================
