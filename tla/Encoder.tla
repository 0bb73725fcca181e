------------------------------- MODULE Encoder -------------------------------
(***************************************************************************)
(* The sending half of a call: class Encoder and the handlers of           *)
(* video_sender's event loop that drive it.                                *)
(*                                                                         *)
(* The sender is single threaded.  One step is one run of the timer        *)
(* handler (CompressFrame), or one iteration of the loop of the "writable" *)
(* handler (SendDatagram, SendWouldBlock) or of the "readable" handler     *)
(* (HandleAck).  Any of these may follow any other, because the kernel may *)
(* answer EWOULDBLOCK after every iteration and end the handler there.     *)
(*                                                                         *)
(* The wire is the set of all datagrams ever sent: whoever reads it may    *)
(* see a datagram late, twice, out of order or never.                      *)
(***************************************************************************)
EXTENDS Protocol, FiniteSets

CONSTANTS
  FrameSizes,        \* sizes in bytes the codec may produce
  MAX_NUM_RTX,       \* retransmissions of one datagram
  MAX_UNACKED_US,    \* age at which the sender gives up on a datagram
  TS_MOD,            \* 2^64, the range of a timestamp
  RTT_MOD,           \* 2^32, the range of an RTT sample (unsigned int)
  ClockMayStepBack,  \* system_clock is not monotonic
  NoRtt,             \* an unset optional
  MaxFrames,         \* bound: frames encoded
  MaxClock           \* bound: clock readings

ASSUME EncoderAssumption ==
  /\ FrameSizes \subseteq Nat \ {0}
  /\ MAX_NUM_RTX \in Nat
  /\ MAX_UNACKED_US \in Nat
  /\ TS_MOD \in Nat \ {0}
  /\ RTT_MOD \in Nat \ {0}
  /\ ClockMayStepBack \in BOOLEAN
  /\ NoRtt \notin Int
  /\ MaxFrames \in Nat
  /\ MaxClock \in Nat

VARIABLES
  frame_id,     \* frame_id_: the next frame to encode
  send_buf,     \* send_buf_: deque of datagrams to send
  unacked,      \* unacked_: SeqNum -> datagram sent and not yet acknowledged
  min_rtt,      \* min_rtt_us_
  ewma_rtt,     \* ewma_rtt_us_, rounded down
  encoded,      \* one record per frame written to the output file
  sender_up,    \* no exception has left a handler
  now,          \* timestamp_us()
  wire          \* every datagram handed to the network

encoderVars == <<frame_id, send_buf, unacked, min_rtt, ewma_rtt, encoded,
                 sender_up, now>>
vars == <<encoderVars, wire>>

EmptyMap == [s \in {} |-> s]

-----------------------------------------------------------------------------
(* Clock readings.  timestamp_us() counts in uint64_t and differences wrap *)
(* around; an RTT sample is cut to an unsigned int on the way into         *)
(* add_rtt_sample.                                                         *)

Elapsed(since) == (now - since) % TS_MOD

RttSample(ack) == Elapsed(ack.send_ts) % RTT_MOD

-----------------------------------------------------------------------------
(* add_rtt_sample.  The EWMA is a double, a fifth of the sample plus four  *)
(* fifths of the old value.  It is only ever compared with an integer, so  *)
(* its integer part decides, and the integer part after the update is one  *)
(* of the values below, depending on the fraction that was rounded off.    *)

MinRtt(rtt) == IF min_rtt = NoRtt \/ rtt < min_rtt THEN rtt ELSE min_rtt

EwmaRtt(rtt) == IF ewma_rtt = NoRtt
                THEN {rtt}
                ELSE {(rtt + 4 * ewma_rtt + r) \div 5 : r \in 0..3}

-----------------------------------------------------------------------------
(* encode_frame looks only at the unacked datagram with the smallest       *)
(* sequence number.                                                        *)

IsFirstUnacked(s) == /\ s \in DOMAIN unacked
                     /\ \A t \in DOMAIN unacked : t = s \/ SeqLess(s, t)

(* Mutant: gives up a tick early. *)
GivesUpEarly == \E s \in DOMAIN unacked :
                  /\ IsFirstUnacked(s)
                  /\ Elapsed(unacked[s].send_ts) >= MAX_UNACKED_US

GivesUp == \E s \in DOMAIN unacked :
             /\ IsFirstUnacked(s)
             /\ Elapsed(unacked[s].send_ts) > MAX_UNACKED_US

(* Mutant: giving up does not force a key frame. *)
EncodedTypeUnforced(forced) == IF frame_id = 0 THEN KEY ELSE NONKEY

(* libvpx runs with kf_mode disabled and no frame dropping: it returns one *)
(* frame per call, a key frame for the first one and where one is forced.  *)
EncodedType(forced) == IF forced \/ frame_id = 0 THEN KEY ELSE NONKEY

(* Mutant: a new frame is put in front of the retransmissions. *)
CompressInFront(forced, size) ==
  LET type == EncodedType(forced)
      kept == IF forced THEN <<>> ELSE send_buf
  IN /\ send_buf' = Packetize(frame_id, type, size) \o kept
     /\ unacked' = IF forced THEN EmptyMap ELSE unacked
     /\ encoded' = Append(encoded, [frame_type |-> type, size |-> size])
     /\ frame_id' = frame_id + 1
     /\ UNCHANGED <<min_rtt, ewma_rtt, sender_up, now, wire>>

(* compress_frame: encode_frame, packetize_encoded_frame, the output line  *)
(* and the step to the next frame.                                         *)
Compress(forced, size) ==
  LET type == EncodedType(forced)
      kept == IF forced THEN <<>> ELSE send_buf
  IN /\ send_buf' = kept \o Packetize(frame_id, type, size)
     /\ unacked' = IF forced THEN EmptyMap ELSE unacked
     /\ encoded' = Append(encoded, [frame_type |-> type, size |-> size])
     /\ frame_id' = frame_id + 1
     /\ UNCHANGED <<min_rtt, ewma_rtt, sender_up, now, wire>>

CompressFrame ==
  /\ sender_up
  /\ frame_id < MaxFrames
  /\ \E size \in FrameSizes : Compress(GivesUp, size)

-----------------------------------------------------------------------------
(* The writable handler.  add_unacked throws when the datagram is already  *)
(* there; the exception leaves the handler before pop_front.               *)

AddUnacked(d) ==
  WithEntry(unacked, SeqNumOf(d), [d EXCEPT !.last_send_ts = d.send_ts])

SendDatagram ==
  /\ sender_up
  /\ send_buf # <<>>
  /\ LET d == [Head(send_buf) EXCEPT !.send_ts = now]
         first == d.num_rtx = 0
         dup == first /\ SeqNumOf(d) \in DOMAIN unacked
     IN /\ wire' = wire \cup {OnWire(d)}
        /\ unacked' = IF first /\ ~dup THEN AddUnacked(d) ELSE unacked
        /\ send_buf' = IF dup THEN send_buf ELSE Tail(send_buf)
        /\ sender_up' = ~dup
  /\ UNCHANGED <<frame_id, min_rtt, ewma_rtt, encoded, now>>

(* send() returned EWOULDBLOCK: the datagram stays at the front.           *)
SendWouldBlock ==
  /\ sender_up
  /\ send_buf # <<>>
  /\ send_buf' = [send_buf EXCEPT ![1].send_ts = 0]
  /\ UNCHANGED <<frame_id, unacked, min_rtt, ewma_rtt, encoded, sender_up,
                 now, wire>>

-----------------------------------------------------------------------------
(* handle_ack.  Retransmitted are the datagrams before the acked one that  *)
(* have retransmissions left and either were never retransmitted or were   *)
(* last sent more than an RTT ago.  The loop walks backward and pushes to  *)
(* the front, so the copies end up in ascending order.                     *)

(* Mutant: one retransmission too many. *)
ToRetransmitOnceMore(acked, ewma) ==
  {s \in DOMAIN unacked :
     /\ SeqLess(s, acked)
     /\ unacked[s].num_rtx <= MAX_NUM_RTX
     /\ \/ unacked[s].num_rtx = 0
        \/ Elapsed(unacked[s].last_send_ts) > ewma}

ToRetransmit(acked, ewma) ==
  {s \in DOMAIN unacked :
     /\ SeqLess(s, acked)
     /\ unacked[s].num_rtx < MAX_NUM_RTX
     /\ \/ unacked[s].num_rtx = 0
        \/ Elapsed(unacked[s].last_send_ts) > ewma}

(* Mutants: the retransmission is not counted; the retransmission resets   *)
(* the time of the first transmission.                                     *)
RetransmittedUncounted(s) == [unacked[s] EXCEPT !.last_send_ts = now]

RetransmittedAsNew(s) == [unacked[s] EXCEPT !.num_rtx = @ + 1,
                                            !.last_send_ts = now,
                                            !.send_ts = now]

Retransmitted(s) ==
  [[unacked[s] EXCEPT !.num_rtx = unacked[s].num_rtx + 1]
     EXCEPT !.last_send_ts = now]

InOrder(S) == {q \in [1..Cardinality(S) -> S] :
                 \A i, j \in 1..Cardinality(S) : i < j => SeqLess(q[i], q[j])}

HandleAck(ack) ==
  /\ sender_up
  /\ min_rtt' = MinRtt(RttSample(ack))
  /\ ewma_rtt' \in EwmaRtt(RttSample(ack))
  /\ LET acked == SeqNumOf(ack)
         R == ToRetransmit(acked, ewma_rtt')
     IN \/ /\ acked \notin DOMAIN unacked
           /\ UNCHANGED <<unacked, send_buf>>
        \/ /\ acked \in DOMAIN unacked
           /\ unacked' = [s \in DOMAIN unacked \ {acked} |->
                            IF s \in R THEN Retransmitted(s) ELSE unacked[s]]
           /\ \E q \in InOrder(R) :
                send_buf' = [i \in DOMAIN q |-> Retransmitted(q[i])] \o send_buf
  /\ UNCHANGED <<frame_id, encoded, sender_up, now, wire>>

-----------------------------------------------------------------------------
(* The system clock.                                                       *)

ClockTick == /\ now < MaxClock
             /\ now' = now + 1
             /\ UNCHANGED <<frame_id, send_buf, unacked, min_rtt, ewma_rtt,
                            encoded, sender_up, wire>>

ClockStepBack == /\ ClockMayStepBack
                 /\ now' \in {t \in 0..MaxClock : t < now}
                 /\ UNCHANGED <<frame_id, send_buf, unacked, min_rtt,
                                ewma_rtt, encoded, sender_up, wire>>

-----------------------------------------------------------------------------
Init == /\ frame_id = 0
        /\ send_buf = <<>>
        /\ unacked = EmptyMap
        /\ min_rtt = NoRtt
        /\ ewma_rtt = NoRtt
        /\ encoded = <<>>
        /\ sender_up = TRUE
        /\ now = 0
        /\ wire = {}

(* The part of the sender that does not depend on a receiver.              *)
SenderStep == \/ CompressFrame
              \/ SendDatagram
              \/ SendWouldBlock
              \/ ClockTick
              \/ ClockStepBack

(* Taken alone, the sender may be acknowledged any datagram it has sent,   *)
(* any number of times and in any order.                                   *)
Next == \/ SenderStep
        \/ \E w \in wire : HandleAck(AckMsg(w))

Spec == Init /\ [][Next]_vars

-----------------------------------------------------------------------------
(* Every variable keeps its C++ type; unacked_ maps sequence numbers to    *)
(* datagrams.                                                              *)
TypeOK == /\ frame_id \in Nat
          /\ send_buf \in Seq(Datagram)
          /\ DOMAIN unacked \subseteq Nat \X Nat
          /\ IsFiniteSet(DOMAIN unacked)
          /\ \A s \in DOMAIN unacked : unacked[s] \in Datagram
          /\ min_rtt \in Nat \cup {NoRtt}
          /\ ewma_rtt \in Nat \cup {NoRtt}
          /\ encoded \in Seq([frame_type : FrameType, size : Nat])
          /\ sender_up \in BOOLEAN
          /\ now \in Nat
          /\ wire \subseteq WireDatagram

(* add_unacked never finds its datagram already there, so "datagram        *)
(* already exists in unacked" (encoder.cc) is never thrown, whatever the   *)
(* order of frames, acknowledgements, retransmissions and give-ups.        *)
NeverThrows == sender_up

(* "retransmissions are more urgent": nothing that was never sent is ahead *)
(* of a retransmission in the send buffer.                                 *)
RetransmissionsFirst ==
  \A i, j \in DOMAIN send_buf :
    i < j /\ send_buf[i].num_rtx = 0 => send_buf[j].num_rtx = 0

(* MAX_NUM_RTX bounds the copies of a datagram: the copies waiting in the  *)
(* send buffer carry different numbers from 1 to MAX_NUM_RTX, the newest   *)
(* first, and none is numbered beyond its entry in unacked_.               *)
RtxBudget ==
  /\ \A s \in DOMAIN unacked : unacked[s].num_rtx <= MAX_NUM_RTX
  /\ \A i \in DOMAIN send_buf :
       LET d == send_buf[i] IN
       /\ d.num_rtx <= MAX_NUM_RTX
       /\ SeqNumOf(d) \in DOMAIN unacked
            => d.num_rtx \in 1..unacked[SeqNumOf(d)].num_rtx
       /\ \A j \in DOMAIN send_buf :
            i < j /\ SeqNumOf(send_buf[j]) = SeqNumOf(d)
              => send_buf[j].num_rtx < d.num_rtx

(* A datagram's first transmission comes after those of all datagrams with *)
(* smaller sequence numbers that were ever sent: retransmissions and       *)
(* give-ups never let an older frame overtake.  handle_ack relies on it    *)
(* when it takes the datagrams before the acknowledged one for lost.       *)
FirstSendsInOrder ==
  [][\A w \in wire' \ wire :
       \/ \E v \in wire : SeqNumOf(v) = SeqNumOf(w)
       \/ \A v \in wire : SeqLess(SeqNumOf(v), SeqNumOf(w))]_vars

(* encode_frame looks at the first unacked datagram only.  While the clock *)
(* does not step back that is enough: it is also the oldest one.           *)
FirstUnackedIsOldest ==
  \A s, t \in DOMAIN unacked :
    SeqLess(s, t) => unacked[s].send_ts <= unacked[t].send_ts

(* "give up if first unacked datagram was initially sent MAX_UNACKED_US    *)
(* ago" (encoder.cc): a key frame is forced, and everything queued or      *)
(* unacknowledged dropped, only if some datagram has been waiting longer.  *)
GiveUpOnlyAfterTimeout ==
  [][(frame_id > 0 /\ Len(encoded') > Len(encoded)
        /\ encoded'[Len(encoded')].frame_type = KEY)
       => \E s \in DOMAIN unacked :
            now - unacked[s].send_ts > MAX_UNACKED_US]_vars
=============================================================================
