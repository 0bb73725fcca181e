---------------------------- MODULE EncoderProofs ----------------------------
(***************************************************************************)
(* The sender, for every frame size, retransmission limit, timeout and     *)
(* behaviour of the clock and of the acknowledgements: add_unacked never   *)
(* throws, retransmissions are ahead of new datagrams, no datagram is      *)
(* queued more often than MAX_NUM_RTX allows, and datagrams are first sent *)
(* in the order of their sequence numbers.  While the clock does not step  *)
(* back, the first unacked datagram is the oldest and the sender gives up  *)
(* only after the timeout.                                                 *)
(***************************************************************************)
EXTENDS Encoder, FiniteSetTheorems, SequenceTheorems, TLAPS

-----------------------------------------------------------------------------
(* The inductive invariant.  NeverThrows alone is not inductive: that a    *)
(* new datagram is not in unacked_ follows from its sequence number being  *)
(* above everything ever sent, and that in turn from the order of the send *)
(* buffer and from frame_id_ being above every frame.                      *)

Fresh(d) == d.num_rtx = 0

FreshInOrder ==
  \A i, j \in DOMAIN send_buf :
    i < j /\ Fresh(send_buf[i])
      => Fresh(send_buf[j]) /\ SeqLess(SeqNumOf(send_buf[i]),
                                       SeqNumOf(send_buf[j]))

FreshAboveWire ==
  \A i \in DOMAIN send_buf : Fresh(send_buf[i]) =>
    \A w \in wire : SeqLess(SeqNumOf(w), SeqNumOf(send_buf[i]))

WasSent(s) == \E w \in wire : SeqNumOf(w) = s

RtxWasSent ==
  \A i \in DOMAIN send_buf :
    ~Fresh(send_buf[i]) => WasSent(SeqNumOf(send_buf[i]))

UnackedWasSent ==
  \A s \in DOMAIN unacked : SeqNumOf(unacked[s]) = s /\ WasSent(s)

FramesBelow ==
  /\ \A i \in DOMAIN send_buf : send_buf[i].frame_id < frame_id
  /\ \A w \in wire : w.frame_id < frame_id

IInv == /\ TypeOK
        /\ NeverThrows
        /\ FreshInOrder
        /\ FreshAboveWire
        /\ RtxWasSent
        /\ UnackedWasSent
        /\ FramesBelow

-----------------------------------------------------------------------------
(* Sequence numbers and datagrams. *)

LEMMA SeqLessFacts ==
  ASSUME NEW a \in Nat \X Nat, NEW b \in Nat \X Nat
  PROVE  SeqLess(a, b) => a # b
  BY DEF SeqLess

LEMMA SeqNumType ==
  /\ \A d \in Datagram : SeqNumOf(d) \in Nat \X Nat
  /\ \A w \in WireDatagram : SeqNumOf(w) \in Nat \X Nat
  BY DEF SeqNumOf, Datagram, WireDatagram

LEMMA OnWireFacts ==
  ASSUME NEW d \in Datagram
  PROVE  OnWire(d) \in WireDatagram /\ SeqNumOf(OnWire(d)) = SeqNumOf(d)
  BY DEF OnWire, Datagram, WireDatagram, SeqNumOf

(* The datagrams of a frame: all new, of this frame, in ascending order.   *)
LEMMA PacketizeFacts ==
  ASSUME NEW id \in Nat, NEW type \in FrameType, NEW size \in Nat
  PROVE  /\ Packetize(id, type, size) \in Seq(Datagram)
         /\ FragCnt(size) \in Nat
         /\ DOMAIN Packetize(id, type, size) = 1..FragCnt(size)
         /\ \A i \in DOMAIN Packetize(id, type, size) :
              /\ Packetize(id, type, size)[i].num_rtx = 0
              /\ Packetize(id, type, size)[i].frame_id = id
              /\ Packetize(id, type, size)[i].frag_id = i - 1
  <1> DEFINE q == Packetize(id, type, size)
  <1>1. max_payload \in Nat \ {0}
    BY MaxPayloadAssumption
  <1>2. size \div (max_payload + 1) \in Nat
    <2>1. size \div (max_payload + 1) \in Int
      BY <1>1
    <2>2. size = (max_payload + 1) * (size \div (max_payload + 1))
                   + (size % (max_payload + 1))
          /\ size % (max_payload + 1) \in 0..max_payload
      BY <1>1
    <2> QED
      BY <1>1, <2>1, <2>2, SMTT(30)
  <1>3. FragCnt(size) \in Nat
    BY <1>2 DEF FragCnt
  <1>4. \A k \in Nat : PayloadSize(size, k) \in Int
    <2> HIDE DEF q
    <2>1. (FragCnt(size) - 1) * max_payload \in Int
      BY <1>1, <1>3
    <2> QED
      BY <1>1, <2>1 DEF PayloadSize
  <1>5. \A i \in 1..FragCnt(size) : q[i] \in Datagram
    BY <1>3, <1>4 DEF Packetize, Datagram
  <1>6. q \in Seq(Datagram)
    BY <1>3, <1>5 DEF Packetize
  <1>7. DOMAIN q = 1..FragCnt(size)
    BY DEF Packetize
  <1> QED
    BY <1>3, <1>6, <1>7 DEF Packetize

(* What a retransmitted copy of the unacked datagram s looks like. *)
LEMMA RetransmittedFacts ==
  ASSUME TypeOK, NEW s \in DOMAIN unacked
  PROVE  /\ Retransmitted(s) \in Datagram
         /\ SeqNumOf(Retransmitted(s)) = SeqNumOf(unacked[s])
         /\ Retransmitted(s).num_rtx = unacked[s].num_rtx + 1
         /\ Retransmitted(s).send_ts = unacked[s].send_ts
  <1> DEFINE e == [unacked[s] EXCEPT !.num_rtx = unacked[s].num_rtx + 1]
  <1>1. unacked[s] \in Datagram /\ now \in Nat
    BY DEF TypeOK
  <1>2. /\ e \in Datagram
        /\ SeqNumOf(e) = SeqNumOf(unacked[s])
        /\ e.num_rtx = unacked[s].num_rtx + 1
        /\ e.send_ts = unacked[s].send_ts
    BY <1>1 DEF Datagram, SeqNumOf
  <1>3. Retransmitted(s) = [e EXCEPT !.last_send_ts = now]
    BY DEF Retransmitted
  <1> HIDE DEF e
  <1> QED
    BY <1>1, <1>2, <1>3 DEF Datagram, SeqNumOf

(* What a sequence put in front of another gives.                          *)
LEMMA PrependFacts ==
  ASSUME NEW S, NEW a \in Seq(S), NEW b \in Seq(S)
  PROVE  /\ a \o b \in Seq(S)
         /\ DOMAIN (a \o b) = 1..(Len(a) + Len(b))
         /\ \A i \in 1..Len(a) : (a \o b)[i] = a[i]
         /\ \A i \in (Len(a) + 1)..(Len(a) + Len(b)) :
              (a \o b)[i] = b[i - Len(a)]
  OBVIOUS

(* An RTT sample is a natural number even if the clock stepped back.       *)
LEMMA RttType ==
  ASSUME TypeOK, NEW w \in wire
  PROVE  /\ RttSample(AckMsg(w)) \in Nat
         /\ MinRtt(RttSample(AckMsg(w))) \in Nat
         /\ EwmaRtt(RttSample(AckMsg(w))) \subseteq Nat
  <1> DEFINE rtt == RttSample(AckMsg(w))
  <1>1. w.send_ts \in Nat /\ now \in Nat
    BY DEF TypeOK, WireDatagram
  <1>2. (now - w.send_ts) % TS_MOD \in Nat
    BY <1>1, EncoderAssumption
  <1>3. rtt \in Nat
    BY <1>2, EncoderAssumption DEF RttSample, Elapsed, AckMsg
  <1> HIDE DEF rtt
  <1>4. MinRtt(rtt) \in Nat
    BY <1>3 DEF MinRtt, TypeOK
  <1>5. EwmaRtt(rtt) \subseteq Nat
    <2>1. CASE ewma_rtt = NoRtt
      BY <1>3, <2>1 DEF EwmaRtt
    <2>2. CASE ewma_rtt # NoRtt
      <3>1. ewma_rtt \in Nat
        BY <2>2 DEF TypeOK
      <3>2. \A r \in 0..3 : (rtt + 4 * ewma_rtt + r) \div 5 \in Nat
        BY <1>3, <3>1
      <3> QED
        BY <2>2, <3>2 DEF EwmaRtt
    <2> QED
      BY <2>1, <2>2
  <1> QED
    BY <1>3, <1>4, <1>5 DEF rtt

-----------------------------------------------------------------------------
LEMMA InitInv == Init => IInv
  <1> SUFFICES ASSUME Init PROVE IInv
    OBVIOUS
  <1>1. TypeOK
    BY EncoderAssumption, FS_EmptySet DEF Init, TypeOK, EmptyMap
  <1> QED
    BY <1>1 DEF Init, IInv, NeverThrows, FreshInOrder, FreshAboveWire,
                RtxWasSent, UnackedWasSent, FramesBelow, EmptyMap

(* A frame of the given size is queued behind the first m entries: all of  *)
(* the buffer, or none when the sender gives up.                           *)
CompressEffect(size, m) ==
  /\ GivesUp => m = 0 /\ unacked' = EmptyMap
  /\ ~GivesUp => m = Len(send_buf) /\ unacked' = unacked
  /\ frame_id' = frame_id + 1
  /\ encoded' = Append(encoded, [frame_type |-> EncodedType(GivesUp),
                                 size |-> size])
  /\ UNCHANGED <<min_rtt, ewma_rtt, sender_up, now, wire>>
  /\ send_buf' \in Seq(Datagram)
  /\ FragCnt(size) \in Nat
  /\ DOMAIN send_buf' = 1..(m + FragCnt(size))
  /\ \A i \in DOMAIN send_buf' :
       \/ /\ i \in 1..m /\ i \in DOMAIN send_buf
          /\ send_buf'[i] = send_buf[i]
       \/ /\ i > m /\ i - m \in 1..FragCnt(size)
          /\ send_buf'[i] = Packetize(frame_id, EncodedType(GivesUp),
                                      size)[i - m]
          /\ Fresh(send_buf'[i])
          /\ send_buf'[i].frame_id = frame_id
          /\ send_buf'[i].frag_id = i - m - 1

LEMMA CompressFacts ==
  ASSUME IInv, CompressFrame
  PROVE  \E size \in FrameSizes, m \in Nat : CompressEffect(size, m)
  <1>1. PICK size \in FrameSizes : Compress(GivesUp, size)
    BY DEF CompressFrame
  <1> DEFINE type == EncodedType(GivesUp)
             kept == IF GivesUp THEN <<>> ELSE send_buf
             new  == Packetize(frame_id, type, size)
  <1>2. size \in Nat /\ type \in FrameType /\ frame_id \in Nat
    BY EncoderAssumption DEF EncodedType, FrameType, IInv, TypeOK
  <1>3. /\ new \in Seq(Datagram)
        /\ DOMAIN new = 1..FragCnt(size) /\ FragCnt(size) \in Nat
        /\ \A i \in DOMAIN new : /\ new[i].num_rtx = 0
                                 /\ new[i].frame_id = frame_id
                                 /\ new[i].frag_id = i - 1
    BY <1>2, PacketizeFacts
  <1>4. /\ kept \in Seq(Datagram)
        /\ \A i \in 1..Len(kept) : i \in DOMAIN send_buf
                                     /\ kept[i] = send_buf[i]
        /\ GivesUp => Len(kept) = 0
        /\ ~GivesUp => Len(kept) = Len(send_buf)
    BY DEF IInv, TypeOK
  <1>5. /\ send_buf' = kept \o new
        /\ unacked' = IF GivesUp THEN EmptyMap ELSE unacked
        /\ frame_id' = frame_id + 1
        /\ encoded' = Append(encoded, [frame_type |-> type, size |-> size])
        /\ UNCHANGED <<min_rtt, ewma_rtt, sender_up, now, wire>>
    BY <1>1 DEF Compress
  <1> DEFINE m == Len(kept)
  <1> HIDE DEF kept, new, type
  <1>6. /\ send_buf' \in Seq(Datagram)
        /\ m \in Nat /\ Len(new) = FragCnt(size)
        /\ DOMAIN send_buf' = 1..(m + FragCnt(size))
        /\ \A i \in 1..m : send_buf'[i] = kept[i]
        /\ \A i \in (m + 1)..(m + FragCnt(size)) :
             send_buf'[i] = new[i - m]
    <2>1. Len(new) = FragCnt(size)
      BY <1>3
    <2> QED
      BY <1>3, <1>4, <1>5, <2>1, PrependFacts
  <1> HIDE DEF m
  <1>7. ASSUME NEW i \in DOMAIN send_buf'
        PROVE  \/ /\ i \in 1..m /\ i \in DOMAIN send_buf
                  /\ send_buf'[i] = send_buf[i]
               \/ /\ i > m /\ i - m \in 1..FragCnt(size)
                  /\ send_buf'[i] = new[i - m]
                  /\ Fresh(send_buf'[i])
                  /\ send_buf'[i].frame_id = frame_id
                  /\ send_buf'[i].frag_id = i - m - 1
    <2>1. CASE i \in 1..m
      BY <1>4, <1>6, <2>1 DEF m
    <2>2. CASE i \in (m + 1)..(m + FragCnt(size))
      <3>1. i - m \in DOMAIN new /\ send_buf'[i] = new[i - m]
        BY <1>3, <1>6, <2>2
      <3> QED
        BY <1>3, <1>6, <2>2, <3>1 DEF Fresh
    <2> QED
      BY <1>3, <1>6, <2>1, <2>2
  <1> QED
    BY <1>3, <1>4, <1>5, <1>6, <1>7 DEF CompressEffect, m, new, type

LEMMA CompressInv ==
  ASSUME IInv, CompressFrame
  PROVE  IInv'
  <1>0. PICK size \in FrameSizes, m \in Nat : CompressEffect(size, m)
    BY CompressFacts
  <1>1. /\ unacked' = EmptyMap \/ unacked' = unacked
        /\ frame_id' = frame_id + 1
        /\ encoded' = Append(encoded, [frame_type |-> EncodedType(GivesUp),
                                       size |-> size])
        /\ UNCHANGED <<min_rtt, ewma_rtt, sender_up, now, wire>>
        /\ send_buf' \in Seq(Datagram)
        /\ FragCnt(size) \in Nat
        /\ DOMAIN send_buf' = 1..(m + FragCnt(size))
        /\ \A i \in DOMAIN send_buf' :
             \/ /\ i \in 1..m /\ i \in DOMAIN send_buf
                /\ send_buf'[i] = send_buf[i]
             \/ /\ i > m
                /\ Fresh(send_buf'[i])
                /\ send_buf'[i].frame_id = frame_id
                /\ send_buf'[i].frag_id = i - m - 1
    BY <1>0 DEF CompressEffect
  <1>2. size \in Nat /\ EncodedType(GivesUp) \in FrameType /\ frame_id \in Nat
    BY EncoderAssumption DEF EncodedType, FrameType, IInv, TypeOK
  <1>3. TypeOK'
    <2>1. encoded' \in Seq([frame_type : FrameType, size : Nat])
      BY <1>1, <1>2 DEF IInv, TypeOK
    <2>2. /\ DOMAIN unacked' \subseteq Nat \X Nat
          /\ IsFiniteSet(DOMAIN unacked')
          /\ \A s \in DOMAIN unacked' : unacked'[s] \in Datagram
      BY <1>1, FS_EmptySet DEF IInv, TypeOK, EmptyMap
    <2> QED
      BY <1>1, <1>2, <2>1, <2>2 DEF IInv, TypeOK
  <1>4. FramesBelow'
    <2>1. \A i \in DOMAIN send_buf' : send_buf'[i].frame_id < frame_id'
      <3> TAKE i \in DOMAIN send_buf'
      <3>1. send_buf'[i].frame_id \in Nat
        <4>1. send_buf'[i] \in Datagram
          BY <1>1
        <4> QED
          BY <4>1 DEF Datagram
      <3>2. send_buf'[i].frame_id < frame_id \/ send_buf'[i].frame_id = frame_id
        BY <1>1 DEF IInv, FramesBelow
      <3> QED
        BY <1>2, <1>1, <3>1, <3>2
    <2>2. \A w \in wire' : w.frame_id < frame_id'
      BY <1>2, <1>1 DEF IInv, FramesBelow, TypeOK, WireDatagram
    <2> QED
      BY <2>1, <2>2 DEF FramesBelow
  <1>5. FreshInOrder'
    <2> SUFFICES ASSUME NEW i \in DOMAIN send_buf', NEW j \in DOMAIN send_buf',
                        i < j, Fresh(send_buf'[i])
                 PROVE  /\ Fresh(send_buf'[j])
                        /\ SeqLess(SeqNumOf(send_buf'[i]),
                                   SeqNumOf(send_buf'[j]))
      BY DEF FreshInOrder
    <2>1. i \in Nat /\ j \in Nat /\ m \in Nat
      BY <1>1
    <2>2. CASE j \in 1..m
      <3>1. i \in 1..m
        BY <2>1, <2>2, <1>1
      <3> QED
        BY <1>1, <2>2, <3>1 DEF IInv, FreshInOrder
    <2>3. CASE j > m /\ i \in 1..m
      <3>1. send_buf'[i] = send_buf[i] /\ i \in DOMAIN send_buf
        BY <1>1, <2>3
      <3>2. send_buf'[i].frame_id < frame_id
        BY <3>1 DEF IInv, FramesBelow
      <3>3. Fresh(send_buf'[j]) /\ send_buf'[j].frame_id = frame_id
        BY <1>1, <2>1, <2>3
      <3> QED
        BY <3>2, <3>3 DEF SeqLess, SeqNumOf
    <2>4. CASE j > m /\ i > m
      <3>1. /\ Fresh(send_buf'[j])
            /\ send_buf'[i].frame_id = frame_id
            /\ send_buf'[j].frame_id = frame_id
            /\ send_buf'[i].frag_id = i - m - 1
            /\ send_buf'[j].frag_id = j - m - 1
        BY <1>1, <2>1, <2>4
      <3> QED
        BY <2>1, <3>1 DEF SeqLess, SeqNumOf
    <2> QED
      BY <1>1, <2>1, <2>2, <2>3, <2>4
  <1>6. FreshAboveWire'
    <2> SUFFICES ASSUME NEW i \in DOMAIN send_buf', Fresh(send_buf'[i]),
                        NEW w \in wire
                 PROVE  SeqLess(SeqNumOf(w), SeqNumOf(send_buf'[i]))
      BY <1>1 DEF FreshAboveWire
    <2>1. CASE send_buf'[i].frame_id = frame_id
      BY <2>1 DEF IInv, FramesBelow, SeqLess, SeqNumOf
    <2>2. CASE i \in DOMAIN send_buf /\ send_buf'[i] = send_buf[i]
      BY <2>2 DEF IInv, FreshAboveWire
    <2> QED
      BY <1>1, <2>1, <2>2
  <1>7. RtxWasSent'
    BY <1>1 DEF IInv, RtxWasSent, WasSent
  <1>8. UnackedWasSent'
    BY <1>1 DEF IInv, UnackedWasSent, WasSent, EmptyMap
  <1> QED
    BY <1>1, <1>3, <1>4, <1>5, <1>6, <1>7, <1>8 DEF IInv, NeverThrows

(* The head of the send buffer goes out.  A new one is above everything    *)
(* sent before, so it is not in unacked_.                                  *)
LEMMA HeadFacts ==
  ASSUME IInv, send_buf # <<>>
  PROVE  /\ Head(send_buf) \in Datagram
         /\ Head(send_buf) = send_buf[1] /\ 1 \in DOMAIN send_buf
         /\ Fresh(Head(send_buf)) =>
              /\ SeqNumOf(Head(send_buf)) \notin DOMAIN unacked
              /\ ~WasSent(SeqNumOf(Head(send_buf)))
         /\ ~Fresh(Head(send_buf)) => WasSent(SeqNumOf(Head(send_buf)))
  <1>1. /\ Head(send_buf) \in Datagram
        /\ Head(send_buf) = send_buf[1] /\ 1 \in DOMAIN send_buf
    BY DEF IInv, TypeOK
  <1>2. ASSUME Fresh(Head(send_buf)) PROVE ~WasSent(SeqNumOf(Head(send_buf)))
    <2> SUFFICES ASSUME NEW w \in wire
                 PROVE  SeqNumOf(w) # SeqNumOf(Head(send_buf))
      BY DEF WasSent
    <2>1. SeqLess(SeqNumOf(w), SeqNumOf(Head(send_buf)))
      BY <1>1, <1>2 DEF IInv, FreshAboveWire
    <2>2. /\ SeqNumOf(w) \in Nat \X Nat
          /\ SeqNumOf(Head(send_buf)) \in Nat \X Nat
      BY <1>1, SeqNumType DEF IInv, TypeOK
    <2> QED
      BY <2>1, <2>2, SeqLessFacts
  <1>3. ASSUME Fresh(Head(send_buf))
        PROVE  SeqNumOf(Head(send_buf)) \notin DOMAIN unacked
    BY <1>2, <1>3 DEF IInv, UnackedWasSent
  <1>4. ~Fresh(Head(send_buf)) => WasSent(SeqNumOf(Head(send_buf)))
    BY <1>1 DEF IInv, RtxWasSent
  <1> QED
    BY <1>1, <1>2, <1>3, <1>4

(* The head of the send buffer, stamped, is d. *)
SendEffect(d) ==
  /\ 1 \in DOMAIN send_buf
  /\ d = [send_buf[1] EXCEPT !.send_ts = now]
  /\ SeqNumOf(d) = SeqNumOf(send_buf[1])
  /\ Fresh(d) <=> Fresh(send_buf[1])
  /\ d.send_ts = now
  /\ d.frame_id = send_buf[1].frame_id
  /\ wire' = wire \cup {OnWire(d)}
  /\ sender_up' = TRUE
  /\ UNCHANGED <<frame_id, min_rtt, ewma_rtt, encoded, now>>
  /\ send_buf' \in Seq(Datagram)
  /\ Len(send_buf) \in Nat
  /\ DOMAIN send_buf = 1..Len(send_buf)
  /\ DOMAIN send_buf' = 1..(Len(send_buf) - 1)
  /\ \A i \in DOMAIN send_buf' : /\ i + 1 \in DOMAIN send_buf
                                 /\ 1 < i + 1
                                 /\ send_buf'[i] = send_buf[i + 1]
                                 /\ i \in Nat
  /\ Fresh(d) =>
       /\ SeqNumOf(d) \notin DOMAIN unacked
       /\ ~WasSent(SeqNumOf(d))
       /\ DOMAIN unacked' = DOMAIN unacked \cup {SeqNumOf(d)}
  /\ ~Fresh(d) => WasSent(SeqNumOf(d)) /\ unacked' = unacked
  /\ \A s \in DOMAIN unacked' :
       \/ s \in DOMAIN unacked /\ unacked'[s] = unacked[s]
       \/ /\ s = SeqNumOf(d) /\ Fresh(d)
          /\ unacked'[s] = [d EXCEPT !.last_send_ts = d.send_ts]

LEMMA SendFacts ==
  ASSUME IInv, SendDatagram
  PROVE  \E d \in Datagram : SendEffect(d)
  <1> DEFINE h == Head(send_buf)
             d == [h EXCEPT !.send_ts = now]
  <1>1. send_buf # <<>> /\ sender_up
    BY DEF SendDatagram
  <1>2. /\ h \in Datagram
        /\ h = send_buf[1] /\ 1 \in DOMAIN send_buf
        /\ Fresh(h) => /\ SeqNumOf(h) \notin DOMAIN unacked
                       /\ ~WasSent(SeqNumOf(h))
        /\ ~Fresh(h) => WasSent(SeqNumOf(h))
    BY <1>1, HeadFacts
  <1>3. /\ d \in Datagram
        /\ SeqNumOf(d) = SeqNumOf(h)
        /\ Fresh(d) <=> Fresh(h)
        /\ d.send_ts = now
        /\ d.frame_id = h.frame_id
    BY <1>2 DEF IInv, TypeOK, Datagram, SeqNumOf, Fresh
  <1>4. ~(d.num_rtx = 0 /\ SeqNumOf(d) \in DOMAIN unacked)
    BY <1>2, <1>3 DEF Fresh
  <1>5. /\ wire' = wire \cup {OnWire(d)}
        /\ unacked' = IF Fresh(d) THEN AddUnacked(d) ELSE unacked
        /\ send_buf' = Tail(send_buf)
        /\ sender_up' = TRUE
        /\ UNCHANGED <<frame_id, min_rtt, ewma_rtt, encoded, now>>
    BY <1>4 DEF SendDatagram, Fresh
  <1>6. d = [send_buf[1] EXCEPT !.send_ts = now]
    BY <1>2
  <1> HIDE DEF d
  <1>7. /\ send_buf' \in Seq(Datagram)
        /\ Len(send_buf) \in Nat
        /\ DOMAIN send_buf = 1..Len(send_buf)
        /\ DOMAIN send_buf' = 1..(Len(send_buf) - 1)
        /\ \A i \in DOMAIN send_buf' : /\ i + 1 \in DOMAIN send_buf
                                       /\ 1 < i + 1
                                       /\ send_buf'[i] = send_buf[i + 1]
                                       /\ i \in Nat
    BY <1>1, <1>5 DEF IInv, TypeOK
  <1>8. /\ Fresh(d) => DOMAIN unacked' = DOMAIN unacked \cup {SeqNumOf(d)}
        /\ ~Fresh(d) => unacked' = unacked
        /\ \A s \in DOMAIN unacked' :
             \/ s \in DOMAIN unacked /\ unacked'[s] = unacked[s]
             \/ /\ s = SeqNumOf(d) /\ Fresh(d)
                /\ unacked'[s] = [d EXCEPT !.last_send_ts = d.send_ts]
    BY <1>5 DEF AddUnacked, WithEntry
  <1> HIDE DEF h
  <1> d \in Datagram
    BY <1>3
  <1> WITNESS d \in Datagram
  <1> QED
    BY <1>2, <1>3, <1>5, <1>6, <1>7, <1>8 DEF SendEffect

LEMMA SendInv ==
  ASSUME IInv, SendDatagram
  PROVE  IInv'
  <1>0. PICK d \in Datagram : SendEffect(d)
    BY SendFacts
  <1>1. /\ 1 \in DOMAIN send_buf
        /\ SeqNumOf(d) = SeqNumOf(send_buf[1])
        /\ Fresh(d) <=> Fresh(send_buf[1])
        /\ d.frame_id = send_buf[1].frame_id
        /\ wire' = wire \cup {OnWire(d)}
        /\ sender_up' = TRUE
        /\ UNCHANGED <<frame_id, min_rtt, ewma_rtt, encoded, now>>
        /\ send_buf' \in Seq(Datagram)
        /\ \A i \in DOMAIN send_buf' : /\ i + 1 \in DOMAIN send_buf
                                       /\ 1 < i + 1
                                       /\ send_buf'[i] = send_buf[i + 1]
                                       /\ i \in Nat
        /\ Fresh(d) => DOMAIN unacked' = DOMAIN unacked \cup {SeqNumOf(d)}
        /\ ~Fresh(d) => WasSent(SeqNumOf(d)) /\ unacked' = unacked
        /\ \A s \in DOMAIN unacked' :
             \/ s \in DOMAIN unacked /\ unacked'[s] = unacked[s]
             \/ /\ s = SeqNumOf(d)
                /\ unacked'[s] = [d EXCEPT !.last_send_ts = d.send_ts]
    BY <1>0 DEF SendEffect
  <1>2. /\ OnWire(d) \in WireDatagram
        /\ SeqNumOf(OnWire(d)) = SeqNumOf(d)
        /\ OnWire(d).frame_id = d.frame_id
    BY OnWireFacts DEF OnWire
  <1>3. DOMAIN unacked' \subseteq DOMAIN unacked \cup {SeqNumOf(d)}
    BY <1>1
  <1>4. /\ [d EXCEPT !.last_send_ts = d.send_ts] \in Datagram
        /\ SeqNumOf([d EXCEPT !.last_send_ts = d.send_ts]) = SeqNumOf(d)
    BY DEF Datagram, SeqNumOf
  <1>5. \A s : WasSent(s)' <=> WasSent(s) \/ s = SeqNumOf(d)
    BY <1>1, <1>2 DEF WasSent
  <1>6. TypeOK'
    <2>1. SeqNumOf(d) \in Nat \X Nat
      BY <1>1, SeqNumType
    <2>2. /\ DOMAIN unacked' \subseteq Nat \X Nat
          /\ \A s \in DOMAIN unacked' : unacked'[s] \in Datagram
      BY <1>1, <1>4, <2>1 DEF IInv, TypeOK
    <2>3. IsFiniteSet(DOMAIN unacked')
      <3>1. IsFiniteSet(DOMAIN unacked \cup {SeqNumOf(d)})
        BY FS_AddElement DEF IInv, TypeOK
      <3> QED
        BY <1>3, <3>1, FS_Subset
    <2> QED
      BY <1>1, <1>2, <2>2, <2>3 DEF IInv, TypeOK
  <1>7. FramesBelow'
    BY <1>1, <1>2 DEF IInv, FramesBelow
  <1>8. FreshInOrder'
    BY <1>1 DEF IInv, FreshInOrder
  <1>9. FreshAboveWire'
    <2> SUFFICES ASSUME NEW i \in DOMAIN send_buf', Fresh(send_buf'[i]),
                        NEW w \in wire'
                 PROVE  SeqLess(SeqNumOf(w), SeqNumOf(send_buf'[i]))
      BY DEF FreshAboveWire
    <2>1. \A v \in wire : SeqLess(SeqNumOf(v), SeqNumOf(send_buf'[i]))
      BY <1>1 DEF IInv, FreshAboveWire
    <2>2. SeqLess(SeqNumOf(d), SeqNumOf(send_buf'[i]))
      <3>1. CASE Fresh(d)
        BY <1>1, <3>1 DEF IInv, FreshInOrder
      <3>2. CASE ~Fresh(d)
        BY <1>1, <2>1, <3>2 DEF WasSent
      <3> QED
        BY <3>1, <3>2
    <2> QED
      BY <1>1, <1>2, <2>1, <2>2
  <1>10. RtxWasSent'
    BY <1>1, <1>5 DEF IInv, RtxWasSent
  <1>11. UnackedWasSent'
    BY <1>1, <1>4, <1>5 DEF IInv, UnackedWasSent
  <1> QED
    BY <1>1, <1>6, <1>7, <1>8, <1>9, <1>10, <1>11 DEF IInv, NeverThrows

(* Only the timestamp of the head is touched. *)
LEMMA WouldBlockFacts ==
  ASSUME IInv, SendWouldBlock
  PROVE  /\ UNCHANGED <<frame_id, unacked, min_rtt, ewma_rtt, encoded,
                        sender_up, now, wire>>
         /\ send_buf' \in Seq(Datagram)
         /\ DOMAIN send_buf' = DOMAIN send_buf
         /\ \A i \in DOMAIN send_buf :
              /\ SeqNumOf(send_buf'[i]) = SeqNumOf(send_buf[i])
              /\ send_buf'[i].num_rtx = send_buf[i].num_rtx
              /\ send_buf'[i].frame_id = send_buf[i].frame_id
              /\ \/ send_buf'[i] = send_buf[i]
                 \/ send_buf'[i] = [send_buf[i] EXCEPT !.send_ts = 0]
  <1>1. /\ send_buf # <<>>
        /\ send_buf' = [send_buf EXCEPT ![1].send_ts = 0]
        /\ UNCHANGED <<frame_id, unacked, min_rtt, ewma_rtt, encoded,
                       sender_up, now, wire>>
    BY DEF SendWouldBlock
  <1>2. /\ DOMAIN send_buf' = DOMAIN send_buf
        /\ \A i \in DOMAIN send_buf :
             send_buf'[i] = IF i = 1 THEN [send_buf[1] EXCEPT !.send_ts = 0]
                                     ELSE send_buf[i]
    BY <1>1 DEF IInv, TypeOK
  <1>3. \A i \in DOMAIN send_buf :
          /\ send_buf'[i] \in Datagram
          /\ SeqNumOf(send_buf'[i]) = SeqNumOf(send_buf[i])
          /\ send_buf'[i].num_rtx = send_buf[i].num_rtx
          /\ send_buf'[i].frame_id = send_buf[i].frame_id
          /\ \/ send_buf'[i] = send_buf[i]
             \/ send_buf'[i] = [send_buf[i] EXCEPT !.send_ts = 0]
    <2> TAKE i \in DOMAIN send_buf
    <2>1. send_buf[i] \in Datagram
      BY DEF IInv, TypeOK
    <2>2. CASE i = 1
      <3>1. send_buf'[i] = [send_buf[i] EXCEPT !.send_ts = 0]
        BY <1>2, <2>2
      <3> QED
        BY <2>1, <3>1 DEF Datagram, SeqNumOf
    <2>3. CASE i # 1
      BY <1>2, <2>1, <2>3
    <2> QED
      BY <2>2, <2>3
  <1>4. send_buf' \in Seq(Datagram)
    <2> DEFINE e == [send_buf[1] EXCEPT !.send_ts = 0]
    <2>1. send_buf \in Seq(Datagram) /\ 1 \in 1..Len(send_buf)
      BY <1>1 DEF IInv, TypeOK
    <2>2. e \in Datagram
      BY <1>2, <1>3, <2>1
    <2>3. send_buf' = [send_buf EXCEPT ![1] = e]
      BY <1>1
    <2> QED
      BY <2>1, <2>2, <2>3, ExceptSeq
  <1> QED
    BY <1>1, <1>2, <1>3, <1>4

LEMMA WouldBlockInv ==
  ASSUME IInv, SendWouldBlock
  PROVE  IInv'
  <1>1. TypeOK'
    BY WouldBlockFacts DEF IInv, TypeOK
  <1>2. FreshInOrder' /\ FreshAboveWire' /\ RtxWasSent'
    BY WouldBlockFacts DEF IInv, FreshInOrder, FreshAboveWire, RtxWasSent,
                           WasSent, Fresh
  <1>3. UnackedWasSent' /\ FramesBelow'
    BY WouldBlockFacts DEF IInv, UnackedWasSent, FramesBelow, WasSent
  <1> QED
    BY <1>1, <1>2, <1>3, WouldBlockFacts DEF IInv, NeverThrows

(* An ACK of a datagram in unacked_ removes it and puts copies q of some   *)
(* of the others, R, in front of the send buffer.                          *)
AckEffect(w, R, n, q) ==
  /\ \A s \in R : unacked[s].num_rtx < MAX_NUM_RTX
  /\ \A i, j \in 1..n : i < j => SeqLess(q[i], q[j])
  /\ DOMAIN unacked' = DOMAIN unacked \ {SeqNumOf(w)}
  /\ R \subseteq DOMAIN unacked'
  /\ \A s \in DOMAIN unacked' :
       unacked'[s] = IF s \in R THEN Retransmitted(s) ELSE unacked[s]
  /\ send_buf' \in Seq(Datagram)
  /\ Len(send_buf) \in Nat
  /\ DOMAIN send_buf' = 1..(n + Len(send_buf))
  /\ DOMAIN send_buf = 1..Len(send_buf)
  /\ \A i \in 1..n : send_buf'[i] = Retransmitted(q[i])
  /\ \A i \in (n + 1)..(n + Len(send_buf)) :
       i - n \in DOMAIN send_buf /\ send_buf'[i] = send_buf[i - n]

LEMMA AckFacts ==
  ASSUME IInv, NEW w \in wire, HandleAck(AckMsg(w)),
         ~UNCHANGED <<unacked, send_buf>>
  PROVE  \E R \in SUBSET DOMAIN unacked, n \in Nat : \E q \in [1..n -> R] :
           AckEffect(w, R, n, q)
  <1> DEFINE acked == SeqNumOf(AckMsg(w))
             R == ToRetransmit(acked, ewma_rtt')
             n == Cardinality(R)
  <1>1. /\ acked \in DOMAIN unacked
        /\ unacked' = [s \in DOMAIN unacked \ {acked} |->
                         IF s \in R THEN Retransmitted(s) ELSE unacked[s]]
        /\ \E q \in InOrder(R) :
             send_buf' = [i \in DOMAIN q |-> Retransmitted(q[i])] \o send_buf
    BY DEF HandleAck
  <1>2. acked = SeqNumOf(w) /\ SeqNumOf(w) \in Nat \X Nat
    BY SeqNumType DEF SeqNumOf, AckMsg, IInv, TypeOK
  <1>3. /\ R \subseteq DOMAIN unacked
        /\ \A s \in R : unacked[s].num_rtx < MAX_NUM_RTX /\ SeqLess(s, acked)
    BY DEF ToRetransmit
  <1>4. PICK q \in InOrder(R) :
          send_buf' = [i \in DOMAIN q |-> Retransmitted(q[i])] \o send_buf
    BY <1>1
  <1>5. q \in [1..n -> R] /\ \A i, j \in 1..n : i < j => SeqLess(q[i], q[j])
    BY DEF InOrder
  <1> DEFINE copies == [i \in DOMAIN q |-> Retransmitted(q[i])]
  <1> HIDE DEF R, acked
  <1>6. DOMAIN unacked' = DOMAIN unacked \ {SeqNumOf(w)}
    BY <1>1, <1>2
  <1>7. R \subseteq DOMAIN unacked'
    <2> SUFFICES ASSUME NEW s \in R PROVE s # SeqNumOf(w)
      BY <1>3, <1>6
    <2>1. s \in Nat \X Nat /\ SeqLess(s, SeqNumOf(w))
      BY <1>2, <1>3 DEF IInv, TypeOK
    <2> QED
      BY <1>2, <2>1, SeqLessFacts
  <1>8. n \in Nat
    BY <1>3, FS_Subset, FS_CardinalityType DEF IInv, TypeOK
  <1>9. /\ copies \in Seq(Datagram) /\ Len(copies) = n
        /\ \A i \in 1..n : copies[i] = Retransmitted(q[i])
    <2>1. copies \in [1..n -> Datagram]
      BY <1>3, <1>5, RetransmittedFacts DEF IInv
    <2> HIDE DEF n
    <2> QED
      BY <1>5, <1>8, <2>1
  <1>10. send_buf \in Seq(Datagram) /\ send_buf' = copies \o send_buf
    BY <1>4 DEF IInv, TypeOK
  <1> HIDE DEF copies, n
  <1>11. /\ send_buf' \in Seq(Datagram)
         /\ Len(send_buf) \in Nat
         /\ DOMAIN send_buf = 1..Len(send_buf)
         /\ DOMAIN send_buf' = 1..(n + Len(send_buf))
         /\ \A i \in 1..n : send_buf'[i] = copies[i]
         /\ \A i \in (n + 1)..(n + Len(send_buf)) :
              i - n \in DOMAIN send_buf /\ send_buf'[i] = send_buf[i - n]
    <2>1. /\ send_buf' \in Seq(Datagram)
          /\ DOMAIN send_buf' = 1..(n + Len(send_buf))
          /\ \A i \in 1..n : send_buf'[i] = copies[i]
          /\ \A i \in (n + 1)..(n + Len(send_buf)) :
               send_buf'[i] = send_buf[i - n]
      BY <1>9, <1>10, PrependFacts
    <2>2. Len(send_buf) \in Nat /\ DOMAIN send_buf = 1..Len(send_buf)
      BY <1>10
    <2> QED
      BY <1>8, <2>1, <2>2
  <1>12. \A s \in DOMAIN unacked' :
           unacked'[s] = IF s \in R THEN Retransmitted(s) ELSE unacked[s]
    BY <1>1
  <1> R \in SUBSET DOMAIN unacked /\ n \in Nat
    BY <1>3, <1>8
  <1> WITNESS R \in SUBSET DOMAIN unacked, n \in Nat
  <1> q \in [1..n -> R]
    BY <1>5
  <1> WITNESS q \in [1..n -> R]
  <1> QED
    BY <1>3, <1>5, <1>6, <1>7, <1>9, <1>11, <1>12 DEF AckEffect

LEMMA AckInv ==
  ASSUME IInv, NEW w \in wire, HandleAck(AckMsg(w))
  PROVE  IInv'
  <1>1. /\ UNCHANGED <<frame_id, encoded, sender_up, now, wire>>
        /\ min_rtt' = MinRtt(RttSample(AckMsg(w)))
        /\ ewma_rtt' \in EwmaRtt(RttSample(AckMsg(w)))
    BY DEF HandleAck
  <1>2. min_rtt' \in Nat /\ ewma_rtt' \in Nat
    BY <1>1, RttType DEF IInv
  <1>3. CASE UNCHANGED <<unacked, send_buf>>
    BY <1>1, <1>2, <1>3
       DEF IInv, TypeOK, NeverThrows, FreshInOrder, FreshAboveWire,
           RtxWasSent, UnackedWasSent, FramesBelow, WasSent
  <1>4. CASE ~UNCHANGED <<unacked, send_buf>>
    <2>1. PICK R \in SUBSET DOMAIN unacked, n \in Nat :
            \E q \in [1..n -> R] : AckEffect(w, R, n, q)
      BY <1>4, AckFacts
    <2>2. PICK q \in [1..n -> R] : AckEffect(w, R, n, q)
      BY <2>1
    <2>3. /\ DOMAIN unacked' \subseteq DOMAIN unacked
          /\ \A s \in DOMAIN unacked' : \/ unacked'[s] = unacked[s]
                                        \/ unacked'[s] = Retransmitted(s)
          /\ send_buf' \in Seq(Datagram)
          /\ Len(send_buf) \in Nat
          /\ DOMAIN send_buf' = 1..(n + Len(send_buf))
          /\ DOMAIN send_buf = 1..Len(send_buf)
          /\ \A i \in (n + 1)..(n + Len(send_buf)) :
               i - n \in DOMAIN send_buf /\ send_buf'[i] = send_buf[i - n]
      BY <2>2 DEF AckEffect
    <2>4. \A i \in 1..n : \E s \in DOMAIN unacked :
            send_buf'[i] = Retransmitted(s)
      BY <2>2 DEF AckEffect
    <2>5. \A s \in DOMAIN unacked :
            /\ Retransmitted(s) \in Datagram
            /\ SeqNumOf(Retransmitted(s)) = s
            /\ ~Fresh(Retransmitted(s))
            /\ WasSent(s)
            /\ Retransmitted(s).frame_id < frame_id
      <3> TAKE s \in DOMAIN unacked
      <3>1. /\ Retransmitted(s) \in Datagram
            /\ SeqNumOf(Retransmitted(s)) = SeqNumOf(unacked[s])
            /\ Retransmitted(s).num_rtx = unacked[s].num_rtx + 1
        BY RetransmittedFacts DEF IInv
      <3>2. unacked[s].num_rtx \in Nat
        BY DEF IInv, TypeOK, Datagram
      <3>3. SeqNumOf(unacked[s]) = s /\ WasSent(s)
        BY DEF IInv, UnackedWasSent
      <3>4. PICK v \in wire : SeqNumOf(v) = s
        BY <3>3 DEF WasSent
      <3>5. Retransmitted(s).frame_id = v.frame_id
        BY <3>1, <3>3, <3>4 DEF SeqNumOf
      <3> QED
        BY <3>1, <3>2, <3>3, <3>5 DEF IInv, FramesBelow, Fresh
    (* An entry of the new buffer is a copy or was there before. *)
    <2>6. ASSUME NEW i \in DOMAIN send_buf'
          PROVE  \/ /\ i \in 1..n
                    /\ ~Fresh(send_buf'[i])
                    /\ WasSent(SeqNumOf(send_buf'[i]))
                    /\ send_buf'[i].frame_id < frame_id
                 \/ /\ i \in (n + 1)..(n + Len(send_buf))
                    /\ i - n \in DOMAIN send_buf
                    /\ send_buf'[i] = send_buf[i - n]
      <3>1. CASE i \in 1..n
        BY <2>4, <2>5, <3>1
      <3>2. CASE i \in (n + 1)..(n + Len(send_buf))
        BY <2>3, <3>2
      <3> QED
        BY <2>3, <3>1, <3>2
    <2>7. TypeOK'
      <3>1. /\ DOMAIN unacked' \subseteq Nat \X Nat
            /\ \A s \in DOMAIN unacked' : unacked'[s] \in Datagram
        BY <2>3, <2>5 DEF IInv, TypeOK
      <3>2. IsFiniteSet(DOMAIN unacked')
        BY <2>3, FS_Subset DEF IInv, TypeOK
      <3> QED
        BY <1>1, <1>2, <2>3, <3>1, <3>2 DEF IInv, TypeOK
    <2>8. FreshInOrder'
      <3> SUFFICES ASSUME NEW i \in DOMAIN send_buf',
                          NEW j \in DOMAIN send_buf',
                          i < j, Fresh(send_buf'[i])
                   PROVE  /\ Fresh(send_buf'[j])
                          /\ SeqLess(SeqNumOf(send_buf'[i]),
                                     SeqNumOf(send_buf'[j]))
        BY DEF FreshInOrder
      <3>1. /\ i - n \in DOMAIN send_buf /\ send_buf'[i] = send_buf[i - n]
            /\ i \in (n + 1)..(n + Len(send_buf))
        BY <2>6
      <3>2. j \notin 1..n
        BY <2>3, <3>1
      <3>3. j - n \in DOMAIN send_buf /\ send_buf'[j] = send_buf[j - n]
        BY <2>6, <3>2
      <3>4. i - n < j - n
        BY <2>3
      <3> QED
        BY <3>1, <3>3, <3>4 DEF IInv, FreshInOrder
    <2>9. FreshAboveWire'
      BY <1>1, <2>6 DEF IInv, FreshAboveWire
    <2>10. RtxWasSent'
      BY <1>1, <2>6 DEF IInv, RtxWasSent, WasSent
    <2>11. UnackedWasSent'
      BY <1>1, <2>3, <2>5 DEF IInv, UnackedWasSent, WasSent
    <2>12. FramesBelow'
      BY <1>1, <2>6 DEF IInv, FramesBelow
    <2> QED
      BY <1>1, <2>7, <2>8, <2>9, <2>10, <2>11, <2>12
         DEF IInv, NeverThrows
  <1> QED
    BY <1>3, <1>4 DEF HandleAck

LEMMA StepInv == IInv /\ [Next]_vars => IInv'
  <1> SUFFICES ASSUME IInv, [Next]_vars PROVE IInv'
    OBVIOUS
  <1>1. CASE ClockTick \/ ClockStepBack \/ UNCHANGED vars
    <2>1. /\ now' \in Nat
          /\ UNCHANGED <<frame_id, send_buf, unacked, min_rtt, ewma_rtt,
                         encoded, sender_up, wire>>
      BY <1>1, EncoderAssumption
         DEF ClockTick, ClockStepBack, vars, encoderVars, IInv, TypeOK
    <2> QED
      BY <2>1 DEF IInv, TypeOK, NeverThrows, FreshInOrder, FreshAboveWire,
                  RtxWasSent, UnackedWasSent, FramesBelow, WasSent
  <1> QED
    BY <1>1, CompressInv, SendInv, WouldBlockInv, AckInv DEF Next, SenderStep

(* Type correctness of the sender. *)
THEOREM TypeCorrect == Spec => []TypeOK
  <1>1. IInv => TypeOK
    BY DEF IInv
  <1> QED
    BY <1>1, InitInv, StepInv, PTL DEF Spec

(* "datagram already exists in unacked" is never thrown. *)
THEOREM SenderNeverThrows == Spec => []NeverThrows
  <1>1. IInv => NeverThrows
    BY DEF IInv
  <1> QED
    BY <1>1, InitInv, StepInv, PTL DEF Spec

(* Retransmissions are always ahead of new datagrams in the send buffer.   *)
THEOREM UrgentFirst == Spec => []RetransmissionsFirst
  <1>1. IInv => RetransmissionsFirst
    BY DEF IInv, FreshInOrder, RetransmissionsFirst, Fresh
  <1> QED
    BY <1>1, InitInv, StepInv, PTL DEF Spec

(* Datagrams are sent for the first time in the order of their sequence    *)
(* numbers.                                                                *)
THEOREM SendsInOrder == Spec => FirstSendsInOrder
  <1> DEFINE A == \A w \in wire' \ wire :
                    \/ \E v \in wire : SeqNumOf(v) = SeqNumOf(w)
                    \/ \A v \in wire : SeqLess(SeqNumOf(v), SeqNumOf(w))
  <1>1. IInv /\ [Next]_vars => [A]_vars
    <2> SUFFICES ASSUME IInv, [Next]_vars, NEW w \in wire' \ wire
                 PROVE  \/ \E v \in wire : SeqNumOf(v) = SeqNumOf(w)
                        \/ \A v \in wire : SeqLess(SeqNumOf(v), SeqNumOf(w))
      OBVIOUS
    <2>1. SendDatagram
      BY DEF Next, SenderStep, CompressFrame, Compress, SendWouldBlock,
             HandleAck, ClockTick, ClockStepBack, vars, encoderVars
    <2> DEFINE h == Head(send_buf)
               d == [h EXCEPT !.send_ts = now]
    <2>2. send_buf # <<>> /\ w = OnWire(d)
      BY <2>1 DEF SendDatagram
    <2>3. h \in Datagram /\ h = send_buf[1] /\ 1 \in DOMAIN send_buf
          /\ (~Fresh(h) => WasSent(SeqNumOf(h)))
      BY <2>2, HeadFacts
    <2>4. SeqNumOf(w) = SeqNumOf(h)
      BY <2>2, <2>3 DEF OnWire, SeqNumOf, Datagram, IInv, TypeOK
    <2> QED
      BY <2>3, <2>4 DEF IInv, FreshAboveWire, WasSent
  <1> QED
    BY <1>1, InitInv, StepInv, PTL DEF Spec, FirstSendsInOrder

-----------------------------------------------------------------------------
(* The retransmission budget, in three parts. *)

UnackedBudget == \A s \in DOMAIN unacked : unacked[s].num_rtx <= MAX_NUM_RTX

CopyBudget ==
  \A i \in DOMAIN send_buf :
    /\ send_buf[i].num_rtx <= MAX_NUM_RTX
    /\ SeqNumOf(send_buf[i]) \in DOMAIN unacked
         => send_buf[i].num_rtx \in 1..unacked[SeqNumOf(send_buf[i])].num_rtx

CopiesDescend ==
  \A i, j \in DOMAIN send_buf :
    i < j /\ SeqNumOf(send_buf[j]) = SeqNumOf(send_buf[i])
      => send_buf[j].num_rtx < send_buf[i].num_rtx

LEMMA BudgetParts ==
  RtxBudget <=> UnackedBudget /\ CopyBudget /\ CopiesDescend
  BY DEF RtxBudget, UnackedBudget, CopyBudget, CopiesDescend

LEMMA FieldTypes ==
  ASSUME TypeOK
  PROVE  /\ \A i \in DOMAIN send_buf : /\ send_buf[i].num_rtx \in Nat
                                       /\ send_buf[i].frame_id \in Nat
         /\ \A s \in DOMAIN unacked : unacked[s].num_rtx \in Nat
  <1>1. /\ \A i \in DOMAIN send_buf : send_buf[i] \in Datagram
        /\ \A s \in DOMAIN unacked : unacked[s] \in Datagram
    BY DEF TypeOK
  <1> QED
    BY <1>1 DEF Datagram

(* New datagrams are numbered 0, and their frame was never sent. *)
LEMMA CompressBudget ==
  ASSUME IInv, RtxBudget, CompressFrame
  PROVE  RtxBudget'
  <1>1. PICK size \in FrameSizes, m \in Nat : CompressEffect(size, m)
    BY CompressFacts
  <1>2. /\ DOMAIN unacked' \subseteq DOMAIN unacked
        /\ \A s \in DOMAIN unacked' : unacked'[s] = unacked[s]
    BY <1>1 DEF CompressEffect, EmptyMap
  <1>3. ASSUME NEW i \in DOMAIN send_buf'
        PROVE  /\ i \in Nat
               /\ \/ /\ i \in DOMAIN send_buf /\ i <= m
                     /\ send_buf'[i] = send_buf[i]
                  \/ /\ i > m
                     /\ send_buf'[i].num_rtx = 0
                     /\ SeqNumOf(send_buf'[i]) = <<frame_id, i - m - 1>>
    BY <1>1 DEF CompressEffect, Fresh, SeqNumOf
  (* A sequence number of the new frame is new. *)
  <1>4. /\ \A s \in DOMAIN unacked : s[1] # frame_id
        /\ \A i \in DOMAIN send_buf : SeqNumOf(send_buf[i])[1] # frame_id
    <2>1. frame_id \in Nat /\ \A w \in wire : w.frame_id \in Nat
      BY DEF IInv, TypeOK, WireDatagram
    <2>2. \A w \in wire : SeqNumOf(w)[1] # frame_id
      BY <2>1 DEF IInv, FramesBelow, SeqNumOf
    <2>3. \A i \in DOMAIN send_buf : send_buf[i].frame_id \in Nat
      BY FieldTypes DEF IInv
    <2> QED
      BY <2>1, <2>2, <2>3
         DEF IInv, UnackedWasSent, WasSent, FramesBelow, SeqNumOf
  <1>5. UnackedBudget'
    BY <1>2, BudgetParts DEF UnackedBudget
  <1>6. CopyBudget'
    <2> SUFFICES ASSUME NEW i \in DOMAIN send_buf'
                 PROVE  /\ send_buf'[i].num_rtx <= MAX_NUM_RTX
                        /\ SeqNumOf(send_buf'[i]) \in DOMAIN unacked'
                             => send_buf'[i].num_rtx
                                  \in 1..unacked'[SeqNumOf(send_buf'[i])].num_rtx
      BY DEF CopyBudget
    <2>1. CASE i \in DOMAIN send_buf /\ send_buf'[i] = send_buf[i]
      BY <1>2, <2>1, BudgetParts DEF CopyBudget
    <2>2. CASE /\ send_buf'[i].num_rtx = 0
               /\ SeqNumOf(send_buf'[i]) = <<frame_id, i - m - 1>>
      <3>1. SeqNumOf(send_buf'[i]) \notin DOMAIN unacked'
        BY <1>2, <1>4, <2>2
      <3> QED
        BY <2>2, <3>1, EncoderAssumption
    <2> QED
      BY <1>3, <2>1, <2>2
  <1>7. CopiesDescend'
    <2> SUFFICES ASSUME NEW i \in DOMAIN send_buf', NEW j \in DOMAIN send_buf',
                        i < j, SeqNumOf(send_buf'[j]) = SeqNumOf(send_buf'[i])
                 PROVE  send_buf'[j].num_rtx < send_buf'[i].num_rtx
      BY DEF CopiesDescend
    <2>1. CASE j <= m
      <3>1. /\ i \in DOMAIN send_buf /\ send_buf'[i] = send_buf[i]
            /\ j \in DOMAIN send_buf /\ send_buf'[j] = send_buf[j]
        BY <1>3, <2>1
      <3> QED
        BY <3>1, BudgetParts DEF CopiesDescend
    <2>2. CASE j > m /\ i <= m
      <3>1. /\ i \in DOMAIN send_buf /\ send_buf'[i] = send_buf[i]
            /\ SeqNumOf(send_buf'[j])[1] = frame_id
        BY <1>3, <2>2
      <3> QED
        BY <1>4, <3>1
    <2>3. CASE j > m /\ i > m
      <3>1. i \in Nat /\ j \in Nat /\ i - m - 1 = j - m - 1
        BY <1>3, <2>3
      <3> QED
        BY <3>1
    <2> QED
      BY <1>3, <2>1, <2>2, <2>3
  <1> QED
    BY <1>5, <1>6, <1>7
       DEF RtxBudget, UnackedBudget, CopyBudget, CopiesDescend

(* A new datagram leaves the buffer for unacked_; no copy of it is left.   *)
LEMMA SendBudget ==
  ASSUME IInv, RtxBudget, SendDatagram
  PROVE  RtxBudget'
  <1>1. PICK d \in Datagram : SendEffect(d)
    BY SendFacts
  <1>2. \A i \in DOMAIN send_buf' :
          i \in Nat /\ i + 1 \in DOMAIN send_buf /\ send_buf'[i] = send_buf[i + 1]
    BY <1>1 DEF SendEffect
  <1>3. \A s \in DOMAIN unacked' :
          \/ s \in DOMAIN unacked /\ unacked'[s] = unacked[s]
          \/ s = SeqNumOf(d) /\ Fresh(d) /\ unacked'[s].num_rtx = 0
    BY <1>1 DEF SendEffect, Datagram, Fresh
  (* What follows a new datagram has other sequence numbers. *)
  <1>4. Fresh(d) => \A i \in DOMAIN send_buf' :
                      SeqNumOf(send_buf'[i]) # SeqNumOf(d)
    <2> SUFFICES ASSUME Fresh(d), NEW i \in DOMAIN send_buf'
                 PROVE  SeqNumOf(send_buf'[i]) # SeqNumOf(d)
      OBVIOUS
    <2>1. /\ 1 \in DOMAIN send_buf /\ i + 1 \in DOMAIN send_buf /\ 1 < i + 1
          /\ Fresh(send_buf[1])
          /\ SeqNumOf(d) = SeqNumOf(send_buf[1])
          /\ send_buf'[i] = send_buf[i + 1]
      BY <1>1 DEF SendEffect
    <2>2. SeqLess(SeqNumOf(send_buf[1]), SeqNumOf(send_buf[i + 1]))
      BY <2>1 DEF IInv, FreshInOrder
    <2>3. /\ SeqNumOf(send_buf[1]) \in Nat \X Nat
          /\ SeqNumOf(send_buf[i + 1]) \in Nat \X Nat
      BY <2>1, SeqNumType DEF IInv, TypeOK
    <2> QED
      BY <2>1, <2>2, <2>3, SeqLessFacts
  <1>5. UnackedBudget'
    BY <1>3, BudgetParts, EncoderAssumption DEF UnackedBudget
  <1>6. CopyBudget'
    BY <1>2, <1>3, <1>4, BudgetParts DEF CopyBudget
  <1>7. CopiesDescend'
    BY <1>2, BudgetParts DEF CopiesDescend
  <1> QED
    BY <1>5, <1>6, <1>7
       DEF RtxBudget, UnackedBudget, CopyBudget, CopiesDescend

(* A copy carries the number of its entry in unacked_, which goes up with  *)
(* it and so is above those of all older copies.                           *)
LEMMA AckBudget ==
  ASSUME IInv, RtxBudget, NEW w \in wire, HandleAck(AckMsg(w)),
         ~UNCHANGED <<unacked, send_buf>>
  PROVE  RtxBudget'
  <1>1. PICK R \in SUBSET DOMAIN unacked, n \in Nat :
          \E q \in [1..n -> R] : AckEffect(w, R, n, q)
    BY AckFacts
  <1>2. PICK q \in [1..n -> R] : AckEffect(w, R, n, q)
    BY <1>1
  <1>3. \A s \in DOMAIN unacked :
          /\ SeqNumOf(Retransmitted(s)) = s
          /\ Retransmitted(s).num_rtx = unacked[s].num_rtx + 1
          /\ unacked[s].num_rtx \in Nat
    BY RetransmittedFacts, FieldTypes DEF IInv, UnackedWasSent
  <1>4. \A s \in DOMAIN unacked' :
          /\ s \in DOMAIN unacked
          /\ unacked'[s].num_rtx = IF s \in R THEN unacked[s].num_rtx + 1
                                              ELSE unacked[s].num_rtx
    BY <1>2, <1>3 DEF AckEffect
  <1>5. ASSUME NEW i \in DOMAIN send_buf'
        PROVE  /\ i \in Nat
               /\ \/ /\ i \in 1..n
                     /\ q[i] \in R
                     /\ q[i] \in DOMAIN unacked /\ q[i] \in DOMAIN unacked'
                     /\ SeqNumOf(send_buf'[i]) = q[i]
                     /\ send_buf'[i].num_rtx = unacked[q[i]].num_rtx + 1
                  \/ /\ i > n /\ i - n \in DOMAIN send_buf
                     /\ send_buf'[i] = send_buf[i - n]
    <2>1. /\ DOMAIN send_buf' = 1..(n + Len(send_buf)) /\ Len(send_buf) \in Nat
          /\ R \subseteq DOMAIN unacked'
      BY <1>2 DEF AckEffect
    <2>2. CASE i \in 1..n
      BY <1>2, <1>3, <2>1, <2>2 DEF AckEffect
    <2>3. CASE i \in (n + 1)..(n + Len(send_buf))
      BY <1>2, <2>1, <2>3 DEF AckEffect
    <2> QED
      BY <2>1, <2>2, <2>3
  <1>6. \A s \in R : unacked[s].num_rtx < MAX_NUM_RTX
    BY <1>2 DEF AckEffect
  <1>7. UnackedBudget'
    BY <1>3, <1>4, <1>6, BudgetParts, EncoderAssumption DEF UnackedBudget
  <1>8. CopyBudget'
    <2> SUFFICES ASSUME NEW i \in DOMAIN send_buf'
                 PROVE  /\ send_buf'[i].num_rtx <= MAX_NUM_RTX
                        /\ SeqNumOf(send_buf'[i]) \in DOMAIN unacked'
                             => send_buf'[i].num_rtx
                                  \in 1..unacked'[SeqNumOf(send_buf'[i])].num_rtx
      BY DEF CopyBudget
    <2>1. CASE i \in 1..n /\ q[i] \in R
      <3>1. /\ SeqNumOf(send_buf'[i]) = q[i]
            /\ q[i] \in DOMAIN unacked /\ q[i] \in DOMAIN unacked'
            /\ send_buf'[i].num_rtx = unacked[q[i]].num_rtx + 1
        BY <1>5, <2>1
      <3>2. unacked'[q[i]].num_rtx = unacked[q[i]].num_rtx + 1
        BY <1>4, <2>1, <3>1
      <3> QED
        BY <1>3, <1>6, <2>1, <3>1, <3>2, EncoderAssumption
    <2>2. CASE i > n /\ i - n \in DOMAIN send_buf
               /\ send_buf'[i] = send_buf[i - n]
      <3> DEFINE s == SeqNumOf(send_buf[i - n])
      <3>1. /\ send_buf[i - n].num_rtx <= MAX_NUM_RTX
            /\ send_buf[i - n].num_rtx \in Nat
            /\ s \in DOMAIN unacked
                 => send_buf[i - n].num_rtx \in 1..unacked[s].num_rtx
        BY <2>2, BudgetParts, FieldTypes DEF CopyBudget, IInv
      <3>2. s \in DOMAIN unacked'
              => /\ s \in DOMAIN unacked
                 /\ unacked'[s].num_rtx \in Nat
                 /\ unacked[s].num_rtx <= unacked'[s].num_rtx
        BY <1>3, <1>4
      <3> QED
        BY <1>3, <2>2, <3>1, <3>2
    <2> QED
      BY <1>5, <2>1, <2>2
  <1>9. CopiesDescend'
    <2> SUFFICES ASSUME NEW i \in DOMAIN send_buf', NEW j \in DOMAIN send_buf',
                        i < j, SeqNumOf(send_buf'[j]) = SeqNumOf(send_buf'[i])
                 PROVE  send_buf'[j].num_rtx < send_buf'[i].num_rtx
      BY DEF CopiesDescend
    <2>1. CASE i \in 1..n /\ j \in 1..n
      <3>1. q[i] = q[j] /\ q[i] \in DOMAIN unacked
        <4>1. i \notin {k \in Nat : k > n} /\ j \notin {k \in Nat : k > n}
          BY <2>1
        <4> QED
          BY <1>5, <4>1
      <3>2. SeqLess(q[i], q[j])
        BY <1>2, <2>1 DEF AckEffect
      <3>3. q[i] \in Nat \X Nat
        BY <3>1 DEF IInv, TypeOK
      <3> QED
        BY <3>1, <3>2, <3>3, SeqLessFacts
    <2>2. CASE i \in 1..n /\ j > n
      <3>1. /\ q[i] \in DOMAIN unacked
            /\ send_buf'[i].num_rtx = unacked[q[i]].num_rtx + 1
            /\ j - n \in DOMAIN send_buf
            /\ send_buf'[j] = send_buf[j - n]
            /\ SeqNumOf(send_buf[j - n]) = q[i]
        BY <1>5, <2>2
      <3>2. send_buf[j - n].num_rtx \in 1..unacked[q[i]].num_rtx
        BY <3>1, BudgetParts DEF CopyBudget
      <3> QED
        BY <1>3, <3>1, <3>2
    <2>3. CASE i > n
      <3>1. /\ i - n \in DOMAIN send_buf /\ j - n \in DOMAIN send_buf
            /\ send_buf'[i] = send_buf[i - n] /\ send_buf'[j] = send_buf[j - n]
            /\ i - n < j - n
        BY <1>5, <2>3
      <3> QED
        BY <3>1, BudgetParts DEF CopiesDescend
    <2> QED
      BY <1>5, <2>1, <2>2, <2>3
  <1> QED
    BY <1>7, <1>8, <1>9
       DEF RtxBudget, UnackedBudget, CopyBudget, CopiesDescend

LEMMA BudgetStep == IInv /\ RtxBudget /\ [Next]_vars => RtxBudget'
  <1> SUFFICES ASSUME IInv, RtxBudget, [Next]_vars PROVE RtxBudget'
    OBVIOUS
  <1>1. CASE SendWouldBlock
    <2>1. /\ UnackedBudget' /\ CopyBudget'
          /\ CopiesDescend'
      BY <1>1, WouldBlockFacts, BudgetParts
         DEF UnackedBudget, CopyBudget, CopiesDescend
    <2> QED
      BY <2>1 DEF RtxBudget, UnackedBudget, CopyBudget, CopiesDescend
  <1>2. CASE UNCHANGED <<unacked, send_buf>>
    BY <1>2 DEF RtxBudget
  <1> QED
    BY <1>1, <1>2, CompressBudget, SendBudget, AckBudget
       DEF Next, SenderStep, ClockTick, ClockStepBack, vars, encoderVars

(* No datagram is queued more often than MAX_NUM_RTX allows, and its       *)
(* copies are numbered without repetition, whatever is acknowledged when.  *)
THEOREM BudgetKept == Spec => []RtxBudget
  <1>1. Init => RtxBudget
    BY DEF Init, RtxBudget, EmptyMap
  <1> QED
    BY <1>1, InitInv, StepInv, BudgetStep, PTL DEF Spec

-----------------------------------------------------------------------------
(* While the clock does not step back, unacked_ is ordered by age as well  *)
(* as by sequence number, and no difference of times wraps around.         *)

SentBefore == \A s \in DOMAIN unacked : unacked[s].send_ts <= now

OldestInv == SentBefore /\ FirstUnackedIsOldest

LEMMA SendTimeType ==
  ASSUME IInv
  PROVE  \A s \in DOMAIN unacked : /\ unacked[s].send_ts \in Nat
                                   /\ s \in Nat \X Nat
                                   /\ SeqNumOf(unacked[s]) = s
  <1>1. \A s \in DOMAIN unacked : unacked[s] \in Datagram
    BY DEF IInv, TypeOK
  <1> QED
    BY <1>1 DEF Datagram, IInv, TypeOK, UnackedWasSent

(* A difference of two times that does not wrap.                           *)
LEMMA ElapsedFacts ==
  ASSUME NEW since \in Nat, now \in Nat, since <= now
  PROVE  Elapsed(since) \in Nat /\ Elapsed(since) <= now - since
  <1> DEFINE a == now - since
  <1>1. a \in Nat /\ TS_MOD \in Nat \ {0}
    BY EncoderAssumption
  <1> HIDE DEF a
  <1>2. a % TS_MOD \in Nat /\ a % TS_MOD <= a
    BY <1>1
  <1> QED
    BY <1>2 DEF Elapsed, a

(* The datagram sent for the first time is the youngest, and the last.     *)
LEMMA SendOldest ==
  ASSUME IInv, OldestInv, SendDatagram
  PROVE  OldestInv'
  <1>1. PICK d \in Datagram : SendEffect(d)
    BY SendFacts
  <1>2. /\ now \in Nat /\ now' = now
        /\ 1 \in DOMAIN send_buf
        /\ SeqNumOf(d) = SeqNumOf(send_buf[1])
        /\ Fresh(d) <=> Fresh(send_buf[1])
    BY <1>1 DEF SendEffect, IInv, TypeOK
  <1>3. \A s \in DOMAIN unacked' :
          \/ s \in DOMAIN unacked /\ unacked'[s] = unacked[s]
          \/ s = SeqNumOf(d) /\ Fresh(d) /\ unacked'[s].send_ts = now
    BY <1>1 DEF SendEffect, Datagram
  <1>4. ASSUME Fresh(d), NEW s \in DOMAIN unacked
        PROVE  SeqLess(s, SeqNumOf(d))
    <2>1. PICK w \in wire : SeqNumOf(w) = s
      BY DEF IInv, UnackedWasSent, WasSent
    <2> QED
      BY <1>2, <1>4, <2>1 DEF IInv, FreshAboveWire
  <1>5. SentBefore'
    BY <1>2, <1>3 DEF OldestInv, SentBefore
  <1>6. ASSUME NEW s \in DOMAIN unacked', NEW t \in DOMAIN unacked',
               SeqLess(s, t)
        PROVE  unacked'[s].send_ts <= unacked'[t].send_ts
    <2>1. SeqNumOf(d) \in Nat \X Nat
      BY SeqNumType
    <2>2. CASE t \in DOMAIN unacked /\ unacked'[t] = unacked[t]
      <3>1. t \in Nat \X Nat /\ s \in Nat \X Nat
        BY <1>3, <2>1, SendTimeType
      <3>2. ~(s = SeqNumOf(d) /\ Fresh(d))
        <4> SUFFICES ASSUME s = SeqNumOf(d), Fresh(d) PROVE FALSE
          OBVIOUS
        <4>1. SeqLess(t, s) /\ SeqLess(s, t)
          BY <1>4, <1>6, <2>2
        <4> QED
          BY <3>1, <4>1 DEF SeqLess
      <3> QED
        BY <1>3, <1>6, <2>2, <3>2 DEF OldestInv, FirstUnackedIsOldest
    <2>3. CASE unacked'[t].send_ts = now
      BY <1>2, <1>3, <2>3 DEF OldestInv, SentBefore
    <2> QED
      BY <1>3, <2>2, <2>3
  <1> QED
    BY <1>5, <1>6 DEF OldestInv, FirstUnackedIsOldest

LEMMA OldestStep ==
  ASSUME ~ClockMayStepBack
  PROVE  IInv /\ OldestInv /\ [Next]_vars => OldestInv'
  <1> SUFFICES ASSUME IInv, OldestInv, [Next]_vars PROVE OldestInv'
    OBVIOUS
  <1>1. CASE CompressFrame
    <2>1. /\ DOMAIN unacked' \subseteq DOMAIN unacked
          /\ \A s \in DOMAIN unacked' : unacked'[s] = unacked[s]
          /\ now' = now
      BY <1>1, CompressFacts DEF CompressEffect, EmptyMap
    <2> QED
      BY <2>1 DEF OldestInv, SentBefore, FirstUnackedIsOldest
  <1>2. ASSUME NEW w \in wire, HandleAck(AckMsg(w)),
               ~UNCHANGED <<unacked, send_buf>>
        PROVE  OldestInv'
    <2>1. PICK R \in SUBSET DOMAIN unacked, n \in Nat :
            \E q \in [1..n -> R] : AckEffect(w, R, n, q)
      BY <1>2, AckFacts
    <2>2. /\ DOMAIN unacked' \subseteq DOMAIN unacked
          /\ \A s \in DOMAIN unacked' :
               \/ unacked'[s] = Retransmitted(s)
               \/ unacked'[s] = unacked[s]
      BY <2>1 DEF AckEffect
    <2>3. /\ now' = now
          /\ \A s \in DOMAIN unacked' : unacked'[s].send_ts = unacked[s].send_ts
      BY <1>2, <2>2, RetransmittedFacts DEF HandleAck, IInv
    <2> QED
      BY <2>2, <2>3 DEF OldestInv, SentBefore, FirstUnackedIsOldest
  <1>3. CASE unacked' = unacked /\ (now' = now \/ now' = now + 1)
    <2>1. now \in Nat
      BY DEF IInv, TypeOK
    <2>2. SentBefore'
      BY <1>3, <2>1, SendTimeType DEF OldestInv, SentBefore
    <2> QED
      BY <1>3, <2>2 DEF OldestInv, FirstUnackedIsOldest
  <1>4. CASE \E w \in wire : HandleAck(AckMsg(w))
    BY <1>2, <1>3, <1>4 DEF HandleAck
  <1>5. CASE ClockTick \/ ClockStepBack \/ SendWouldBlock \/ UNCHANGED vars
    BY <1>3, <1>5
       DEF ClockTick, ClockStepBack, SendWouldBlock, vars, encoderVars
  <1> QED
    BY <1>1, <1>4, <1>5, SendOldest DEF Next, SenderStep

LEMMA OldestInit == Init => OldestInv
  BY DEF Init, OldestInv, SentBefore, FirstUnackedIsOldest, EmptyMap

(* While the clock does not step back, the first unacked datagram is the   *)
(* oldest.                                                                 *)
THEOREM FirstIsOldest ==
  ASSUME ~ClockMayStepBack
  PROVE  Spec => []FirstUnackedIsOldest
  <1>1. OldestInv => FirstUnackedIsOldest
    BY DEF OldestInv
  <1> QED
    BY <1>1, OldestInit, OldestStep, InitInv, StepInv, PTL DEF Spec

(* While the clock does not step back, a key frame is forced only after a  *)
(* datagram has been unacknowledged for longer than MAX_UNACKED_US: no     *)
(* wraparound of the difference can make it look older than it is.         *)
THEOREM GiveUpJustified ==
  ASSUME ~ClockMayStepBack
  PROVE  Spec => GiveUpOnlyAfterTimeout
  <1> DEFINE Forced == /\ frame_id > 0
                       /\ Len(encoded') > Len(encoded)
                       /\ encoded'[Len(encoded')].frame_type = KEY
             Waited == \E s \in DOMAIN unacked :
                         now - unacked[s].send_ts > MAX_UNACKED_US
  <1>1. IInv /\ OldestInv /\ [Next]_vars => [Forced => Waited]_vars
    <2> SUFFICES ASSUME IInv, OldestInv, [Next]_vars, Forced PROVE Waited
      OBVIOUS
    <2>1. encoded' # encoded
      <3>1. Len(encoded) \in Nat
        BY DEF IInv, TypeOK
      <3> QED
        BY <3>1
    <2>2. CompressFrame
      BY <2>1 DEF Next, SenderStep, SendDatagram, SendWouldBlock, HandleAck,
                  ClockTick, ClockStepBack, vars, encoderVars
    <2>3. PICK size \in FrameSizes :
            encoded' = Append(encoded, [frame_type |-> EncodedType(GivesUp),
                                        size |-> size])
      BY <2>2, CompressFacts DEF CompressEffect
    <2>4. encoded'[Len(encoded')].frame_type = EncodedType(GivesUp)
      <3> DEFINE e == [frame_type |-> EncodedType(GivesUp), size |-> size]
      <3>1. encoded \in Seq([frame_type : FrameType, size : Nat])
        BY DEF IInv, TypeOK
      <3>2. encoded'[Len(encoded')] = e
        <4> HIDE DEF e
        <4>1. encoded' = Append(encoded, e)
          BY <2>3 DEF e
        <4> QED
          BY <3>1, <4>1
      <3> QED
        BY <3>2
    <2>5. GivesUp
      BY <2>4 DEF EncodedType, KEY, NONKEY
    <2>6. PICK s \in DOMAIN unacked : Elapsed(unacked[s].send_ts) > MAX_UNACKED_US
      BY <2>5 DEF GivesUp
    <2>7. /\ unacked[s].send_ts \in Nat /\ now \in Nat
          /\ unacked[s].send_ts <= now
      BY SendTimeType DEF OldestInv, SentBefore, IInv, TypeOK
    <2>8. /\ Elapsed(unacked[s].send_ts) \in Nat
          /\ Elapsed(unacked[s].send_ts) <= now - unacked[s].send_ts
      BY <2>7, ElapsedFacts
    <2> QED
      BY <2>6, <2>7, <2>8, EncoderAssumption
  <1> QED
    BY <1>1, OldestInit, OldestStep, InitInv, StepInv, PTL
       DEF Spec, GiveUpOnlyAfterTimeout
=============================================================================
