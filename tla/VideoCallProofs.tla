--------------------------- MODULE VideoCallProofs ---------------------------
(***************************************************************************)
(* A whole call, for every network that loses, repeats, delays and         *)
(* reorders datagrams and ACKs: neither process throws, frames arrive as   *)
(* they were encoded, and the receiver never waits for something that the  *)
(* sender has forgotten.                                                   *)
(*                                                                         *)
(* A call runs the sender and the receiver of modules Encoder and Decoder, *)
(* so that what is proved of each of them alone holds in a call.           *)
(***************************************************************************)
EXTENDS VideoCall, FiniteSetTheorems, TLAPS

SP == INSTANCE EncoderProofs
DP == INSTANCE DecoderProofs WITH Incoming <- WireDatagram

-----------------------------------------------------------------------------
(* The instances of the proof modules speak of the same call.              *)

LEMMA SharedProtocol ==
  /\ SP!Datagram = Datagram
  /\ SP!WireDatagram = WireDatagram
  /\ DP!WireDatagram = WireDatagram
  /\ SP!FrameType = FrameType /\ DP!FrameType = FrameType
  /\ SP!KEY = KEY /\ DP!KEY = KEY
  /\ SP!NONKEY = NONKEY
  /\ \A m : SP!SeqNumOf(m) = SeqNumOf(m)
  /\ \A w : SP!AckMsg(w) = AckMsg(w) /\ DP!AckMsg(w) = AckMsg(w)
  /\ \A d : SP!OnWire(d) = OnWire(d)
  /\ \A size : SP!FragCnt(size) = FragCnt(size)
  /\ \A id, type, size : SP!Packetize(id, type, size) = Packetize(id, type, size)
  BY Zenon
     DEF SP!Datagram, Datagram, SP!WireDatagram, DP!WireDatagram, WireDatagram,
         SP!FrameType, DP!FrameType, FrameType, SP!KEY, DP!KEY, KEY,
         SP!NONKEY, DP!NONKEY, NONKEY, SP!SeqNumOf, SeqNumOf, SP!AckMsg,
         DP!AckMsg, AckMsg, SP!OnWire, OnWire, SP!FragCnt, FragCnt,
         SP!Packetize, Packetize, SP!PayloadSize, PayloadSize

LEMMA SharedSender ==
  /\ E!Init <=> SP!Init
  /\ E!CompressFrame <=> SP!CompressFrame
  /\ E!SendDatagram <=> SP!SendDatagram
  /\ E!SendWouldBlock <=> SP!SendWouldBlock
  /\ E!ClockTick <=> SP!ClockTick
  /\ E!ClockStepBack <=> SP!ClockStepBack
  /\ \A ack : E!HandleAck(ack) <=> SP!HandleAck(ack)
  <1>1. E!Init <=> SP!Init
    BY Zenon DEF E!Init, SP!Init, E!EmptyMap, SP!EmptyMap
  <1>2. E!CompressFrame <=> SP!CompressFrame
    BY Zenon
       DEF E!CompressFrame, SP!CompressFrame, E!Compress, SP!Compress,
           E!GivesUp, SP!GivesUp, E!Elapsed, SP!Elapsed,
           E!EmptyMap, SP!EmptyMap, E!EncodedType, SP!EncodedType,
           E!IsFirstUnacked, SP!IsFirstUnacked, E!SeqLess, SP!SeqLess,
           E!KEY, SP!KEY, E!NONKEY, SP!NONKEY, E!Packetize, SP!Packetize,
           E!PayloadSize, SP!PayloadSize, E!FragCnt, SP!FragCnt
  <1>3. E!SendDatagram <=> SP!SendDatagram
    BY Zenon
       DEF E!SendDatagram, SP!SendDatagram, E!AddUnacked, SP!AddUnacked,
           E!WithEntry, SP!WithEntry, E!SeqNumOf, SP!SeqNumOf,
           E!OnWire, SP!OnWire
  <1>4. E!SendWouldBlock <=> SP!SendWouldBlock
    BY Zenon DEF E!SendWouldBlock, SP!SendWouldBlock
  <1>5. /\ E!ClockTick <=> SP!ClockTick
        /\ E!ClockStepBack <=> SP!ClockStepBack
    BY Zenon DEF E!ClockTick, SP!ClockTick, E!ClockStepBack, SP!ClockStepBack
  <1>6. \A ack : E!HandleAck(ack) <=> SP!HandleAck(ack)
    BY Zenon
       DEF E!HandleAck, SP!HandleAck, E!MinRtt, SP!MinRtt, E!RttSample,
           SP!RttSample, E!Elapsed, SP!Elapsed, E!EwmaRtt, SP!EwmaRtt,
           E!SeqNumOf, SP!SeqNumOf, E!ToRetransmit, SP!ToRetransmit,
           E!Retransmitted, SP!Retransmitted, E!InOrder, SP!InOrder,
           E!SeqLess, SP!SeqLess, E!Cardinality, SP!Cardinality
  <1> QED
    BY <1>1, <1>2, <1>3, <1>4, <1>5, <1>6

LEMMA SharedReceiver ==
  /\ D!Init <=> DP!Init
  /\ \A w : D!ReceiveDatagram(w) <=> DP!ReceiveDatagram(w)
  /\ D!Drain <=> DP!Drain
  <1>1. D!Init <=> DP!Init
    BY Zenon DEF D!Init, DP!Init
  <1>2. \A w : D!ReceiveDatagram(w) <=> DP!ReceiveDatagram(w)
    BY Zenon
       DEF D!ReceiveDatagram, DP!ReceiveDatagram, D!AckMsg, DP!AckMsg,
           D!Compatible, DP!Compatible, D!FrameOf, DP!FrameOf,
           D!NewFrame, DP!NewFrame, D!WithEntry, DP!WithEntry,
           D!InsertFrag, DP!InsertFrag
  <1>3. D!Drain <=> DP!Drain
    BY Zenon
       DEF D!Drain, DP!Drain, D!ConsumeNext, DP!ConsumeNext,
           D!SkipToKey, DP!SkipToKey, D!DrainDone, DP!DrainDone,
           D!Consume, DP!Consume, D!CleanUpTo, DP!CleanUpTo,
           D!Complete, DP!Complete, D!CompleteKey, DP!CompleteKey,
           D!LatestCompleteKey, DP!LatestCompleteKey, D!KEY, DP!KEY
  <1> QED
    BY <1>1, <1>2, <1>3

-----------------------------------------------------------------------------
(* A step of the call is a step of the sender and one of the receiver, as  *)
(* modules Encoder and Decoder know them.                                  *)

(* ACKs acknowledge datagrams that were sent. *)
AcksOfWire == acks \subseteq {AckMsg(w) : w \in wire}

LEMMA WireAssumption == WireDatagram \subseteq DP!WireDatagram
  BY SharedProtocol

LEMMA StepOfSender ==
  ASSUME AcksOfWire, [Next]_vars
  PROVE  [SP!Next]_(SP!vars)
  <1>1. CASE E!SenderStep
    BY <1>1, SharedSender DEF E!SenderStep, SP!Next, SP!SenderStep
  <1>2. CASE \E ack \in acks : E!HandleAck(ack)
    <2>1. PICK ack \in acks : SP!HandleAck(ack)
      BY <1>2, SharedSender
    <2>2. PICK w \in wire : ack = SP!AckMsg(w)
      BY SharedProtocol DEF AcksOfWire
    <2> QED
      BY <2>1, <2>2 DEF SP!Next
  <1>3. CASE UNCHANGED senderVars
    BY <1>3 DEF senderVars, SP!vars, SP!encoderVars
  <1> QED
    BY <1>1, <1>2, <1>3 DEF Next, vars

LEMMA StepOfReceiver ==
  ASSUME wire \subseteq WireDatagram, [Next]_vars
  PROVE  [DP!Next]_(DP!vars)
  <1>1. CASE \E w \in wire : D!ReceiveDatagram(w)
    BY <1>1, SharedReceiver DEF DP!Next
  <1>2. CASE D!Drain
    BY <1>2, SharedReceiver DEF DP!Next
  <1>3. CASE UNCHANGED receiverVars
    BY <1>3 DEF receiverVars, DP!vars, DP!decoderVars
  <1> QED
    BY <1>1, <1>2, <1>3 DEF Next, vars

LEMMA AcksStep ==
  ASSUME AcksOfWire, [Next]_vars
  PROVE  AcksOfWire'
  <1>1. wire \subseteq wire'
    <2>1. CASE UNCHANGED senderVars
      BY <2>1 DEF senderVars
    <2>2. CASE E!SenderStep
      BY <2>2 DEF E!SenderStep, E!CompressFrame, E!Compress, E!SendDatagram,
                  E!SendWouldBlock, E!ClockTick, E!ClockStepBack
    <2>3. CASE \E ack \in acks : E!HandleAck(ack)
      BY <2>3 DEF E!HandleAck
    <2> QED
      BY <2>1, <2>2, <2>3 DEF Next, vars
  <1>2. acks' \subseteq {AckMsg(w) : w \in wire}
    <2>1. ASSUME NEW w \in wire, D!ReceiveDatagram(w)
          PROVE  acks' \subseteq {AckMsg(v) : v \in wire}
      <3>1. acks' = acks \cup {AckMsg(w)}
        BY <2>1 DEF D!ReceiveDatagram, D!AckMsg, AckMsg
      <3> QED
        BY <3>1 DEF AcksOfWire
    <2>2. CASE acks' = acks
      BY <2>2 DEF AcksOfWire
    <2>3. CASE D!Drain
      BY <2>2, <2>3 DEF D!Drain, D!ConsumeNext, D!SkipToKey, D!DrainDone,
                        D!Consume
    <2>4. CASE UNCHANGED receiverVars
      BY <2>2, <2>4 DEF receiverVars
    <2> QED
      BY <2>1, <2>3, <2>4 DEF Next, vars
  <1> QED
    BY <1>1, <1>2 DEF AcksOfWire

(* What Encoder and Decoder guarantee on their own. *)
PartsInv == /\ SP!IInv
            /\ DP!IInv
            /\ DP!AllCountedRight
            /\ DP!NothingDecodableLeft
            /\ AcksOfWire

LEMMA PartsInit == Init => PartsInv
  <1> SUFFICES ASSUME Init PROVE PartsInv
    OBVIOUS
  <1>1. SP!Init /\ DP!Init
    BY SharedSender, SharedReceiver DEF Init
  <1>2. SP!IInv
    BY <1>1, SP!InitInv, VideoCallAssumption, MaxPayloadAssumption
  <1>3. DP!IInv
    BY <1>1, DP!InitInv, MaxPayloadAssumption, WireAssumption
  <1>4. DP!AllCountedRight /\ DP!NothingDecodableLeft
    BY <1>1 DEF DP!Init, DP!AllCountedRight, DP!NothingDecodableLeft,
                DP!Complete
  <1>5. AcksOfWire
    BY <1>1 DEF DP!Init, AcksOfWire
  <1> QED
    BY <1>2, <1>3, <1>4, <1>5 DEF PartsInv

LEMMA PartsStep == PartsInv /\ [Next]_vars => PartsInv'
  <1> SUFFICES ASSUME PartsInv, [Next]_vars PROVE PartsInv'
    OBVIOUS
  <1>1. [SP!Next]_(SP!vars)
    BY StepOfSender DEF PartsInv
  <1>2. wire \subseteq WireDatagram
    BY SharedProtocol DEF PartsInv, SP!IInv, SP!TypeOK
  <1>3. [DP!Next]_(DP!vars)
    BY <1>2, StepOfReceiver
  <1>4. SP!IInv'
    BY <1>1, SP!StepInv, VideoCallAssumption, MaxPayloadAssumption
       DEF PartsInv
  <1>5. DP!IInv'
    BY <1>3, DP!StepInv, MaxPayloadAssumption, WireAssumption DEF PartsInv
  <1>6. DP!AllCountedRight'
    BY <1>3, DP!StepCounts, MaxPayloadAssumption, WireAssumption DEF PartsInv
  <1>7. DP!NothingDecodableLeft'
    BY <1>3, DP!StepDrains, MaxPayloadAssumption, WireAssumption DEF PartsInv
  <1> QED
    BY <1>4, <1>5, <1>6, <1>7, AcksStep DEF PartsInv

-----------------------------------------------------------------------------
(* What the call relies on: every datagram, wherever it is, says of its    *)
(* frame what the sender knows of it, and so does every frame under        *)
(* construction at the receiver.                                           *)

Fresh(d) == d.num_rtx = 0

Genuine(d) ==
  /\ d.frame_id \in 0..(frame_id - 1)
  /\ d.frame_type = encoded[d.frame_id + 1].frame_type
  /\ d.frag_cnt = FragCnt(encoded[d.frame_id + 1].size)
  /\ d.frag_id \in 0..(d.frag_cnt - 1)
  /\ d.payload = PayloadSize(encoded[d.frame_id + 1].size, d.frag_id)

AllGenuine == /\ frame_id = Len(encoded)
              /\ \A i \in DOMAIN send_buf : Genuine(send_buf[i])
              /\ \A s \in DOMAIN unacked : Genuine(unacked[s])
              /\ \A w \in wire : Genuine(w)

(* The plain facts about the types of a call. *)
LEMMA CallTypes ==
  ASSUME PartsInv
  PROVE  /\ frame_id \in Nat
         /\ send_buf \in Seq(Datagram)
         /\ \A i \in DOMAIN send_buf : send_buf[i] \in Datagram
         /\ \A s \in DOMAIN unacked : unacked[s] \in Datagram
         /\ \A s \in DOMAIN unacked : SeqNumOf(unacked[s]) = s
         /\ encoded \in Seq([frame_type : FrameType, size : Nat])
         /\ wire \subseteq WireDatagram
         /\ next_frame \in Nat
         /\ DOMAIN frame_buf \subseteq Nat
         /\ \A id \in DOMAIN frame_buf : frame_buf[id] \in DP!Frame
  BY SharedProtocol
     DEF PartsInv, SP!IInv, SP!TypeOK, SP!UnackedWasSent, DP!IInv

LEMMA EncodedTypes ==
  ASSUME PartsInv, AllGenuine
  PROVE  \A f \in 0..(frame_id - 1) :
           encoded[f + 1] \in [frame_type : FrameType, size : Nat]
  <1> DEFINE Line == [frame_type : FrameType, size : Nat]
  <1>1. /\ encoded \in Seq(Line)
        /\ frame_id = Len(encoded) /\ frame_id \in Nat
    BY CallTypes DEF AllGenuine
  <1> HIDE DEF Line
  <1>2. \A f \in 0..(frame_id - 1) : encoded[f + 1] \in Line
    BY <1>1
  <1> QED
    BY <1>2 DEF Line

(* A new frame is queued behind the first m entries. *)
Compressed(size, forced, m) ==
  LET type == IF forced \/ frame_id = 0 THEN KEY ELSE NONKEY IN
  /\ forced => m = 0 /\ DOMAIN unacked' = {}
  /\ ~forced => m = Len(send_buf) /\ unacked' = unacked
  /\ frame_id' = frame_id + 1
  /\ encoded' = Append(encoded, [frame_type |-> type, size |-> size])
  /\ wire' = wire
  /\ FragCnt(size) \in Nat
  /\ DOMAIN send_buf' = 1..(m + FragCnt(size))
  /\ \A i \in DOMAIN send_buf' :
       \/ /\ i \in 1..m /\ i \in DOMAIN send_buf
          /\ send_buf'[i] = send_buf[i]
       \/ /\ i > m /\ i - m \in 1..FragCnt(size)
          /\ send_buf'[i] = Packetize(frame_id, type, size)[i - m]

LEMMA CompressFacts ==
  ASSUME PartsInv, E!CompressFrame
  PROVE  \E size \in FrameSizes, forced \in BOOLEAN, m \in Nat :
           Compressed(size, forced, m)
  <1>1. SP!IInv /\ SP!CompressFrame
    BY SharedSender DEF PartsInv
  <1>2. PICK size \in FrameSizes, m \in Nat : SP!CompressEffect(size, m)
    BY <1>1, SP!CompressFacts, VideoCallAssumption, MaxPayloadAssumption
  <1>3. SP!GivesUp \in BOOLEAN
    BY DEF SP!GivesUp
  <1>4. SP!EncodedType(SP!GivesUp)
          = IF SP!GivesUp \/ frame_id = 0 THEN KEY ELSE NONKEY
    BY SharedProtocol DEF SP!EncodedType
  <1>5. Compressed(size, SP!GivesUp, m)
    BY <1>2, <1>4, SharedProtocol, Zenon
       DEF SP!CompressEffect, Compressed, SP!EmptyMap
  <1> QED
    BY <1>3, <1>5

(* The head of the send buffer goes out as d. *)
Sent(d) ==
  /\ 1 \in DOMAIN send_buf
  /\ d = [send_buf[1] EXCEPT !.send_ts = now]
  /\ SeqNumOf(d) = SeqNumOf(send_buf[1])
  /\ wire' = wire \cup {OnWire(d)}
  /\ UNCHANGED <<frame_id, encoded>>
  /\ DOMAIN send_buf = 1..Len(send_buf)
  /\ DOMAIN send_buf' = 1..(Len(send_buf) - 1)
  /\ \A i \in DOMAIN send_buf' : /\ i + 1 \in DOMAIN send_buf
                                 /\ send_buf'[i] = send_buf[i + 1]
  /\ Fresh(d) => DOMAIN unacked' = DOMAIN unacked \cup {SeqNumOf(d)}
  /\ ~Fresh(d) => unacked' = unacked
  /\ \A s \in DOMAIN unacked' :
       \/ s \in DOMAIN unacked /\ unacked'[s] = unacked[s]
       \/ unacked'[s] = [d EXCEPT !.last_send_ts = d.send_ts]

LEMMA SendFacts ==
  ASSUME PartsInv, E!SendDatagram
  PROVE  \E d \in Datagram : Sent(d)
  <1>1. SP!IInv /\ SP!SendDatagram
    BY SharedSender DEF PartsInv
  <1>2. PICK d \in SP!Datagram : SP!SendEffect(d)
    BY <1>1, SP!SendFacts, VideoCallAssumption, MaxPayloadAssumption
  <1>3. Sent(d)
    BY <1>2, SharedProtocol, Zenon DEF SP!SendEffect, Sent, SP!Fresh, Fresh
  <1> QED
    BY <1>3, SharedProtocol

LEMMA WouldBlockFacts ==
  ASSUME PartsInv, E!SendWouldBlock
  PROVE  /\ UNCHANGED <<frame_id, unacked, encoded, wire>>
         /\ DOMAIN send_buf' = DOMAIN send_buf
         /\ \A i \in DOMAIN send_buf :
              /\ SeqNumOf(send_buf'[i]) = SeqNumOf(send_buf[i])
              /\ send_buf'[i].num_rtx = send_buf[i].num_rtx
              /\ \/ send_buf'[i] = send_buf[i]
                 \/ send_buf'[i] = [send_buf[i] EXCEPT !.send_ts = 0]
  <1>1. SP!IInv /\ SP!SendWouldBlock
    BY SharedSender DEF PartsInv
  <1> QED
    BY <1>1, SP!WouldBlockFacts, VideoCallAssumption, MaxPayloadAssumption,
       SharedProtocol

(* n retransmissions are put in front of the send buffer, and `acked'      *)
(* leaves unacked_.                                                        *)
Acked(acked, n) ==
  /\ DOMAIN unacked' = DOMAIN unacked \ {acked}
  /\ \A s \in DOMAIN unacked' : \/ unacked'[s] = unacked[s]
                                \/ unacked'[s] = SP!Retransmitted(s)
  /\ Len(send_buf) \in Nat
  /\ DOMAIN send_buf = 1..Len(send_buf)
  /\ DOMAIN send_buf' = 1..(n + Len(send_buf))
  /\ \A i \in 1..n :
       \E s \in DOMAIN unacked : send_buf'[i] = SP!Retransmitted(s)
  /\ \A i \in (n + 1)..(n + Len(send_buf)) :
       i - n \in DOMAIN send_buf /\ send_buf'[i] = send_buf[i - n]

LEMMA AckFacts ==
  ASSUME PartsInv, NEW ack \in acks, E!HandleAck(ack)
  PROVE  /\ UNCHANGED <<frame_id, encoded, wire>>
         /\ \/ UNCHANGED <<unacked, send_buf>>
            \/ \E n \in Nat : Acked(SeqNumOf(ack), n)
  <1>1. SP!IInv /\ SP!HandleAck(ack)
    BY SharedSender DEF PartsInv
  <1>2. PICK w \in wire : ack = AckMsg(w)
    BY DEF PartsInv, AcksOfWire
  <1>3. ack = SP!AckMsg(w) /\ SeqNumOf(ack) = SP!SeqNumOf(w)
    BY <1>2, SharedProtocol DEF AckMsg, SeqNumOf
  <1>4. UNCHANGED <<frame_id, encoded, wire>>
    BY <1>1 DEF SP!HandleAck
  <1>5. ASSUME ~UNCHANGED <<unacked, send_buf>>
        PROVE  \E n \in Nat : Acked(SeqNumOf(ack), n)
    <2>1. PICK R \in SUBSET DOMAIN unacked, n \in Nat :
            \E q \in [1..n -> R] : SP!AckEffect(w, R, n, q)
      BY <1>1, <1>3, <1>5, SP!AckFacts, VideoCallAssumption,
         MaxPayloadAssumption
    <2>2. PICK q \in [1..n -> R] : SP!AckEffect(w, R, n, q)
      BY <2>1
    <2>3. \A i \in 1..n : /\ q[i] \in DOMAIN unacked
                          /\ send_buf'[i] = SP!Retransmitted(q[i])
      BY <2>2 DEF SP!AckEffect
    <2>4. Acked(SP!SeqNumOf(w), n)
      BY <2>2, <2>3 DEF SP!AckEffect, Acked
    <2> QED
      BY <1>3, <2>4
  <1> QED
    BY <1>4, <1>5

(* Genuine is a matter of the fields that travel, and once true stays so.  *)
LEMMA SameFields ==
  ASSUME NEW d, NEW e, Genuine(e),
         d.frame_id = e.frame_id, d.frame_type = e.frame_type,
         d.frag_id = e.frag_id, d.frag_cnt = e.frag_cnt,
         d.payload = e.payload
  PROVE  Genuine(d)
  BY DEF Genuine

LEMMA CopyGenuine ==
  ASSUME PartsInv, NEW s \in DOMAIN unacked, Genuine(unacked[s])
  PROVE  /\ Genuine(SP!Retransmitted(s))
         /\ SP!Retransmitted(s).num_rtx # 0
         /\ SP!Retransmitted(s) \in Datagram
  <1> DEFINE e == [unacked[s] EXCEPT !.num_rtx = unacked[s].num_rtx + 1]
             r == [e EXCEPT !.last_send_ts = now]
  <1>1. unacked[s] \in Datagram /\ now \in Nat
    BY CallTypes DEF PartsInv, SP!IInv, SP!TypeOK
  <1>2. /\ e \in Datagram
        /\ e.num_rtx # 0
        /\ e.frame_id = unacked[s].frame_id
        /\ e.frame_type = unacked[s].frame_type
        /\ e.frag_id = unacked[s].frag_id
        /\ e.frag_cnt = unacked[s].frag_cnt
        /\ e.payload = unacked[s].payload
    BY <1>1 DEF Datagram
  <1> HIDE DEF e
  <1>3. /\ r \in Datagram
        /\ r.num_rtx # 0
        /\ r.frame_id = unacked[s].frame_id
        /\ r.frame_type = unacked[s].frame_type
        /\ r.frag_id = unacked[s].frag_id
        /\ r.frag_cnt = unacked[s].frag_cnt
        /\ r.payload = unacked[s].payload
    BY <1>1, <1>2 DEF Datagram
  <1>4. SP!Retransmitted(s) = r
    BY DEF SP!Retransmitted, e
  <1> HIDE DEF r
  <1>5. Genuine(r)
    BY <1>3, SameFields
  <1> QED
    BY <1>3, <1>4, <1>5

(* The frames encoded so far keep their place. *)
LEMMA EncodedGrows ==
  ASSUME PartsInv, AllGenuine, [Next]_vars
  PROVE  /\ frame_id' \in Nat /\ frame_id' = Len(encoded')
         /\ frame_id <= frame_id'
         /\ \A f \in 0..(frame_id - 1) :
              f \in 0..(frame_id' - 1) /\ encoded'[f + 1] = encoded[f + 1]
  <1>0. /\ frame_id \in Nat
        /\ frame_id = Len(encoded)
        /\ encoded \in Seq([frame_type : FrameType, size : Nat])
    BY CallTypes DEF AllGenuine
  <1>1. CASE UNCHANGED <<frame_id, encoded>>
    BY <1>0, <1>1
  <1>2. CASE E!CompressFrame
    <2>1. PICK e \in [frame_type : FrameType, size : Nat] :
            frame_id' = frame_id + 1 /\ encoded' = Append(encoded, e)
      <3>1. PICK size \in FrameSizes, forced \in BOOLEAN, m \in Nat :
              Compressed(size, forced, m)
        BY <1>2, CompressFacts
      <3> DEFINE type == IF forced \/ frame_id = 0 THEN KEY ELSE NONKEY
      <3>2. [frame_type |-> type, size |-> size]
              \in [frame_type : FrameType, size : Nat]
        BY VideoCallAssumption DEF FrameType
      <3> QED
        BY <3>1, <3>2 DEF Compressed
    <2> QED
      BY <1>0, <2>1
  <1>3. CASE \/ E!SendDatagram \/ E!SendWouldBlock
             \/ E!ClockTick \/ E!ClockStepBack
             \/ \E ack \in acks : E!HandleAck(ack)
             \/ UNCHANGED senderVars
    BY <1>1, <1>3 DEF E!SendDatagram, E!SendWouldBlock, E!ClockTick,
                      E!ClockStepBack, E!HandleAck, senderVars
  <1> QED
    BY <1>2, <1>3 DEF Next, E!SenderStep, vars

(* A frame just cut into datagrams. *)
LEMMA NewGenuine ==
  ASSUME PartsInv, AllGenuine, [Next]_vars,
         NEW size \in FrameSizes, NEW forced \in BOOLEAN, NEW m \in Nat,
         Compressed(size, forced, m),
         NEW i \in DOMAIN send_buf', i > m
  PROVE  /\ Genuine(send_buf[i])'
         /\ Fresh(send_buf'[i])
         /\ SeqNumOf(send_buf'[i]) = <<frame_id, i - m - 1>>
  <1> DEFINE type == IF forced \/ frame_id = 0 THEN KEY ELSE NONKEY
             e == [frame_type |-> type, size |-> size]
             k == i - m
  <1>1. /\ frame_id' = frame_id + 1
        /\ encoded' = Append(encoded, e)
        /\ k \in 1..FragCnt(size)
        /\ send_buf'[i] = Packetize(frame_id, type, size)[k]
        /\ FragCnt(size) \in Nat
    <2>1. i \in Nat /\ ~(i \in 1..m)
      BY DEF Compressed
    <2> QED
      BY <2>1 DEF Compressed
  <1>2. /\ frame_id \in Nat /\ frame_id = Len(encoded)
        /\ encoded \in Seq([frame_type : FrameType, size : Nat])
    BY CallTypes DEF AllGenuine
  <1>3. encoded'[frame_id + 1] = e
    <2> HIDE DEF e
    <2> QED
      BY <1>1, <1>2
  <1> HIDE DEF k
  <1>4. /\ send_buf'[i].frame_id = frame_id
        /\ send_buf'[i].frame_type = type
        /\ send_buf'[i].frag_id = k - 1
        /\ send_buf'[i].frag_cnt = FragCnt(size)
        /\ send_buf'[i].payload = PayloadSize(size, k - 1)
        /\ send_buf'[i].num_rtx = 0
    BY <1>1 DEF Packetize
  <1>5. frame_id \in 0..(frame_id' - 1) /\ k - 1 \in 0..(FragCnt(size) - 1)
    BY <1>1, <1>2
  <1> HIDE DEF type
  <1>6. e.frame_type = type /\ e.size = size
    OBVIOUS
  <1> HIDE DEF e
  <1> QED
    BY <1>3, <1>4, <1>5, <1>6 DEF Genuine, Fresh, SeqNumOf, k

LEMMA GenuineStep ==
  ASSUME PartsInv, AllGenuine, [Next]_vars
  PROVE  AllGenuine'
  <1>1. frame_id' = Len(encoded')
    BY EncodedGrows
  <1>2. CASE E!CompressFrame
    <2>1. PICK size \in FrameSizes, forced \in BOOLEAN, m \in Nat :
            Compressed(size, forced, m)
      BY <1>2, CompressFacts
    <2>2. ASSUME NEW i \in DOMAIN send_buf' PROVE Genuine(send_buf[i])'
      <3>1. CASE i > m
        BY <2>1, <3>1, NewGenuine
      <3>2. CASE ~(i > m)
        <4>1. i \in DOMAIN send_buf /\ send_buf'[i] = send_buf[i]
          BY <2>1, <3>2 DEF Compressed
        <4>2. Genuine(send_buf[i])
          BY <4>1 DEF AllGenuine
        <4> QED
          BY <4>1, <4>2, EncodedGrows DEF Genuine
      <3> QED
        BY <3>1, <3>2
    <2>3. ASSUME NEW s \in DOMAIN unacked' PROVE Genuine(unacked[s])'
      <3>1. s \in DOMAIN unacked /\ unacked'[s] = unacked[s]
        BY <2>1 DEF Compressed
      <3>2. Genuine(unacked[s])
        BY <3>1 DEF AllGenuine
      <3> QED
        BY <3>1, <3>2, EncodedGrows DEF Genuine
    <2>4. ASSUME NEW w \in wire' PROVE Genuine(w)'
      <3>1. Genuine(w)
        BY <2>1 DEF Compressed, AllGenuine
      <3> QED
        BY <3>1, EncodedGrows DEF Genuine
    <2> QED
      BY <1>1, <2>2, <2>3, <2>4 DEF AllGenuine
  <1>3. ASSUME UNCHANGED <<frame_id, encoded>>,
               \A i \in DOMAIN send_buf' : Genuine(send_buf'[i]),
               \A s \in DOMAIN unacked' : Genuine(unacked'[s]),
               \A w \in wire' : Genuine(w)
        PROVE  AllGenuine'
    BY <1>1, <1>3 DEF AllGenuine, Genuine
  <1>4. CASE E!SendDatagram
    <2>1. PICK d \in Datagram : Sent(d)
      BY <1>4, SendFacts
    <2>2. send_buf[1] \in Datagram /\ Genuine(send_buf[1])
      BY <2>1, CallTypes DEF Sent, AllGenuine
    <2>3. Genuine(d)
      <3>1. d = [send_buf[1] EXCEPT !.send_ts = now]
        BY <2>1 DEF Sent
      <3> QED
        BY <2>2, <3>1, SameFields DEF Datagram
    <2>4. Genuine(OnWire(d))
      BY <2>3, SameFields DEF OnWire
    <2>5. Genuine([d EXCEPT !.last_send_ts = d.send_ts])
      BY <2>3, SameFields DEF Datagram
    <2> QED
      BY <1>3, <2>1, <2>4, <2>5 DEF Sent, AllGenuine
  <1>5. CASE E!SendWouldBlock
    <2>1. ASSUME NEW i \in DOMAIN send_buf' PROVE Genuine(send_buf'[i])
      <3>1. i \in DOMAIN send_buf /\ Genuine(send_buf[i])
            /\ send_buf[i] \in Datagram
        BY <1>5, WouldBlockFacts, CallTypes DEF AllGenuine
      <3>2. Genuine([send_buf[i] EXCEPT !.send_ts = 0])
        BY <3>1, SameFields DEF Datagram
      <3> QED
        BY <1>5, <3>1, <3>2, WouldBlockFacts
    <2> QED
      BY <1>3, <1>5, <2>1, WouldBlockFacts DEF AllGenuine
  <1>6. ASSUME NEW ack \in acks, E!HandleAck(ack) PROVE AllGenuine'
    <2>1. UNCHANGED <<frame_id, encoded, wire>>
      BY <1>6, AckFacts
    <2>2. CASE UNCHANGED <<unacked, send_buf>>
      BY <1>3, <2>1, <2>2 DEF AllGenuine
    <2>3. ASSUME NEW n \in Nat, Acked(SeqNumOf(ack), n) PROVE AllGenuine'
      <3>1. \A s \in DOMAIN unacked : Genuine(SP!Retransmitted(s))
        BY CopyGenuine DEF AllGenuine
      <3>2. \A s \in DOMAIN unacked' : Genuine(unacked'[s])
        BY <2>3, <3>1 DEF Acked, AllGenuine
      <3>3. \A i \in DOMAIN send_buf' : Genuine(send_buf'[i])
        <4> TAKE i \in DOMAIN send_buf'
        <4>1. CASE i \in 1..n
          BY <2>3, <3>1, <4>1 DEF Acked
        <4>2. CASE i \in (n + 1)..(n + Len(send_buf))
          BY <2>3, <4>2 DEF Acked, AllGenuine
        <4> QED
          BY <2>3, <4>1, <4>2 DEF Acked
      <3> QED
        BY <1>3, <2>1, <3>2, <3>3 DEF AllGenuine
    <2> QED
      BY <1>6, <2>2, <2>3, AckFacts
  <1>7. CASE UNCHANGED <<frame_id, encoded, send_buf, unacked, wire>>
    BY <1>3, <1>7 DEF AllGenuine
  <1>8. CASE E!ClockTick \/ E!ClockStepBack \/ UNCHANGED senderVars
    BY <1>7, <1>8 DEF E!ClockTick, E!ClockStepBack, senderVars
  <1> QED
    BY <1>2, <1>4, <1>5, <1>6, <1>8 DEF Next, E!SenderStep, vars

-----------------------------------------------------------------------------
(* A frame under construction at the receiver agrees with the frame that   *)
(* was encoded.  Its size so far follows from the number of fragments that *)
(* are missing and from whether the last one, the odd one, is there.       *)

SizeSoFar(b, size) ==
  b.frame_size = IF FragCnt(size) - 1 \in b.frags
                 THEN size - max_payload * b.null_frags
                 ELSE max_payload * (FragCnt(size) - b.null_frags)

Agrees(b, f) == /\ b.frame_type = f.frame_type
                /\ b.frag_cnt = FragCnt(f.size)
                /\ SizeSoFar(b, f.size)

Assembled == \A id \in DOMAIN frame_buf :
               /\ id \in 0..(frame_id - 1)
               /\ Agrees(frame_buf[id], encoded[id + 1])

LEMMA FragCntType ==
  ASSUME NEW size \in Nat
  PROVE  FragCnt(size) \in Nat \ {0}
  <1>1. KEY \in SP!FrameType
    BY SharedProtocol DEF FrameType
  <1>2. SP!FragCnt(size) \in Nat
    BY <1>1, SP!PacketizeFacts, VideoCallAssumption, MaxPayloadAssumption
  <1>3. FragCnt(size) # 0
    <2>1. max_payload + 1 \in Nat \ {0}
      BY MaxPayloadAssumption
    <2>2. size \div (max_payload + 1) >= 0
      BY <2>1
    <2>3. size \div (max_payload + 1) \in Int
      BY <2>1
    <2> QED
      BY <2>2, <2>3 DEF FragCnt
  <1> QED
    BY <1>2, <1>3, SharedProtocol

LEMMA InsertAgrees ==
  ASSUME NEW b \in DP!Frame, NEW w \in WireDatagram,
         NEW f \in [frame_type : FrameType, size : Nat],
         Agrees(b, f),
         w.frag_id \in 0..(FragCnt(f.size) - 1),
         w.payload = PayloadSize(f.size, w.frag_id)
  PROVE  Agrees(DP!InsertFrag(b, w), f)
  <1> DEFINE c == DP!InsertFrag(b, w)
             cnt == FragCnt(f.size)
             sz == f.size
  <1>1. CASE w.frag_id \in b.frags
    BY <1>1 DEF DP!InsertFrag
  <1>2. CASE w.frag_id \notin b.frags
    <2>1. /\ c.frame_type = b.frame_type
          /\ c.frag_cnt = b.frag_cnt
          /\ c.frags = b.frags \cup {w.frag_id}
          /\ c.null_frags = b.null_frags - 1
          /\ c.frame_size = b.frame_size + w.payload
      BY <1>2 DEF DP!InsertFrag
    <2>2. /\ b.null_frags \in Int /\ sz \in Nat /\ cnt \in Nat
          /\ max_payload \in Nat /\ w.frag_id \in Int
      BY FragCntType, MaxPayloadAssumption DEF DP!Frame
    <2>3. /\ b.frame_size = IF cnt - 1 \in b.frags
                            THEN sz - max_payload * b.null_frags
                            ELSE max_payload * (cnt - b.null_frags)
          /\ w.payload = IF w.frag_id < cnt - 1
                         THEN max_payload
                         ELSE sz - (cnt - 1) * max_payload
          /\ w.frag_id \in 0..(cnt - 1)
      BY DEF Agrees, SizeSoFar, PayloadSize
    <2> HIDE DEF c, cnt, sz
    <2>4. /\ max_payload * (b.null_frags - 1)
               = max_payload * b.null_frags - max_payload
          /\ max_payload * (cnt - b.null_frags)
               = max_payload * cnt - max_payload * b.null_frags
          /\ max_payload * (cnt - (b.null_frags - 1))
               = max_payload * cnt - max_payload * b.null_frags + max_payload
          /\ (cnt - 1) * max_payload = max_payload * cnt - max_payload
      BY <2>2
    <2>5. /\ max_payload * b.null_frags \in Int
          /\ max_payload * cnt \in Int
      BY <2>2
    <2>6. c.frame_size = IF cnt - 1 \in c.frags
                         THEN sz - max_payload * c.null_frags
                         ELSE max_payload * (cnt - c.null_frags)
      <3>1. CASE w.frag_id = cnt - 1
        <4>1. cnt - 1 \notin b.frags /\ cnt - 1 \in c.frags
          BY <1>2, <2>1, <3>1
        <4>2. w.payload = sz - (cnt - 1) * max_payload
          BY <2>2, <2>3, <3>1
        <4> QED
          BY <2>1, <2>2, <2>3, <2>4, <2>5, <4>1, <4>2
      <3>2. CASE w.frag_id < cnt - 1
        <4>1. cnt - 1 \in c.frags <=> cnt - 1 \in b.frags
          BY <2>1, <2>2, <3>2
        <4> QED
          BY <2>1, <2>2, <2>3, <2>4, <2>5, <3>2, <4>1
      <3> QED
        BY <2>2, <2>3, <3>1, <3>2
    <2> QED
      BY <2>1, <2>6 DEF Agrees, SizeSoFar, cnt, sz, c
  <1> QED
    BY <1>1, <1>2

LEMMA NewAgrees ==
  ASSUME NEW w \in WireDatagram,
         NEW f \in [frame_type : FrameType, size : Nat],
         w.frame_type = f.frame_type, w.frag_cnt = FragCnt(f.size)
  PROVE  Agrees(DP!NewFrame(w), f) /\ DP!NewFrame(w) \in DP!Frame
  <1>1. FragCnt(f.size) \in Nat /\ max_payload \in Nat
    BY FragCntType, MaxPayloadAssumption
  <1>2. max_payload * (FragCnt(f.size) - FragCnt(f.size)) = 0
    BY <1>1
  <1>3. DP!NewFrame(w) \in DP!Frame
    BY SharedProtocol DEF DP!NewFrame, DP!Frame, WireDatagram
  <1> QED
    BY <1>2, <1>3 DEF Agrees, SizeSoFar, DP!NewFrame

-----------------------------------------------------------------------------
(* The receiver keeps every fragment it acknowledged, until it no longer   *)
(* needs the frame.                                                        *)

AckedKept == \A a \in acks :
               a.frame_id >= next_frame
                 => /\ a.frame_id \in DOMAIN frame_buf
                    /\ a.frag_id \in frame_buf[a.frame_id].frags

ReceiverInv == receiver_up /\ Assembled /\ AckedKept /\ FrameIntact

(* A datagram that is genuine fits its frame. *)
LEMMA Fits ==
  ASSUME PartsInv, AllGenuine, Assembled, NEW w \in wire
  PROVE  LET f == encoded[w.frame_id + 1] IN
         /\ w.frame_id \in 0..(frame_id - 1)
         /\ f \in [frame_type : FrameType, size : Nat]
         /\ DP!FrameOf(w) \in DP!Frame
         /\ Agrees(DP!FrameOf(w), f)
         /\ DP!Compatible(DP!FrameOf(w), w)
         /\ Agrees(DP!InsertFrag(DP!FrameOf(w), w), f)
         /\ DP!InsertFrag(DP!FrameOf(w), w).frags
              = DP!FrameOf(w).frags \cup {w.frag_id}
  <1> DEFINE f == encoded[w.frame_id + 1]
             b == DP!FrameOf(w)
  <1>1. /\ w \in WireDatagram
        /\ w.frame_id \in 0..(frame_id - 1)
        /\ w.frame_type = f.frame_type
        /\ w.frag_cnt = FragCnt(f.size)
        /\ w.frag_id \in 0..(w.frag_cnt - 1)
        /\ w.payload = PayloadSize(f.size, w.frag_id)
    BY CallTypes DEF AllGenuine, Genuine
  <1>2. f \in [frame_type : FrameType, size : Nat]
    BY <1>1, EncodedTypes
  <1> HIDE DEF f
  <1>3. b \in DP!Frame /\ Agrees(b, f)
    <2>1. CASE w.frame_id \in DOMAIN frame_buf
      BY <2>1, CallTypes DEF DP!FrameOf, Assembled, f
    <2>2. CASE w.frame_id \notin DOMAIN frame_buf
      <3>1. b = DP!NewFrame(w)
        BY <2>2 DEF DP!FrameOf
      <3> QED
        BY <1>1, <1>2, <3>1, NewAgrees
    <2> QED
      BY <2>1, <2>2
  <1> HIDE DEF b
  <1>4. DP!Compatible(b, w)
    <2>1. w.frag_id < w.frag_cnt
      BY <1>1, <1>2, FragCntType
    <2> QED
      BY <1>1, <1>3, <2>1 DEF DP!Compatible, Agrees
  <1>5. Agrees(DP!InsertFrag(b, w), f)
    BY <1>1, <1>2, <1>3, InsertAgrees
  <1>6. DP!InsertFrag(b, w).frags = b.frags \cup {w.frag_id}
    BY DEF DP!InsertFrag
  <1> QED
    BY <1>1, <1>2, <1>3, <1>4, <1>5, <1>6 DEF b, f

LEMMA ReceiveStep ==
  ASSUME PartsInv, AllGenuine, ReceiverInv, NEW w \in wire,
         D!ReceiveDatagram(w), UNCHANGED senderVars
  PROVE  ReceiverInv'
  <1>1. DP!ReceiveDatagram(w)
    BY SharedReceiver
  <1>2. /\ UNCHANGED <<frame_id, encoded, next_frame, dispatched>>
        /\ acks' = acks \cup {AckMsg(w)}
    BY <1>1, SharedProtocol DEF DP!ReceiveDatagram, senderVars
  <1>3. /\ next_frame \in Nat
        /\ w \in WireDatagram /\ w.frame_id \in Nat
        /\ DOMAIN frame_buf \subseteq Nat
    BY CallTypes DEF WireDatagram
  <1>4. AckMsg(w).frame_id = w.frame_id /\ AckMsg(w).frag_id = w.frag_id
    BY DEF AckMsg
  <1>5. FrameIntact'
    BY <1>2 DEF ReceiverInv, FrameIntact
  <1>6. CASE w.frame_id < next_frame
    <2>1. UNCHANGED <<frame_buf, receiver_up>>
      <3>1. ~(w.frame_id >= next_frame)
        BY <1>3, <1>6
      <3> QED
        BY <1>1, <3>1, Zenon DEF DP!ReceiveDatagram
    <2>2. AckedKept'
      BY <1>2, <1>3, <1>4, <1>6, <2>1 DEF ReceiverInv, AckedKept
    <2>3. Assembled'
      BY <1>2, <2>1 DEF ReceiverInv, Assembled
    <2> QED
      BY <1>5, <2>1, <2>2, <2>3 DEF ReceiverInv
  <1>7. CASE w.frame_id >= next_frame
    <2> DEFINE new == DP!InsertFrag(DP!FrameOf(w), w)
    <2>1. /\ w.frame_id \in 0..(frame_id - 1)
          /\ DP!Compatible(DP!FrameOf(w), w)
          /\ Agrees(new, encoded[w.frame_id + 1])
          /\ new.frags = DP!FrameOf(w).frags \cup {w.frag_id}
      BY Fits DEF ReceiverInv
    <2>2. receiver_up' /\ frame_buf' = DP!WithEntry(frame_buf, w.frame_id, new)
      <3>1. ~(w.frame_id < next_frame)
        BY <1>3, <1>7
      <3>2. /\ receiver_up' = DP!Compatible(DP!FrameOf(w), w)
            /\ frame_buf' = IF receiver_up'
                            THEN DP!WithEntry(frame_buf, w.frame_id, new)
                            ELSE frame_buf
        BY <1>1, <3>1 DEF DP!ReceiveDatagram
      <3> QED
        BY <2>1, <3>2
    <2> HIDE DEF new
    <2>3. /\ DOMAIN frame_buf' = DOMAIN frame_buf \cup {w.frame_id}
          /\ frame_buf'[w.frame_id] = new
          /\ \A id \in DOMAIN frame_buf :
               id # w.frame_id => frame_buf'[id] = frame_buf[id]
      BY <2>2 DEF DP!WithEntry
    <2>4. Assembled'
      BY <1>2, <2>1, <2>3 DEF ReceiverInv, Assembled
    <2>5. w.frame_id \in DOMAIN frame_buf
            => frame_buf[w.frame_id].frags \subseteq new.frags
      BY <2>1 DEF DP!FrameOf
    <2>6. AckedKept'
      <3> SUFFICES ASSUME NEW a \in acks', a.frame_id >= next_frame
                   PROVE  /\ a.frame_id \in DOMAIN frame_buf'
                          /\ a.frag_id \in frame_buf'[a.frame_id].frags
        BY <1>2 DEF AckedKept
      <3>1. CASE a = AckMsg(w)
        BY <1>4, <2>1, <2>3, <3>1
      <3>2. CASE a \in acks
        <4>1. /\ a.frame_id \in DOMAIN frame_buf
              /\ a.frag_id \in frame_buf[a.frame_id].frags
          BY <3>2 DEF ReceiverInv, AckedKept
        <4> QED
          BY <2>3, <2>5, <4>1
      <3> QED
        BY <1>2, <3>1, <3>2
    <2> QED
      BY <1>5, <2>2, <2>4, <2>6 DEF ReceiverInv
  <1> QED
    BY <1>3, <1>6, <1>7

(* A frame that is dispatched is complete, and so has its full size.       *)
LEMMA ConsumeStep ==
  ASSUME PartsInv, AllGenuine, ReceiverInv, NEW k, DP!Complete(k),
         DP!Consume(k), UNCHANGED senderVars
  PROVE  ReceiverInv'
  <1> DEFINE b == frame_buf[k]
             f == encoded[k + 1]
             out == [frame_id |-> k, frame_type |-> b.frame_type,
                     size |-> b.frame_size]
  <1>1. k \in DOMAIN frame_buf /\ b.null_frags = 0
    BY DEF DP!Complete
  <1>2. /\ k \in Nat /\ b \in DP!Frame /\ DP!CountedRight(b)
        /\ \A id \in DOMAIN frame_buf : id \in Nat
        /\ next_frame \in Nat /\ k >= next_frame
        /\ frame_id \in Nat
    BY <1>1, CallTypes DEF PartsInv, DP!AllCountedRight, DP!IInv,
                           DP!NoStaleFrames
  <1>3. k \in 0..(frame_id - 1) /\ Agrees(b, f)
    BY <1>1 DEF ReceiverInv, Assembled
  <1>4. f \in [frame_type : FrameType, size : Nat]
    BY <1>3, EncodedTypes
  <1>5. b.frags = 0..(b.frag_cnt - 1)
    BY <1>1, <1>2, DP!NoneMissing, MaxPayloadAssumption, WireAssumption
  <1>6. f = [frame_type |-> b.frame_type, size |-> b.frame_size]
    <2> HIDE DEF b, f
    <2>1. FragCnt(f.size) \in Nat \ {0}
      BY <1>4, FragCntType
    <2>2. FragCnt(f.size) - 1 \in b.frags
      BY <1>3, <1>5, <2>1 DEF Agrees
    <2>3. b.frame_size = f.size - max_payload * 0
      BY <1>1, <1>3, <2>2 DEF Agrees, SizeSoFar, b
    <2>4. b.frame_size = f.size
      BY <1>4, <2>3, MaxPayloadAssumption
    <2> QED
      BY <1>3, <1>4, <2>4 DEF Agrees
  <1>7. /\ UNCHANGED <<frame_id, encoded, acks, receiver_up>>
        /\ next_frame' = k + 1
        /\ dispatched' = Append(dispatched, out)
        /\ DOMAIN frame_buf' = {id \in DOMAIN frame_buf : id >= k + 1}
        /\ \A id \in DOMAIN frame_buf' : frame_buf'[id] = frame_buf[id]
    BY DEF DP!Consume, DP!CleanUpTo, senderVars
  <1>8. Assembled'
    BY <1>7 DEF ReceiverInv, Assembled
  <1>9. AckedKept'
    <2> SUFFICES ASSUME NEW a \in acks, a.frame_id >= k + 1
                 PROVE  /\ a.frame_id \in DOMAIN frame_buf'
                        /\ a.frag_id \in frame_buf'[a.frame_id].frags
      BY <1>7 DEF AckedKept
    <2>1. a.frame_id \in Nat
      BY CallTypes DEF PartsInv, AcksOfWire, AckMsg, WireDatagram
    <2>2. a.frame_id >= next_frame
      BY <1>2, <2>1
    <2>3. /\ a.frame_id \in DOMAIN frame_buf
          /\ a.frag_id \in frame_buf[a.frame_id].frags
      BY <2>2 DEF ReceiverInv, AckedKept
    <2> QED
      BY <1>7, <2>3
  <1>10. FrameIntact'
    <2>1. dispatched \in Seq(DP!DispatchedFrame) /\ out \in DP!DispatchedFrame
      BY <1>2 DEF PartsInv, DP!IInv, DP!DispatchedFrame, DP!Frame
    <2> SUFFICES ASSUME NEW i \in DOMAIN dispatched'
                 PROVE  LET g == dispatched'[i] IN
                        /\ g.frame_id < frame_id
                        /\ encoded[g.frame_id + 1]
                             = [frame_type |-> g.frame_type, size |-> g.size]
      BY <1>7 DEF FrameIntact
    <2>2. \/ i \in DOMAIN dispatched /\ dispatched'[i] = dispatched[i]
          \/ dispatched'[i] = out
      <3> HIDE DEF out
      <3> QED
        BY <1>7, <2>1
    <2>3. CASE i \in DOMAIN dispatched /\ dispatched'[i] = dispatched[i]
      BY <2>3 DEF ReceiverInv, FrameIntact
    <2>4. CASE dispatched'[i] = out
      <3>1. out.frame_id = k /\ out.frame_type = b.frame_type
            /\ out.size = b.frame_size
        OBVIOUS
      <3> HIDE DEF out, b
      <3> QED
        BY <1>2, <1>3, <1>6, <2>4, <3>1 DEF f
    <2> QED
      BY <2>2, <2>3, <2>4
  <1> QED
    BY <1>7, <1>8, <1>9, <1>10 DEF ReceiverInv

LEMMA ReceiverStep ==
  ASSUME PartsInv, AllGenuine, ReceiverInv, [Next]_vars
  PROVE  ReceiverInv'
  <1>1. CASE \E w \in wire : D!ReceiveDatagram(w) /\ UNCHANGED senderVars
    BY <1>1, ReceiveStep
  <1>2. CASE D!Drain /\ UNCHANGED senderVars
    <2>1. DP!Drain
      BY <1>2, SharedReceiver
    <2>2. CASE DP!ConsumeNext
      BY <1>2, <2>2, ConsumeStep DEF DP!ConsumeNext
    <2>3. CASE DP!SkipToKey
      BY <1>2, <2>3, ConsumeStep
         DEF DP!SkipToKey, DP!LatestCompleteKey, DP!CompleteKey
    <2>4. CASE DP!DrainDone
      BY <1>2, <2>4 DEF DP!DrainDone, senderVars, ReceiverInv, Assembled,
                        AckedKept, FrameIntact
    <2> QED
      BY <2>1, <2>2, <2>3, <2>4 DEF DP!Drain
  <1>3. CASE UNCHANGED receiverVars
    <2>1. UNCHANGED <<next_frame, frame_buf, dispatched, receiver_up, acks>>
      BY <1>3 DEF receiverVars
    <2>2. Assembled'
      BY <2>1, EncodedGrows DEF ReceiverInv, Assembled
    <2>3. FrameIntact'
      <3> SUFFICES ASSUME NEW i \in DOMAIN dispatched
                   PROVE  LET g == dispatched[i] IN
                          /\ g.frame_id < frame_id'
                          /\ encoded'[g.frame_id + 1]
                               = [frame_type |-> g.frame_type, size |-> g.size]
        BY <2>1 DEF FrameIntact
      <3>1. dispatched[i] \in DP!DispatchedFrame
        BY DEF PartsInv, DP!IInv
      <3>2. dispatched[i].frame_id \in Nat /\ frame_id \in Nat
        BY <3>1, CallTypes DEF DP!DispatchedFrame
      <3>3. /\ dispatched[i].frame_id < frame_id
            /\ encoded[dispatched[i].frame_id + 1]
                 = [frame_type |-> dispatched[i].frame_type,
                    size |-> dispatched[i].size]
        BY DEF ReceiverInv, FrameIntact
      <3>4. dispatched[i].frame_id \in 0..(frame_id - 1)
        BY <3>2, <3>3
      <3> QED
        BY <3>2, <3>3, <3>4, EncodedGrows
    <2> QED
      BY <2>1, <2>2, <2>3 DEF ReceiverInv, AckedKept
  <1> QED
    BY <1>1, <1>2, <1>3 DEF Next, vars

-----------------------------------------------------------------------------
(* From some key frame on, no fragment is forgotten: each of them is still *)
(* to be sent for the first time, waits for its ACK, or was acknowledged.  *)
(* The first frame and every forced one are such key frames.               *)

InHand(s) ==
  \/ \E i \in DOMAIN send_buf :
       Fresh(send_buf[i]) /\ SeqNumOf(send_buf[i]) = s
  \/ s \in DOMAIN unacked
  \/ \E a \in acks : SeqNumOf(a) = s

HeldFrom(k) ==
  /\ encoded[k + 1].frame_type = KEY
  /\ \A f \in k..(frame_id - 1) :
       \A i \in 0..(FragCnt(encoded[f + 1].size) - 1) : InHand(<<f, i>>)

NothingForgotten == frame_id > 0 => \E k \in 0..(frame_id - 1) : HeldFrom(k)

LEMMA AcksGrow ==
  ASSUME [Next]_vars
  PROVE  acks \subseteq acks'
  BY DEF Next, vars, receiverVars, D!ReceiveDatagram, D!Drain, D!ConsumeNext,
         D!SkipToKey, D!Consume, D!DrainDone

LEMMA StaysInHand ==
  ASSUME PartsInv, AllGenuine, [Next]_vars, ~E!CompressFrame,
         NEW s, InHand(s)
  PROVE  InHand(s)'
  <1>1. CASE \E a \in acks : SeqNumOf(a) = s
    BY <1>1, AcksGrow DEF InHand
  <1>2. CASE E!SendDatagram
    <2>1. PICK d \in Datagram : Sent(d)
      BY <1>2, SendFacts
    <2>2. ASSUME NEW i \in DOMAIN send_buf, Fresh(send_buf[i]),
                 SeqNumOf(send_buf[i]) = s
          PROVE  InHand(s)'
      <3>1. CASE i = 1
        <4>1. send_buf[1] \in Datagram
          BY <2>1, CallTypes DEF Sent
        <4>2. Fresh(d) /\ SeqNumOf(d) = s
          BY <2>1, <2>2, <3>1, <4>1 DEF Sent, Fresh, Datagram
        <4> QED
          BY <2>1, <4>2 DEF Sent, InHand
      <3>2. CASE i # 1
        <4>1. /\ DOMAIN send_buf = 1..Len(send_buf) /\ Len(send_buf) \in Nat
              /\ DOMAIN send_buf' = 1..(Len(send_buf) - 1)
          BY <2>1, CallTypes DEF Sent
        <4>2. i - 1 \in DOMAIN send_buf' /\ (i - 1) + 1 = i
          BY <3>2, <4>1
        <4>3. send_buf'[i - 1] = send_buf[i]
          BY <2>1, <4>2 DEF Sent
        <4> QED
          BY <2>2, <4>2, <4>3 DEF InHand
      <3> QED
        BY <3>1, <3>2
    <2>3. s \in DOMAIN unacked => s \in DOMAIN unacked'
      BY <2>1 DEF Sent
    <2> QED
      BY <1>1, <2>2, <2>3 DEF InHand
  <1>3. CASE E!SendWouldBlock
    BY <1>1, <1>3, WouldBlockFacts DEF InHand, Fresh
  <1>4. ASSUME NEW ack \in acks, E!HandleAck(ack) PROVE InHand(s)'
    <2>1. CASE UNCHANGED <<unacked, send_buf>>
      BY <1>1, <2>1 DEF InHand
    <2>2. ASSUME NEW n \in Nat, Acked(SeqNumOf(ack), n) PROVE InHand(s)'
      <3>1. ASSUME NEW i \in DOMAIN send_buf, Fresh(send_buf[i]),
                   SeqNumOf(send_buf[i]) = s
            PROVE  InHand(s)'
        <4>1. /\ i + n \in (n + 1)..(n + Len(send_buf))
              /\ (i + n) - n = i
              /\ i + n \in DOMAIN send_buf'
          BY <2>2 DEF Acked
        <4>2. send_buf'[i + n] = send_buf[i]
          BY <2>2, <4>1 DEF Acked
        <4> QED
          BY <3>1, <4>1, <4>2 DEF InHand
      <3>2. CASE s \in DOMAIN unacked
        BY <1>1, <2>2, <3>2 DEF Acked, InHand
      <3> QED
        BY <1>1, <3>1, <3>2 DEF InHand
    <2> QED
      BY <1>4, <2>1, <2>2, AckFacts
  <1>5. CASE UNCHANGED <<send_buf, unacked>>
    BY <1>1, <1>5 DEF InHand
  <1>6. CASE E!ClockTick \/ E!ClockStepBack \/ UNCHANGED senderVars
    BY <1>5, <1>6 DEF E!ClockTick, E!ClockStepBack, senderVars
  <1> QED
    BY <1>2, <1>3, <1>4, <1>6 DEF Next, E!SenderStep, vars

(* A new frame: all of its fragments are in hand, and unless the sender    *)
(* gave up, so is what was in hand before.                                 *)
LEMMA CompressInHand ==
  ASSUME PartsInv, AllGenuine, [Next]_vars,
         NEW size \in FrameSizes, NEW forced \in BOOLEAN, NEW m \in Nat,
         Compressed(size, forced, m), NEW new, new = frame_id
  PROVE  /\ \A i \in 0..(FragCnt(size) - 1) : InHand(<<new, i>>)'
         /\ ~forced => \A s : InHand(s) => InHand(s)'
  <1>1. ASSUME NEW i \in 0..(FragCnt(size) - 1)
        PROVE  InHand(<<new, i>>)'
    <2>1. FragCnt(size) \in Nat /\ DOMAIN send_buf' = 1..(m + FragCnt(size))
      BY DEF Compressed
    <2>2. m + i + 1 \in DOMAIN send_buf' /\ m + i + 1 > m
      BY <2>1
    <2>3. /\ Fresh(send_buf'[m + i + 1])
          /\ SeqNumOf(send_buf'[m + i + 1]) = <<new, (m + i + 1) - m - 1>>
      BY <2>2, NewGenuine
    <2>4. (m + i + 1) - m - 1 = i
      BY <2>1
    <2>5. \E j \in DOMAIN send_buf' : /\ Fresh(send_buf'[j])
                                      /\ SeqNumOf(send_buf'[j]) = <<new, i>>
      BY <2>2, <2>3, <2>4
    <2> QED
      BY <2>5 DEF InHand, Fresh, SeqNumOf
  <1>2. ASSUME ~forced, NEW s, InHand(s) PROVE InHand(s)'
    <2>1. m = Len(send_buf) /\ unacked' = unacked
      BY <1>2 DEF Compressed
    <2>2. ASSUME NEW j \in DOMAIN send_buf
          PROVE  j \in DOMAIN send_buf' /\ send_buf'[j] = send_buf[j]
      <3>1. send_buf \in Seq(Datagram)
        BY CallTypes
      <3>2. j \in 1..m
        BY <2>1, <3>1
      <3>3. j \in DOMAIN send_buf' /\ ~(j > m)
        BY <3>2 DEF Compressed
      <3> QED
        BY <3>3 DEF Compressed
    <2> QED
      BY <1>2, <2>1, <2>2, AcksGrow DEF InHand
  <1> QED
    BY <1>1, <1>2

LEMMA ForgetsNothing ==
  ASSUME PartsInv, AllGenuine, NothingForgotten, [Next]_vars
  PROVE  NothingForgotten'
  <1>1. frame_id \in Nat
    BY CallTypes
  <1>2. CASE E!CompressFrame
    <2>1. PICK size \in FrameSizes, forced \in BOOLEAN, m \in Nat :
            Compressed(size, forced, m)
      BY <1>2, CompressFacts
    <2> DEFINE type == IF forced \/ frame_id = 0 THEN KEY ELSE NONKEY
               e == [frame_type |-> type, size |-> size]
    <2>2. /\ frame_id' = frame_id + 1
          /\ encoded' = Append(encoded, e)
      BY <2>1 DEF Compressed
    <2>3. encoded'[frame_id + 1] = e
      <3>1. /\ frame_id = Len(encoded)
            /\ encoded \in Seq([frame_type : FrameType, size : Nat])
        BY CallTypes DEF AllGenuine
      <3> HIDE DEF e
      <3> QED
        BY <1>1, <2>2, <3>1
    <2>4. ASSUME NEW f, f = frame_id,
                 NEW i \in 0..(FragCnt(encoded'[f + 1].size) - 1)
          PROVE  InHand(<<f, i>>)'
      <3>1. encoded'[f + 1].size = size
        BY <2>3, <2>4
      <3> QED
        BY <2>1, <2>4, <3>1, CompressInHand
    <2>5. CASE forced \/ frame_id = 0
      <3>1. PICK k \in Nat : k = frame_id
        BY <1>1
      <3>2. encoded'[k + 1].frame_type = KEY
        BY <2>3, <2>5, <3>1
      <3>3. k \in 0..(frame_id' - 1) /\ \A f \in k..(frame_id' - 1) : f = k
        BY <2>2, <3>1
      <3>4. HeldFrom(k)'
        BY <2>4, <3>1, <3>2, <3>3 DEF HeldFrom
      <3> QED
        BY <3>3, <3>4 DEF NothingForgotten
    <2>6. CASE ~forced /\ frame_id # 0
      <3>1. PICK k \in 0..(frame_id - 1) : HeldFrom(k)
        BY <1>1, <2>6 DEF NothingForgotten
      <3>2. /\ k \in 0..(frame_id' - 1)
            /\ encoded'[k + 1].frame_type = KEY
        BY <1>1, <3>1, EncodedGrows DEF HeldFrom
      <3>3. ASSUME NEW f \in k..(frame_id' - 1),
                   NEW i \in 0..(FragCnt(encoded'[f + 1].size) - 1)
            PROVE  InHand(<<f, i>>)'
        <4>1. CASE f = frame_id
          BY <2>4, <4>1
        <4>2. CASE f # frame_id
          <5>1. f \in k..(frame_id - 1) /\ f \in 0..(frame_id - 1)
            BY <1>1, <2>2, <4>2
          <5>2. encoded'[f + 1] = encoded[f + 1]
            BY <5>1, EncodedGrows
          <5>3. InHand(<<f, i>>)
            BY <3>1, <5>1, <5>2 DEF HeldFrom
          <5> QED
            BY <2>1, <2>6, <5>3, CompressInHand
        <4> QED
          BY <4>1, <4>2
      <3> QED
        BY <3>2, <3>3 DEF NothingForgotten, HeldFrom
    <2> QED
      BY <2>5, <2>6
  <1>3. CASE ~E!CompressFrame
    <2>1. UNCHANGED <<frame_id, encoded>>
      BY <1>3 DEF Next, E!SenderStep, vars, E!SendDatagram, E!SendWouldBlock,
                  E!ClockTick, E!ClockStepBack, E!HandleAck, senderVars
    <2>2. \A s : InHand(s) => InHand(s)'
      BY <1>3, StaysInHand
    <2> QED
      BY <2>1, <2>2 DEF NothingForgotten, HeldFrom
  <1> QED
    BY <1>2, <1>3

-----------------------------------------------------------------------------
(* The inductive invariant of a call. *)
CallInv == PartsInv /\ AllGenuine /\ ReceiverInv /\ NothingForgotten

LEMMA CallInit == Init => CallInv
  <1> SUFFICES ASSUME Init PROVE CallInv
    OBVIOUS
  <1>1. PartsInv
    BY PartsInit
  <1>2. AllGenuine /\ NothingForgotten
    BY DEF Init, E!Init, E!EmptyMap, AllGenuine, NothingForgotten
  <1>3. ReceiverInv
    BY DEF Init, D!Init, ReceiverInv, Assembled, AckedKept, FrameIntact
  <1> QED
    BY <1>1, <1>2, <1>3 DEF CallInv

LEMMA CallStep == CallInv /\ [Next]_vars => CallInv'
  BY PartsStep, GenuineStep, ReceiverStep, ForgetsNothing DEF CallInv

(* Neither process ends with an exception: every datagram fits the frame   *)
(* the receiver has for it, and no datagram enters unacked_ twice.         *)
THEOREM NobodyThrows == Spec => []NeitherThrows
  <1>1. CallInv => NeitherThrows
    BY DEF CallInv, PartsInv, ReceiverInv, SP!IInv, SP!NeverThrows,
           NeitherThrows
  <1> QED
    BY <1>1, CallInit, CallStep, PTL DEF Spec

(* Frames are dispatched with the type and the size they were encoded with,*)
(* whatever the network does to their datagrams.                           *)
THEOREM FramesArriveIntact == Spec => []FrameIntact
  <1>1. CallInv => FrameIntact
    BY DEF CallInv, ReceiverInv
  <1> QED
    BY <1>1, CallInit, CallStep, PTL DEF Spec

(* A frame of which every fragment was acknowledged can be dispatched.     *)
LEMMA AcknowledgedIsComplete ==
  ASSUME CallInv, NEW f \in 0..(frame_id - 1), f >= next_frame,
         \A i \in 0..(FragCnt(encoded[f + 1].size) - 1) :
           \E a \in acks : SeqNumOf(a) = <<f, i>>
  PROVE  DP!Complete(f) /\ frame_buf[f].frame_type = encoded[f + 1].frame_type
  <1> DEFINE cnt == FragCnt(encoded[f + 1].size)
             b == frame_buf[f]
  <1>1. cnt \in Nat \ {0}
    <2>1. encoded[f + 1].size \in Nat
      BY EncodedTypes DEF CallInv
    <2> QED
      BY <2>1, FragCntType
  <1>2. \A i \in 0..(cnt - 1) : f \in DOMAIN frame_buf /\ i \in b.frags
    <2> HIDE DEF cnt
    <2> TAKE i \in 0..(cnt - 1)
    <2>1. PICK a \in acks : SeqNumOf(a) = <<f, i>>
      BY DEF cnt
    <2>2. a.frame_id = f /\ a.frag_id = i
      BY <2>1 DEF SeqNumOf
    <2> QED
      BY <2>2 DEF CallInv, ReceiverInv, AckedKept
  <1> HIDE DEF cnt
  <1>3. f \in DOMAIN frame_buf
    BY <1>1, <1>2
  <1>4. b.frag_cnt = cnt /\ b.frame_type = encoded[f + 1].frame_type
    BY <1>3 DEF CallInv, ReceiverInv, Assembled, Agrees, cnt
  <1>5. b \in DP!Frame /\ DP!CountedRight(b)
    BY <1>3, CallTypes DEF CallInv, PartsInv, DP!AllCountedRight
  <1>6. \A i \in 0..(b.frag_cnt - 1) : i \in b.frags
    BY <1>2, <1>4
  <1> HIDE DEF b
  <1>7. b.null_frags = 0
    BY <1>5, <1>6, DP!AllThere, MaxPayloadAssumption, WireAssumption
  <1> QED
    BY <1>3, <1>4, <1>7 DEF DP!Complete, b

(* The receiver never waits for something the sender has forgotten.        *)
THEOREM SenderHoldsWhatIsNeeded == Spec => []NoSilentStall
  <1>1. CallInv => NoSilentStall
    <2> SUFFICES ASSUME CallInv, main_pc = "recv", next_frame < frame_id,
                        \A i \in DOMAIN send_buf :
                          ~(send_buf[i].frame_id >= next_frame),
                        \A s \in DOMAIN unacked : ~(s[1] >= next_frame)
                 PROVE  FALSE
      BY DEF NoSilentStall
    <2>1. frame_id \in Nat /\ next_frame \in Nat
      BY CallTypes DEF CallInv
    <2>2. PICK k \in 0..(frame_id - 1) : HeldFrom(k)
      BY <2>1 DEF CallInv, NothingForgotten
    <2>3. ASSUME NEW f \in k..(frame_id - 1), f >= next_frame
          PROVE  /\ DP!Complete(f)
                 /\ frame_buf[f].frame_type = encoded[f + 1].frame_type
      <3>1. ASSUME NEW i \in 0..(FragCnt(encoded[f + 1].size) - 1)
            PROVE  \E a \in acks : SeqNumOf(a) = <<f, i>>
        <4>1. InHand(<<f, i>>)
          BY <2>2 DEF HeldFrom
        <4>2. <<f, i>>[1] = f
          OBVIOUS
        <4>3. <<f, i>> \notin DOMAIN unacked
          BY <2>3, <4>2
        <4>4. ~\E j \in DOMAIN send_buf : SeqNumOf(send_buf[j]) = <<f, i>>
          BY <2>3 DEF SeqNumOf
        <4> QED
          BY <4>1, <4>3, <4>4 DEF InHand
      <3>2. f \in 0..(frame_id - 1)
        BY <2>1
      <3> QED
        BY <2>3, <3>1, <3>2, AcknowledgedIsComplete
    <2>4. /\ ~DP!Complete(next_frame)
          /\ ~\E j \in DOMAIN frame_buf : DP!CompleteKey(j)
      BY DEF CallInv, PartsInv, DP!NothingDecodableLeft
    <2>5. CASE k >= next_frame
      <3>1. k \in k..(frame_id - 1)
        BY <2>1
      <3>2. DP!CompleteKey(k)
        BY <2>2, <2>3, <2>5, <3>1, SharedProtocol
           DEF DP!CompleteKey, HeldFrom
      <3> QED
        BY <2>4, <3>2 DEF DP!CompleteKey, DP!Complete
    <2>6. CASE k < next_frame
      <3>1. next_frame \in k..(frame_id - 1) /\ next_frame >= next_frame
        BY <2>1, <2>6
      <3> QED
        BY <2>3, <2>4, <3>1
    <2> QED
      BY <2>1, <2>5, <2>6
  <1> QED
    BY <1>1, CallInit, CallStep, PTL DEF Spec

-----------------------------------------------------------------------------
(* In a call, the sender is one that is acknowledged only what it has sent,*)
(* which is the sender of module Encoder.                                  *)
THEOREM CallRunsEncoder == Spec => SP!Spec
  <1>1. Init => SP!Init
    BY SharedSender DEF Init
  <1>2. PartsInv /\ [Next]_vars => [SP!Next]_(SP!vars)
    BY StepOfSender DEF PartsInv
  <1> QED
    BY <1>1, <1>2, PartsInit, PartsStep, PTL DEF Spec, SP!Spec

(* In a call, the receiver is that of module Decoder, for which any        *)
(* datagram may arrive at any time.                                        *)
THEOREM CallRunsDecoder == Spec => DP!Spec
  <1>1. Init => DP!Init
    BY SharedReceiver DEF Init
  <1>2. PartsInv /\ [Next]_vars => [DP!Next]_(DP!vars)
    BY StepOfReceiver, CallTypes
  <1> QED
    BY <1>1, <1>2, PartsInit, PartsStep, PTL DEF Spec, DP!Spec

(* While the clock does not step back, the first unacked datagram of a     *)
(* call is the oldest.                                                     *)
THEOREM FirstIsOldestInCall ==
  ASSUME ~ClockMayStepBack
  PROVE  Spec => []FirstUnackedIsOldest
  <1>1. SP!Spec => []SP!FirstUnackedIsOldest
    BY SP!FirstIsOldest, VideoCallAssumption, MaxPayloadAssumption
  <1>2. SP!FirstUnackedIsOldest => FirstUnackedIsOldest
    BY DEF FirstUnackedIsOldest, E!FirstUnackedIsOldest,
           SP!FirstUnackedIsOldest, E!SeqLess, SP!SeqLess
  <1> QED
    BY <1>1, <1>2, CallRunsEncoder, PTL

(* While the clock does not step back, the sender of a call gives up only  *)
(* after a datagram has been unacknowledged for longer than the timeout.   *)
THEOREM GiveUpJustifiedInCall ==
  ASSUME ~ClockMayStepBack
  PROVE  Spec => GiveUpOnlyAfterTimeout
  <1>1. SP!Spec => SP!GiveUpOnlyAfterTimeout
    BY SP!GiveUpJustified, VideoCallAssumption, MaxPayloadAssumption
  <1> DEFINE Forced(key) == /\ frame_id > 0 /\ Len(encoded') > Len(encoded)
                            /\ encoded'[Len(encoded')].frame_type = key
             Waited == \E s \in DOMAIN unacked :
                         now - unacked[s].send_ts > MAX_UNACKED_US
  <1>2. [Forced(SP!KEY) => Waited]_(SP!vars)
          => [Forced(E!KEY) => Waited]_(E!vars)
    BY DEF SP!KEY, E!KEY, SP!vars, E!vars, SP!encoderVars, E!encoderVars
  <1> QED
    BY <1>1, <1>2, CallRunsEncoder, PTL
       DEF GiveUpOnlyAfterTimeout, E!GiveUpOnlyAfterTimeout,
           SP!GiveUpOnlyAfterTimeout

(* What the receiver of a call hands to the decoder is a decodable stream. *)
THEOREM CallDeliversStream == Spec => DP!StreamSpec
  <1>1. DP!Spec => DP!StreamSpec
    BY DP!ImplementsVideoStream, MaxPayloadAssumption, WireAssumption
  <1> QED
    BY <1>1, CallRunsDecoder, PTL
=============================================================================
