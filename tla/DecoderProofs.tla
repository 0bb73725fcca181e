---------------------------- MODULE DecoderProofs ----------------------------
(***************************************************************************)
(* The receiver's main thread implements VideoStream, whatever arrives,    *)
(* counts fragments right, however often they are repeated, and loses no   *)
(* frame that it has acknowledged.                                         *)
(***************************************************************************)
EXTENDS Decoder, FiniteSetTheorems, TLAPS

(* The inductive invariant: next_frame_ is the frame after the last one    *)
(* dispatched, and the buffer holds nothing before it.                     *)
IInv == /\ next_frame \in Nat
        /\ DOMAIN frame_buf \subseteq Nat
        /\ \A id \in DOMAIN frame_buf : frame_buf[id] \in Frame
        /\ main_pc \in {"recv", "drain"}
        /\ dispatched \in Seq(DispatchedFrame)
        /\ receiver_up \in BOOLEAN
        /\ acks \subseteq {AckMsg(w) : w \in Incoming}
        /\ NoStaleFrames
        /\ next_frame = Stream!Expected

-----------------------------------------------------------------------------
(* What the steps of the receiver do to the frame buffer. *)

LEMMA InsertType ==
  ASSUME NEW f \in Frame, NEW w \in WireDatagram
  PROVE  InsertFrag(f, w) \in Frame
  BY DEF InsertFrag, Frame, WireDatagram

LEMMA FrameOfType ==
  ASSUME IInv, NEW w \in WireDatagram
  PROVE  FrameOf(w) \in Frame
  BY DEF IInv, FrameOf, NewFrame, Frame, WireDatagram

(* Consuming frame k of the buffer when nothing in it is older than        *)
(* next_frame_: the new next_frame_ is right and the buffer clean.         *)
LEMMA ConsumeInv ==
  ASSUME IInv, NEW k \in DOMAIN frame_buf, Consume(k)
  PROVE  IInv'
  <1> DEFINE f == [frame_id |-> k, frame_type |-> frame_buf[k].frame_type,
                   size |-> frame_buf[k].frame_size]
  <1>1. k \in Nat /\ f \in DispatchedFrame
    BY DEF IInv, Frame, DispatchedFrame
  <1>2. dispatched' = Append(dispatched, f)
    BY DEF Consume
  <1>3. /\ dispatched' \in Seq(DispatchedFrame)
        /\ dispatched' # <<>>
        /\ dispatched'[Len(dispatched')] = f
    BY <1>1, <1>2 DEF IInv
  <1>4. Stream!Expected' = k + 1
    BY <1>3 DEF Stream!Expected
  <1>5. /\ DOMAIN frame_buf' \subseteq DOMAIN frame_buf
        /\ \A id \in DOMAIN frame_buf' :
             id >= k + 1 /\ frame_buf'[id] = frame_buf[id]
    BY DEF Consume, CleanUpTo
  <1> QED
    BY <1>1, <1>3, <1>4, <1>5 DEF IInv, Consume, NoStaleFrames

LEMMA InitInv == Init => IInv
  BY DEF Init, IInv, NoStaleFrames, Stream!Expected

LEMMA StepInv == IInv /\ [Next]_vars => IInv'
  <1> SUFFICES ASSUME IInv, [Next]_vars PROVE IInv'
    OBVIOUS
  <1>1. ASSUME NEW w \in Incoming, ReceiveDatagram(w) PROVE IInv'
    <2>1. w \in WireDatagram
      BY IncomingAssumption
    <2>2. acks' \subseteq {AckMsg(v) : v \in Incoming}
      BY <1>1 DEF IInv, ReceiveDatagram
    <2>3. Stream!Expected' = Stream!Expected
      BY <1>1 DEF ReceiveDatagram, Stream!Expected
    <2>4. CASE w.frame_id < next_frame
      <3>1. ~(w.frame_id >= next_frame)
        BY <2>1, <2>4 DEF IInv, WireDatagram
      <3>2. UNCHANGED <<frame_buf, receiver_up>>
        BY <1>1, <3>1, Zenon DEF ReceiveDatagram
      <3> QED
        BY <1>1, <2>2, <2>3, <3>2 DEF IInv, ReceiveDatagram, NoStaleFrames
    <2>5. CASE w.frame_id >= next_frame
      <3>1. InsertFrag(FrameOf(w), w) \in Frame
        BY <2>1, FrameOfType, InsertType
      <3>2. w.frame_id \in Nat /\ next_frame \in Nat
        BY <2>1 DEF WireDatagram, IInv
      <3>3. ~(w.frame_id < next_frame)
        BY <2>5, <3>2
      <3>4. receiver_up' = Compatible(FrameOf(w), w)
        BY <1>1, <3>3 DEF ReceiveDatagram
      <3>5. receiver_up' \in BOOLEAN
        BY <3>4 DEF Compatible
      <3>6. \/ frame_buf' = frame_buf
            \/ frame_buf' = WithEntry(frame_buf, w.frame_id,
                                      InsertFrag(FrameOf(w), w))
        BY <1>1, <3>3 DEF ReceiveDatagram
      <3>7. /\ DOMAIN frame_buf' \subseteq DOMAIN frame_buf \cup {w.frame_id}
            /\ \A id \in DOMAIN frame_buf' :
                 \/ id \in DOMAIN frame_buf /\ frame_buf'[id] = frame_buf[id]
                 \/ id = w.frame_id
                      /\ frame_buf'[id] = InsertFrag(FrameOf(w), w)
        BY <3>6 DEF WithEntry
      <3> QED
        BY <1>1, <2>2, <2>3, <2>5, <3>1, <3>2, <3>5, <3>7
           DEF IInv, ReceiveDatagram, NoStaleFrames
    <2> QED
      BY <2>1, <2>4, <2>5 DEF WireDatagram, IInv
  <1>2. CASE ConsumeNext
    BY <1>2, ConsumeInv DEF ConsumeNext, Complete
  <1>3. CASE SkipToKey
    BY <1>3, ConsumeInv DEF SkipToKey
  <1>4. CASE DrainDone
    BY <1>4 DEF DrainDone, IInv, NoStaleFrames, Stream!Expected
  <1>5. CASE UNCHANGED vars
    BY <1>5 DEF vars, decoderVars, IInv, NoStaleFrames, Stream!Expected
  <1> QED
    BY <1>1, <1>2, <1>3, <1>4, <1>5 DEF Next, Drain

(* Type correctness of the receiver's main thread. *)
THEOREM TypeCorrect == Spec => []TypeOK
  <1>1. IInv => TypeOK
    BY DEF IInv, TypeOK
  <1> QED
    BY <1>1, InitInv, StepInv, PTL DEF Spec

(* The assertion in next_frame_complete never fails: nothing in the buffer *)
(* is older than next_frame_.                                              *)
THEOREM NothingStale == Spec => []NoStaleFrames
  <1>1. IInv => NoStaleFrames
    BY DEF IInv
  <1> QED
    BY <1>1, InitInv, StepInv, PTL DEF Spec

-----------------------------------------------------------------------------
(* Refinement. *)

LEMMA ConsumeDispatches ==
  ASSUME IInv, NEW k \in DOMAIN frame_buf, Consume(k),
         k > next_frame => frame_buf[k].frame_type = KEY
  PROVE  Stream!Next
  <1> DEFINE f == [frame_id |-> k, frame_type |-> frame_buf[k].frame_type,
                   size |-> frame_buf[k].frame_size]
  <1>1. f \in DispatchedFrame
    BY DEF IInv, Frame, DispatchedFrame
  <1>2. dispatched' = Append(dispatched, f)
    BY DEF Consume
  <1>3. dispatched' # <<>> /\ dispatched'[Len(dispatched')] = f
    BY <1>1, <1>2 DEF IInv
  <1>4. k \in Nat /\ k >= next_frame
    BY DEF IInv, NoStaleFrames
  <1>5. Stream!Decodable(f)
    BY <1>4 DEF IInv, Stream!Decodable
  <1> QED
    BY <1>2, <1>3, <1>5 DEF Stream!Next, Stream!Dispatch

(* For whatever datagrams arrive, repeated, reordered or lost, the frames  *)
(* dispatched by Decoder form a decodable stream.                          *)
THEOREM ImplementsVideoStream == Spec => StreamSpec
  <1>1. Init => Stream!Init
    BY DEF Init, Stream!Init
  <1>2. IInv /\ [Next]_vars => [Stream!Next]_dispatched
    <2> SUFFICES ASSUME IInv, [Next]_vars, dispatched' # dispatched
                 PROVE  Stream!Next
      OBVIOUS
    <2>1. CASE ConsumeNext
      <3>1. next_frame \in DOMAIN frame_buf /\ Consume(next_frame)
        BY <2>1 DEF ConsumeNext, Complete
      <3>2. ~(next_frame > next_frame)
        BY DEF IInv
      <3> QED
        BY <3>1, <3>2, ConsumeDispatches
    <2>2. CASE SkipToKey
      <3>1. PICK k \in DOMAIN frame_buf : LatestCompleteKey(k) /\ Consume(k)
        BY <2>2 DEF SkipToKey
      <3>2. k # next_frame
        BY <2>2, <3>1 DEF SkipToKey, LatestCompleteKey, CompleteKey
      <3>3. k > next_frame
        BY <3>2 DEF IInv, NoStaleFrames
      <3> QED
        BY <3>1, <3>3, ConsumeDispatches DEF LatestCompleteKey, CompleteKey
    <2> QED
      BY <2>1, <2>2 DEF Next, Drain, ReceiveDatagram, DrainDone, vars,
                        decoderVars
  <1> QED
    BY <1>1, <1>2, InitInv, StepInv, PTL DEF Spec, StreamSpec, Stream!Spec

-----------------------------------------------------------------------------
(* Counting fragments. *)

LEMMA InsertCounts ==
  ASSUME NEW f \in Frame, NEW w \in WireDatagram,
         Compatible(f, w), CountedRight(f)
  PROVE  CountedRight(InsertFrag(f, w))
  <1>1. CASE w.frag_id \in f.frags
    BY <1>1 DEF InsertFrag
  <1>2. CASE w.frag_id \notin f.frags
    <2>1. f.frag_cnt \in Nat /\ w.frag_id \in 0..(f.frag_cnt - 1)
      BY DEF Frame, WireDatagram, Compatible
    <2>2. IsFiniteSet(f.frags)
      <3>1. IsFiniteSet(0..(f.frag_cnt - 1))
        BY <2>1, FS_Interval
      <3> QED
        BY <3>1, FS_Subset DEF CountedRight
    <2>3. Cardinality(f.frags) \in Nat
      BY <2>2, FS_CardinalityType
    <2>4. Cardinality(f.frags \cup {w.frag_id}) = Cardinality(f.frags) + 1
      BY <1>2, <2>2, FS_AddElement
    <2>5. /\ InsertFrag(f, w).frags = f.frags \cup {w.frag_id}
          /\ InsertFrag(f, w).null_frags = f.null_frags - 1
          /\ InsertFrag(f, w).frag_cnt = f.frag_cnt
      BY <1>2 DEF InsertFrag
    <2> QED
      BY <2>1, <2>3, <2>4, <2>5 DEF CountedRight
  <1> QED
    BY <1>1, <1>2

LEMMA NewFrameCounts ==
  ASSUME NEW w \in WireDatagram
  PROVE  CountedRight(NewFrame(w))
  BY FS_EmptySet DEF CountedRight, NewFrame, WireDatagram

(* A frame whose fragments are counted right and none of which is missing  *)
(* has all of them.                                                        *)
LEMMA NoneMissing ==
  ASSUME NEW f \in Frame, CountedRight(f), f.null_frags = 0
  PROVE  f.frags = 0..(f.frag_cnt - 1)
  <1>1. f.frag_cnt \in Nat
    BY DEF Frame
  <1>2. /\ IsFiniteSet(0..(f.frag_cnt - 1))
        /\ Cardinality(0..(f.frag_cnt - 1)) = f.frag_cnt
    <2> DEFINE b == f.frag_cnt - 1
    <2>1. b \in Int /\ b >= -1 /\ b + 1 = f.frag_cnt
      BY <1>1
    <2> HIDE DEF b
    <2>2. /\ IsFiniteSet(0..b)
          /\ Cardinality(0..b) = IF 0 > b THEN 0 ELSE b - 0 + 1
      BY <2>1, FS_Interval
    <2>3. Cardinality(0..b) = b + 1
      BY <2>1, <2>2
    <2> QED
      BY <2>1, <2>2, <2>3 DEF b
  <1> DEFINE I == 0..(f.frag_cnt - 1)
  <1>3. IsFiniteSet(I) /\ Cardinality(I) = f.frag_cnt /\ f.frags \in SUBSET I
    BY <1>2 DEF CountedRight
  <1>4. f.null_frags = f.frag_cnt - Cardinality(f.frags)
    BY DEF CountedRight
  <1> HIDE DEF I
  <1>5. IsFiniteSet(f.frags)
    BY <1>3, FS_Subset
  <1>6. Cardinality(f.frags) \in Nat
    BY <1>5, FS_CardinalityType
  <1>7. Cardinality(f.frags) = Cardinality(I)
    BY <1>1, <1>3, <1>4, <1>6
  <1>8. f.frags = I
    BY <1>3, <1>7, FS_Subset
  <1> QED
    BY <1>8 DEF I

(* Conversely, a frame that has all its fragments knows it. *)
LEMMA AllThere ==
  ASSUME NEW f \in Frame, CountedRight(f),
         \A i \in 0..(f.frag_cnt - 1) : i \in f.frags
  PROVE  f.null_frags = 0
  <1>1. f.frag_cnt \in Nat /\ f.frags = 0..(f.frag_cnt - 1)
    BY DEF Frame, CountedRight
  <1> DEFINE b == f.frag_cnt - 1
  <1>2. b \in Int /\ b >= -1 /\ b + 1 = f.frag_cnt
    BY <1>1
  <1> HIDE DEF b
  <1>3. Cardinality(0..b) = b + 1
    BY <1>2, FS_Interval
  <1>4. f.null_frags = f.frag_cnt - Cardinality(0..b)
    BY <1>1 DEF CountedRight, b
  <1> QED
    BY <1>1, <1>2, <1>3, <1>4

AllCountedRight == \A id \in DOMAIN frame_buf : CountedRight(frame_buf[id])

LEMMA StepCounts == IInv /\ AllCountedRight /\ [Next]_vars => AllCountedRight'
  <1> SUFFICES ASSUME IInv, AllCountedRight, [Next]_vars
               PROVE  AllCountedRight'
    OBVIOUS
  <1>1. ASSUME NEW w \in Incoming, ReceiveDatagram(w) PROVE AllCountedRight'
    <2>1. w \in WireDatagram
      BY IncomingAssumption
    <2>2. CASE frame_buf' = frame_buf
      BY <2>2 DEF AllCountedRight
    <2>3. CASE /\ Compatible(FrameOf(w), w)
               /\ frame_buf' = WithEntry(frame_buf, w.frame_id,
                                         InsertFrag(FrameOf(w), w))
      <3>1. CountedRight(FrameOf(w)) /\ FrameOf(w) \in Frame
        BY <2>1, NewFrameCounts, FrameOfType DEF AllCountedRight, FrameOf
      <3>2. CountedRight(InsertFrag(FrameOf(w), w))
        BY <2>1, <2>3, <3>1, InsertCounts
      <3>3. \A id \in DOMAIN frame_buf' :
               \/ id \in DOMAIN frame_buf /\ frame_buf'[id] = frame_buf[id]
               \/ frame_buf'[id] = InsertFrag(FrameOf(w), w)
        BY <2>3 DEF WithEntry
      <3> QED
        BY <3>2, <3>3 DEF AllCountedRight
    <2> QED
      BY <1>1, <2>2, <2>3, Zenon DEF ReceiveDatagram
  <1>2. ASSUME NEW k, Consume(k) PROVE AllCountedRight'
    BY <1>2 DEF Consume, CleanUpTo, AllCountedRight
  <1>3. CASE DrainDone \/ UNCHANGED vars
    BY <1>3 DEF DrainDone, vars, decoderVars, AllCountedRight
  <1> QED
    BY <1>1, <1>2, <1>3 DEF Next, Drain, ConsumeNext, SkipToKey

(* Duplicated datagrams never make an incomplete frame look complete.      *)
THEOREM FragmentsCounted == Spec => []CompleteMeansWhole
  <1>1. Init => AllCountedRight
    BY DEF Init, AllCountedRight
  <1>2. IInv /\ AllCountedRight => CompleteMeansWhole
    BY NoneMissing DEF IInv, AllCountedRight, CompleteMeansWhole, Complete
  <1> QED
    BY <1>1, <1>2, InitInv, StepInv, StepCounts, PTL DEF Spec

-----------------------------------------------------------------------------
(* What becomes of the frames that were acknowledged. *)

(* In recv(), next_frame_complete has just said no. *)
NothingDecodableLeft ==
  main_pc = "recv" => /\ ~Complete(next_frame)
                      /\ ~\E k \in DOMAIN frame_buf : CompleteKey(k)

LEMMA StepDrains == NothingDecodableLeft /\ [Next]_vars => NothingDecodableLeft'
  <1> SUFFICES ASSUME NothingDecodableLeft, [Next]_vars
               PROVE  NothingDecodableLeft'
    OBVIOUS
  <1>1. ASSUME NEW w \in Incoming, ReceiveDatagram(w)
        PROVE  NothingDecodableLeft'
    BY <1>1 DEF ReceiveDatagram, NothingDecodableLeft
  <1>2. CASE ConsumeNext \/ SkipToKey
    BY <1>2 DEF ConsumeNext, SkipToKey, Consume, NothingDecodableLeft
  <1>3. CASE DrainDone
    BY <1>3 DEF DrainDone, NothingDecodableLeft, Complete, CompleteKey
  <1>4. CASE UNCHANGED vars
    BY <1>4 DEF vars, decoderVars, NothingDecodableLeft, Complete,
                CompleteKey
  <1> QED
    BY <1>1, <1>2, <1>3, <1>4 DEF Next, Drain

(* The datagrams are those of a sender: they are numbered within their     *)
(* frame and agree on it.  In a call AllGenuine of VideoCallProofs says so *)
(* of whatever is on the wire.                                             *)
WellMade ==
  \A v \in Incoming :
    /\ v.frag_id < v.frag_cnt
    /\ \A w \in Incoming :
         w.frame_id = v.frame_id => /\ w.frame_type = v.frame_type
                                    /\ w.frag_cnt = v.frag_cnt

(* A frame in the buffer is what its datagrams say of it. *)
Described ==
  \A id \in DOMAIN frame_buf, w \in Incoming :
    w.frame_id = id => /\ frame_buf[id].frame_type = w.frame_type
                       /\ frame_buf[id].frag_cnt = w.frag_cnt

(* An acknowledged fragment stays until next_frame_ has passed its frame.  *)
AcknowledgedKept ==
  \A a \in acks :
    a.frame_id >= next_frame => /\ a.frame_id \in DOMAIN frame_buf
                                /\ a.frag_id \in frame_buf[a.frame_id].frags

(* next_frame_ passes a frame only by dispatching it, or for a key frame.  *)
PassedSettled == \A id \in Nat : id < next_frame => Settled(id)

LossInv == receiver_up /\ Described /\ AcknowledgedKept /\ PassedSettled

LEMMA ReceiveKeeps ==
  ASSUME IInv, LossInv, WellMade, NEW w \in Incoming, ReceiveDatagram(w)
  PROVE  LossInv'
  <1>1. w \in WireDatagram
    BY IncomingAssumption
  <1>2. PassedSettled'
    BY DEF LossInv, PassedSettled, Settled, ReceiveDatagram
  <1>3. acks' = acks \cup {AckMsg(w)} /\ next_frame' = next_frame
    BY DEF ReceiveDatagram
  <1>4. AckMsg(w).frame_id = w.frame_id /\ AckMsg(w).frag_id = w.frag_id
    BY DEF AckMsg
  <1>5. CASE w.frame_id < next_frame
    <2>1. ~(w.frame_id >= next_frame)
      BY <1>1, <1>5 DEF IInv, WireDatagram
    <2>2. frame_buf' = frame_buf /\ receiver_up' = receiver_up
      BY <2>1, Zenon DEF ReceiveDatagram
    <2>3. Described'
      BY <2>2 DEF LossInv, Described
    <2>4. AcknowledgedKept'
      BY <1>3, <1>4, <2>1, <2>2 DEF LossInv, AcknowledgedKept
    <2> QED
      BY <1>2, <2>2, <2>3, <2>4, Zenon DEF LossInv
  <1>6. CASE w.frame_id >= next_frame
    <2> DEFINE f == FrameOf(w)
               g == InsertFrag(f, w)
    <2>1. ~(w.frame_id < next_frame)
      BY <1>1, <1>6 DEF IInv, WireDatagram
    <2>2. f.frame_type = w.frame_type /\ f.frag_cnt = w.frag_cnt
      BY DEF LossInv, Described, FrameOf, NewFrame
    <2>3. Compatible(f, w)
      BY <2>2 DEF WellMade, Compatible
    <2>4. receiver_up' = Compatible(f, w)
      BY <2>1, Zenon DEF ReceiveDatagram
    <2>5. receiver_up'
      BY <2>3, <2>4, Zenon
    <2>6. frame_buf' = WithEntry(frame_buf, w.frame_id, g)
      BY <2>1, <2>5, Zenon DEF ReceiveDatagram
    <2>7. f \in Frame
      BY <1>1, FrameOfType
    <2>8. /\ g.frame_type = w.frame_type /\ g.frag_cnt = w.frag_cnt
          /\ g.frags = f.frags \cup {w.frag_id}
      BY <2>2, <2>7 DEF InsertFrag, Frame
    <2>9. /\ DOMAIN frame_buf' = DOMAIN frame_buf \cup {w.frame_id}
          /\ frame_buf'[w.frame_id] = g
          /\ \A id \in DOMAIN frame_buf : id # w.frame_id =>
               frame_buf'[id] = frame_buf[id]
      BY <2>6 DEF WithEntry
    <2>10. w.frame_id \in DOMAIN frame_buf => f = frame_buf[w.frame_id]
      BY DEF FrameOf
    <2> HIDE DEF f, g
    <2>11. Described'
      BY <2>8, <2>9 DEF LossInv, Described, WellMade
    <2>12. AcknowledgedKept'
      BY <1>3, <1>4, <2>8, <2>9, <2>10 DEF LossInv, AcknowledgedKept
    <2> QED
      BY <1>2, <2>5, <2>11, <2>12, Zenon DEF LossInv
  <1> QED
    BY <1>1, <1>5, <1>6 DEF WireDatagram, IInv

LEMMA ConsumeKeeps ==
  ASSUME IInv, LossInv, NEW k \in DOMAIN frame_buf, Consume(k),
         k > next_frame => frame_buf[k].frame_type = KEY
  PROVE  LossInv'
  <1> DEFINE f == [frame_id |-> k, frame_type |-> frame_buf[k].frame_type,
                   size |-> frame_buf[k].frame_size]
  <1>1. /\ k \in Nat /\ next_frame \in Nat /\ k >= next_frame
        /\ f \in DispatchedFrame
    BY DEF IInv, NoStaleFrames, Frame, DispatchedFrame
  <1>2. /\ dispatched' = Append(dispatched, f)
        /\ next_frame' = k + 1
        /\ acks' = acks
        /\ frame_buf' = CleanUpTo(k + 1)
    BY DEF Consume
  <1>3. receiver_up'
    <2>1. receiver_up' = receiver_up
      BY DEF Consume
    <2> QED
      BY <2>1, Zenon DEF LossInv
  <1>4. /\ DOMAIN frame_buf' = {i \in DOMAIN frame_buf : i >= k + 1}
        /\ \A id \in DOMAIN frame_buf' : frame_buf'[id] = frame_buf[id]
    BY <1>2 DEF CleanUpTo
  <1>5. f.frame_id = k /\ f.frame_type = frame_buf[k].frame_type
    OBVIOUS
  <1> HIDE DEF f
  <1>6. /\ \A i \in DOMAIN dispatched : /\ i \in DOMAIN dispatched'
                                        /\ dispatched'[i] = dispatched[i]
        /\ Len(dispatched') \in DOMAIN dispatched'
        /\ dispatched'[Len(dispatched')] = f
    BY <1>1, <1>2 DEF IInv
  <1>7. Described'
    BY <1>4 DEF LossInv, Described
  <1>8. AcknowledgedKept'
    <2> SUFFICES ASSUME NEW a \in acks, a.frame_id >= k + 1
                 PROVE  /\ a.frame_id \in DOMAIN frame_buf'
                        /\ a.frag_id \in frame_buf'[a.frame_id].frags
      BY <1>2 DEF AcknowledgedKept
    <2>1. a.frame_id \in Nat
      BY IncomingAssumption DEF IInv, AckMsg, WireDatagram
    <2>2. a.frame_id >= next_frame
      BY <1>1, <2>1
    <2> QED
      BY <1>4, <2>2 DEF LossInv, AcknowledgedKept
  <1>9. PassedSettled'
    <2> SUFFICES ASSUME NEW id \in Nat, id < k + 1
                 PROVE  Settled(id)'
      BY <1>2 DEF PassedSettled
    <2>1. CASE id < next_frame
      BY <1>6, <2>1 DEF LossInv, PassedSettled, Settled
    <2>2. CASE id = k
      BY <1>5, <1>6, <2>2 DEF Settled
    <2>3. CASE id >= next_frame /\ id < k
      <3>1. f.frame_id > id /\ f.frame_type = KEY
        BY <1>1, <1>5, <2>3
      <3> QED
        BY <1>6, <3>1 DEF Settled
    <2> QED
      BY <1>1, <2>1, <2>2, <2>3
  <1> QED
    BY <1>3, <1>7, <1>8, <1>9, Zenon DEF LossInv

LEMMA StepKeeps == WellMade /\ IInv /\ LossInv /\ [Next]_vars => LossInv'
  <1> SUFFICES ASSUME WellMade, IInv, LossInv, [Next]_vars PROVE LossInv'
    OBVIOUS
  <1>1. CASE ConsumeNext
    <2>1. next_frame \in DOMAIN frame_buf /\ Consume(next_frame)
      BY <1>1 DEF ConsumeNext, Complete
    <2>2. ~(next_frame > next_frame)
      BY DEF IInv
    <2> QED
      BY <2>1, <2>2, ConsumeKeeps
  <1>2. CASE SkipToKey
    BY <1>2, ConsumeKeeps DEF SkipToKey, LatestCompleteKey, CompleteKey
  <1>3. CASE DrainDone \/ UNCHANGED vars
    <2>1. UNCHANGED <<next_frame, frame_buf, dispatched, receiver_up, acks>>
      BY <1>3 DEF DrainDone, vars, decoderVars
    <2>2. Described' /\ AcknowledgedKept' /\ PassedSettled'
      BY <2>1 DEF LossInv, Described, AcknowledgedKept, PassedSettled, Settled
    <2> QED
      BY <2>1, <2>2, Zenon DEF LossInv
  <1> QED
    BY <1>1, <1>2, <1>3, ReceiveKeeps DEF Next, Drain

(* For any stream of frames of any size, and its datagrams repeated,       *)
(* reordered or lost: no frame whose every fragment the receiver has       *)
(* acknowledged is lost to the worker.                                     *)
THEOREM AcknowledgedGoesOn == WellMade => (Spec => []NoAcknowledgedFrameLost)
  <1> SUFFICES ASSUME WellMade PROVE Spec => []NoAcknowledgedFrameLost
    OBVIOUS
  <1> DEFINE Inv == IInv /\ AllCountedRight /\ NothingDecodableLeft /\ LossInv
  <1>1. Init => Inv
    <2> SUFFICES ASSUME Init PROVE Inv
      OBVIOUS
    <2>1. AllCountedRight /\ NothingDecodableLeft
      BY DEF Init, AllCountedRight, NothingDecodableLeft, Complete
    <2>2. Described /\ AcknowledgedKept /\ PassedSettled
      BY DEF Init, Described, AcknowledgedKept, PassedSettled
    <2> QED
      BY <2>1, <2>2, InitInv, Zenon DEF Init, LossInv
  <1>2. Inv /\ [Next]_vars => Inv'
    BY StepInv, StepCounts, StepDrains, StepKeeps
  <1>3. Inv => NoAcknowledgedFrameLost
    <2> SUFFICES ASSUME Inv, main_pc = "recv",
                        NEW w \in Incoming, AllAcknowledged(w)
                 PROVE  \/ Settled(w.frame_id)
                        \/ w.frame_id > next_frame /\ w.frame_type # KEY
      BY DEF NoAcknowledgedFrameLost
    <2>1. w \in WireDatagram /\ w.frag_id < w.frag_cnt
      BY IncomingAssumption DEF WellMade
    <2>2. w.frame_id \in Nat /\ next_frame \in Nat
      BY <2>1 DEF WireDatagram, IInv
    <2>3. CASE w.frame_id < next_frame
      BY <2>2, <2>3 DEF LossInv, PassedSettled
    <2>4. CASE w.frame_id >= next_frame
      <3> DEFINE f == frame_buf[w.frame_id]
      <3>1. 0 \in 0..(w.frag_cnt - 1)
        BY <2>1 DEF WireDatagram
      <3>2. /\ w.frame_id \in DOMAIN frame_buf
            /\ \A i \in 0..(w.frag_cnt - 1) : i \in f.frags
        BY <2>4, <3>1 DEF AllAcknowledged, LossInv, AcknowledgedKept
      <3>3. f.frame_type = w.frame_type /\ f.frag_cnt = w.frag_cnt
        BY <3>2 DEF LossInv, Described
      <3>4. f \in Frame /\ CountedRight(f)
        BY <3>2 DEF IInv, AllCountedRight
      <3>5. f.null_frags = 0
        BY <3>2, <3>3, <3>4, AllThere
      <3>6. Complete(w.frame_id)
        BY <3>2, <3>5 DEF Complete
      <3>7. w.frame_id # next_frame /\ w.frame_type # KEY
        BY <3>2, <3>3, <3>6 DEF NothingDecodableLeft, CompleteKey
      <3> QED
        BY <2>2, <2>4, <3>7
    <2> QED
      BY <2>2, <2>3, <2>4
  <1> QED
    BY <1>1, <1>2, <1>3, PTL DEF Spec
=============================================================================
