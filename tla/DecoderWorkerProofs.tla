------------------------- MODULE DecoderWorkerProofs -------------------------
(***************************************************************************)
(* The hand-over between the receiver's two threads, for every set of      *)
(* frames and every number of them: mutual exclusion, no lost wakeup,      *)
(* queues that neither lose nor repeat nor reorder a frame, and an output  *)
(* file that one thread writes, in the order of the frames.                *)
(*                                                                         *)
(* NoLostWakeup is not inductive alone: that the queue is empty when the   *)
(* worker starts to wait, and that the main thread is not between push and *)
(* notify then without being about to notify, needs MutualExclusion, and   *)
(* that a waiting worker exists at all needs OnlyIfStarted.                *)
(***************************************************************************)
EXTENDS DecoderWorker, SequenceTheorems, TLAPS

(* Without a worker the main thread never enters the hand-over.            *)
OnlyIfStarted ==
  /\ ~HasWorker => worker_pc = "not started" /\ main_pc = "run"
  /\ main_pc # "run" => dispatched # <<>>

IInv == TypeOK /\ MutualExclusion /\ NoLostWakeup /\ OnlyIfStarted

Line == [by : {"main", "worker"}, frame_id : Nat]

LEMMA OutputType ==
  ASSUME TypeOK
  PROVE  output \in Seq(Line)
  BY DEF TypeOK, Line

LEMMA LastType ==
  ASSUME NEW S, NEW q \in Seq(S), q # <<>>
  PROVE  q[Len(q)] \in S
  BY EmptySeq, ElementOfSeq

LEMMA AppendOrNot ==
  ASSUME NEW S, NEW q \in Seq(S), NEW e \in S, NEW r,
         r = q \/ r = Append(q, e)
  PROVE  r \in Seq(S)
  BY AppendProperties

LEMMA InitInv == Init => IInv
  <1> SUFFICES ASSUME Init PROVE IInv
    OBVIOUS
  <1>1. display \in BOOLEAN /\ process_up \in BOOLEAN
    BY DEF Init
  <1>2. /\ lazy_level \in 0..2
        /\ HasWorker => worker_pc = "top"
        /\ ~HasWorker => worker_pc = "not started"
    <2>0. lazy_level \in {DECODE_DISPLAY, DECODE_ONLY, NO_DECODE_DISPLAY}
      BY Zenon DEF Init
    <2>1. lazy_level \in 0..2
      BY <2>0 DEF DECODE_DISPLAY, DECODE_ONLY, NO_DECODE_DISPLAY
    <2>2. worker_pc = IF HasWorker THEN "top" ELSE "not started"
      BY DEF Init
    <2> QED
      BY <2>1, <2>2, Zenon
  <1>3. /\ shared_queue = <<>> /\ local_queue = <<>> /\ dispatched = <<>>
        /\ decoded = <<>> /\ output = <<>> /\ mtx = "none" /\ main_pc = "run"
    BY DEF Init
  <1>4. TypeOK
    BY <1>1, <1>2, <1>3, EmptySeq DEF TypeOK
  <1> QED
    BY <1>2, <1>3, <1>4
       DEF IInv, MutualExclusion, NoLostWakeup, OnlyIfStarted

LEMMA StepInv == IInv /\ [Next]_vars => IInv'
  <1> SUFFICES ASSUME IInv, [Next]_vars PROVE IInv'
    OBVIOUS
  <1> USE DEF IInv, TypeOK, MutualExclusion, NoLostWakeup, OnlyIfStarted,
              HasWorker
  <1>1. CASE MainConsume
    <2>1. PICK f \in Frames : Stream!Dispatch(f) /\ output' = MainOutput(f)
      BY <1>1 DEF MainConsume
    <2>2. dispatched' = Append(dispatched, f) /\ f.frame_id \in Nat
      BY <2>1, WorkerAssumption DEF Stream!Dispatch
    <2>3. dispatched' \in Seq(Frames) /\ dispatched' # <<>>
      <3>1. dispatched \in Seq(Frames)
        OBVIOUS
      <3>2. Append(dispatched, f) \in Seq(Frames) /\ Append(dispatched, f) # <<>>
        <4> HIDE DEF IInv
        <4> QED
          BY <3>1, AppendProperties
      <3> QED
        BY <2>2, <3>2, Zenon
    <2> DEFINE l == [by |-> "main", frame_id |-> f.frame_id]
    <2>4. output' \in Seq(Line)
      <3>1. l \in Line
        BY <2>2 DEF Line
      <3>2. output' = output \/ output' = Append(output, l)
        BY <2>1 DEF MainOutput
      <3> HIDE DEF l
      <3> QED
        BY <3>1, <3>2, OutputType, AppendOrNot
    <2> QED
      BY <1>1, <2>3, <2>4 DEF MainConsume, Line
  <1>2. CASE MainLock
    BY <1>2 DEF MainLock
  <1>3. CASE MainPush
    <2>1. shared_queue \in Seq(Frames) /\ frame \in Frames
      BY <1>3, LastType DEF MainPush, frame
    <2>2. shared_queue' = Append(shared_queue, frame)
      BY <1>3 DEF MainPush
    <2>3. shared_queue' \in Seq(Frames)
      BY <2>1, <2>2, AppendProperties
    <2> QED
      BY <1>3, <2>3 DEF MainPush
  <1>4. CASE MainUnlock
    BY <1>4 DEF MainUnlock
  <1>5. CASE MainNotify
    BY <1>5 DEF MainNotify
  <1>6. CASE WorkerTop
    BY <1>6 DEF WorkerTop
  <1>7. CASE WorkerLock
    BY <1>7 DEF WorkerLock
  <1>8. CASE WorkerWait
    BY <1>8 DEF WorkerWait
  <1>9. CASE WorkerTake
    BY <1>9 DEF WorkerTake, Taken
  <1>10. CASE WorkerUnlock
    BY <1>10 DEF WorkerUnlock
  <1>11. CASE WorkerDecode
    <2>1. /\ Head(local_queue) \in Frames
          /\ Head(local_queue).frame_id \in Nat
          /\ Tail(local_queue) \in Seq(Frames)
      BY <1>11, WorkerAssumption, HeadTailProperties DEF WorkerDecode
    <2> DEFINE l == [by |-> "worker", frame_id |-> Head(local_queue).frame_id]
    <2>2. l \in Line
      BY <2>1 DEF Line
    <2>3. output' = output \/ output' = Append(output, l)
      BY <1>11 DEF WorkerDecode
    <2> HIDE DEF l
    <2>4. output' \in Seq(Line)
      BY <2>2, <2>3, OutputType, AppendOrNot
    <2>5. /\ \/ decoded' = decoded
             \/ decoded' = Append(decoded, Head(local_queue))
          /\ local_queue' = local_queue \/ local_queue' = Tail(local_queue)
      BY <1>11 DEF WorkerDecode
    <2>6. decoded' \in Seq(Frames) /\ local_queue' \in Seq(Frames)
      BY <2>1, <2>5, AppendOrNot
    <2>7. process_up' \in BOOLEAN
      BY <1>11 DEF WorkerDecode, FitsDecodeBuf
    <2> QED
      BY <1>11, <2>4, <2>6, <2>7 DEF WorkerDecode, Line
  <1>12. CASE WorkerBatchDone
    BY <1>12 DEF WorkerBatchDone
  <1>13. CASE SpuriousWakeup
    BY <1>13 DEF SpuriousWakeup
  <1>14. CASE UNCHANGED vars
    BY <1>14 DEF vars
  <1> QED
    BY <1>1, <1>2, <1>3, <1>4, <1>5, <1>6, <1>7, <1>8, <1>9, <1>10, <1>11,
       <1>12, <1>13, <1>14 DEF Next, MainHandOver, WorkerStep

-----------------------------------------------------------------------------
(* The frames on their way, as one sequence. *)

InQueues == decoded \o local_queue \o shared_queue

LEMMA QueueTypes ==
  ASSUME IInv
  PROVE  /\ dispatched \in Seq(Frames) /\ decoded \in Seq(Frames)
         /\ local_queue \in Seq(Frames) /\ shared_queue \in Seq(Frames)
         /\ decoded \o local_queue \in Seq(Frames)
         /\ InQueues \in Seq(Frames)
         /\ main_pc # "run" => frame \in Frames
  <1>1. /\ dispatched \in Seq(Frames) /\ decoded \in Seq(Frames)
        /\ local_queue \in Seq(Frames) /\ shared_queue \in Seq(Frames)
    BY DEF IInv, TypeOK
  <1>2. decoded \o local_queue \in Seq(Frames)
    BY <1>1, ConcatProperties
  <1>3. InQueues \in Seq(Frames)
    BY <1>1, <1>2, ConcatProperties DEF InQueues
  <1>4. main_pc # "run" => frame \in Frames
    BY <1>1, LastType DEF IInv, OnlyIfStarted, frame
  <1> QED
    BY <1>1, <1>2, <1>3, <1>4

LEMMA OneFrame ==
  ASSUME NEW S, NEW e \in S
  PROVE  <<e>> \in Seq(S)
  OBVIOUS

LEMMA Regroup ==
  ASSUME NEW S, NEW a \in Seq(S), NEW b \in Seq(S), NEW c \in Seq(S)
  PROVE  (a \o b) \o c = a \o (b \o c)
  BY ConcatAssociative

LEMMA AppendToTail ==
  ASSUME NEW S, NEW a \in Seq(S), NEW b \in Seq(S), NEW e \in S
  PROVE  a \o Append(b, e) = (a \o b) \o <<e>>
  <1>1. <<e>> \in Seq(S)
    BY OneFrame
  <1>2. Append(b, e) = b \o <<e>>
    BY AppendIsConcat
  <1> QED
    BY <1>1, <1>2, Regroup

LEMMA MoveHead ==
  ASSUME NEW S, NEW a \in Seq(S), NEW t \in Seq(S), NEW h \in S
  PROVE  Append(a, h) \o t = a \o (<<h>> \o t)
  <1>1. <<h>> \in Seq(S)
    BY OneFrame
  <1>2. Append(a, h) = a \o <<h>>
    BY AppendIsConcat
  <1> QED
    BY <1>1, <1>2, Regroup

LEMMA NothingLostStep == IInv /\ NothingLost /\ [Next]_vars => NothingLost'
  <1> SUFFICES ASSUME IInv, NothingLost, [Next]_vars, HasWorker'
               PROVE  dispatched' = InQueues' \o InHand'
    BY DEF NothingLost, InQueues
  <1>0. lazy_level' = lazy_level
    BY DEF Next, vars, MainHandOver, WorkerStep, MainConsume, MainLock, MainPush,
           MainUnlock, MainNotify, WorkerTop, WorkerLock, WorkerWait, WorkerTake,
           WorkerUnlock, WorkerDecode, WorkerBatchDone, SpuriousWakeup
  <1>1. HasWorker /\ dispatched = InQueues \o InHand
    BY <1>0 DEF NothingLost, InQueues, HasWorker
  <1>2. CASE MainConsume
    <2>1. PICK f \in Frames : dispatched' = Append(dispatched, f)
      BY <1>2 DEF MainConsume, Stream!Dispatch
    <2>2. InQueues' = InQueues /\ InHand = <<>> /\ InHand' = <<frame>>'
      BY <1>0, <1>1, <1>2 DEF MainConsume, InQueues, InHand, HasWorker
    <2>3. dispatched = InQueues
      BY <1>1, <2>2, QueueTypes, ConcatEmptySeq
    <2>4. frame' = f
      BY <2>1, QueueTypes, AppendProperties DEF frame
    <2> QED
      BY <2>1, <2>2, <2>3, <2>4, QueueTypes, AppendIsConcat
  <1>3. CASE MainPush
    <2>1. /\ dispatched' = dispatched
          /\ InHand = <<frame>> /\ InHand' = <<>>
          /\ InQueues' = (decoded \o local_queue) \o Append(shared_queue, frame)
          /\ frame \in Frames
      BY <1>0, <1>1, <1>3, QueueTypes DEF MainPush, InQueues, InHand, HasWorker
    <2>2. /\ decoded \o local_queue \in Seq(Frames)
          /\ shared_queue \in Seq(Frames)
      BY QueueTypes
    <2>3. InQueues' = InQueues \o <<frame>>
      <3>1. (decoded \o local_queue) \o Append(shared_queue, frame)
              = ((decoded \o local_queue) \o shared_queue) \o <<frame>>
        BY <2>1, <2>2, AppendToTail
      <3> QED
        BY <2>1, <3>1, Zenon DEF InQueues
    <2>4. InQueues \o <<frame>> \in Seq(Frames)
      BY <2>1, QueueTypes, OneFrame, ConcatProperties
    <2> QED
      BY <1>1, <2>1, <2>3, <2>4, ConcatEmptySeq
  <1>4. CASE WorkerTake
    <2>1. /\ dispatched' = dispatched /\ InHand' = InHand
          /\ InQueues' = decoded \o (local_queue \o shared_queue) \o <<>>
      BY <1>0, <1>4
         DEF WorkerTake, Taken, InQueues, InHand, HasWorker, frame
    <2>2. decoded \o (local_queue \o shared_queue) = InQueues
      BY SMTT(30), QueueTypes, Regroup DEF InQueues
    <2>3. InQueues' = InQueues
      BY <2>1, <2>2, QueueTypes, ConcatEmptySeq
    <2> QED
      BY <1>1, <2>1, <2>3
  <1>5. CASE WorkerDecode
    <2>1. /\ dispatched' = dispatched /\ InHand' = InHand
          /\ shared_queue' = shared_queue
      BY <1>0, <1>5 DEF WorkerDecode, InHand, HasWorker, frame
    <2>2. CASE ~FitsDecodeBuf(Head(local_queue))
      BY <1>1, <1>5, <2>1, <2>2 DEF WorkerDecode, InQueues
    <2>3. CASE FitsDecodeBuf(Head(local_queue))
      <3> DEFINE h == Head(local_queue)
                 t == Tail(local_queue)
      <3>1. decoded' = Append(decoded, h) /\ local_queue' = t
        BY <1>5, <2>3 DEF WorkerDecode
      <3>2. local_queue # <<>> /\ h \in Frames /\ t \in Seq(Frames)
        BY <1>5, QueueTypes, HeadTailProperties DEF WorkerDecode
      <3>3. local_queue = <<h>> \o t
        BY <3>2, QueueTypes
      <3> HIDE DEF h, t
      <3>4. decoded' \o local_queue' = decoded \o local_queue
        <4>1. decoded \in Seq(Frames)
          BY QueueTypes
        <4>2. Append(decoded, h) \o t = decoded \o (<<h>> \o t)
          BY <3>2, <4>1, MoveHead
        <4> QED
          BY <3>1, <3>3, <4>2
      <3> QED
        BY <1>1, <2>1, <3>4 DEF InQueues
    <2> QED
      BY <2>2, <2>3
  <1>6. CASE MainLock \/ MainUnlock \/ MainNotify
    BY <1>0, <1>1, <1>6 DEF MainLock, MainUnlock, MainNotify, InQueues, InHand,
                            HasWorker, frame
  <1>7. CASE \/ WorkerTop \/ WorkerLock \/ WorkerWait \/ WorkerUnlock
             \/ WorkerBatchDone \/ SpuriousWakeup \/ UNCHANGED vars
    BY <1>0, <1>1, <1>7
       DEF WorkerTop, WorkerLock, WorkerWait, WorkerUnlock, WorkerBatchDone,
           SpuriousWakeup, vars, InQueues, InHand, HasWorker, frame
  <1> QED
    BY <1>2, <1>3, <1>4, <1>5, <1>6, <1>7 DEF Next, MainHandOver, WorkerStep

LEMMA NothingLostInit == Init => NothingLost
  <1> SUFFICES ASSUME Init PROVE dispatched = decoded \o local_queue \o shared_queue \o InHand
    BY DEF NothingLost
  <1>1. InHand = <<>> /\ dispatched = <<>> /\ decoded = <<>>
        /\ local_queue = <<>> /\ shared_queue = <<>>
    BY DEF Init, InHand
  <1> QED
    BY <1>1, EmptySeq, ConcatEmptySeq

-----------------------------------------------------------------------------
(* Type correctness. *)
THEOREM TypeCorrect == Spec => []TypeOK
  BY InitInv, StepInv, PTL DEF Spec, IInv

(* The mutex protects shared_queue_. *)
THEOREM Exclusion == Spec => []MutualExclusion
  BY InitInv, StepInv, PTL DEF Spec, IInv

(* The worker never sleeps on a frame that nobody will tell it about, with *)
(* notify_one called after the lock is released.                           *)
THEOREM WakeupsArrive == Spec => []NoLostWakeup
  BY InitInv, StepInv, PTL DEF Spec, IInv

(* The queues between the threads are faithful: what the main thread has   *)
(* consumed is what the worker has decoded, followed by what is on its way.*)
THEOREM HandOverFaithful == Spec => []NothingLost
  BY InitInv, StepInv, NothingLostInit, NothingLostStep, PTL DEF Spec

-----------------------------------------------------------------------------
(* The worker decodes a prefix of what was dispatched, and each frame of   *)
(* what was dispatched may follow its predecessor.                         *)

Linked == \A i \in 1..Len(dispatched) :
            LET f == dispatched[i]
                e == IF i = 1 THEN 0 ELSE dispatched[i - 1].frame_id + 1
            IN  f.frame_id = e \/ (f.frame_id > e /\ f.frame_type = KeyType)

LEMMA LinkedStep == IInv /\ Linked /\ [Next]_vars => Linked'
  <1> SUFFICES ASSUME IInv, Linked, [Next]_vars PROVE Linked'
    OBVIOUS
  <1>1. CASE MainConsume
    <2>1. PICK f \in Frames : Stream!Decodable(f)
                              /\ dispatched' = Append(dispatched, f)
      BY <1>1 DEF MainConsume, Stream!Dispatch
    <2> DEFINE n == Len(dispatched)
    <2>2. /\ n \in Nat /\ Len(dispatched') = n + 1
          /\ \A i \in 1..n : dispatched'[i] = dispatched[i]
          /\ dispatched'[n + 1] = f
          /\ dispatched = <<>> <=> n = 0
      BY <2>1, QueueTypes, AppendProperties, EmptySeq, LenProperties
    <2> SUFFICES ASSUME NEW i \in 1..(n + 1)
                 PROVE  LET e == IF i = 1 THEN 0
                                 ELSE dispatched'[i - 1].frame_id + 1
                        IN  \/ dispatched'[i].frame_id = e
                            \/ /\ dispatched'[i].frame_id > e
                               /\ dispatched'[i].frame_type = KeyType
      BY <2>2 DEF Linked
    <2>3. CASE i = n + 1
      <3>1. Stream!Expected = IF i = 1 THEN 0
                              ELSE dispatched'[i - 1].frame_id + 1
        BY <2>2, <2>3 DEF Stream!Expected
      <3> QED
        BY <2>1, <2>2, <2>3, <3>1 DEF Stream!Decodable
    <2>4. CASE i \in 1..n
      <3>1. dispatched'[i] = dispatched[i]
            /\ (i # 1 => dispatched'[i - 1] = dispatched[i - 1])
        BY <2>2, <2>4
      <3> QED
        BY <2>4, <3>1 DEF Linked
    <2> QED
      BY <2>2, <2>3, <2>4
  <1>2. CASE dispatched' = dispatched
    BY <1>2 DEF Linked
  <1> QED
    BY <1>1, <1>2
       DEF Next, vars, MainHandOver, WorkerStep, MainLock, MainPush,
           MainUnlock, MainNotify, WorkerTop, WorkerLock, WorkerWait, WorkerTake,
           WorkerUnlock, WorkerDecode, WorkerBatchDone, SpuriousWakeup

LEMMA PrefixFacts ==
  ASSUME NEW S, NEW s \in Seq(S), NEW t \in Seq(S)
  PROVE  /\ s \o t \in Seq(S)
         /\ Len(s) \in Nat /\ Len(t) \in Nat
         /\ Len(s \o t) = Len(s) + Len(t)
         /\ \A i \in 1..Len(s) : (s \o t)[i] = s[i]
  BY ConcatProperties, LenProperties

LEMMA DecodesNext ==
  ASSUME IInv, NothingLost, HasWorker, local_queue # <<>>
  PROVE  /\ Len(decoded) + 1 \in 1..Len(dispatched)
         /\ dispatched[Len(decoded) + 1] = Head(local_queue)
         /\ decoded # <<>> => dispatched[Len(decoded)] = decoded[Len(decoded)]
  <1> DEFINE taken == decoded \o local_queue
  <1>1. InHand \in Seq(Frames)
    BY QueueTypes, OneFrame, EmptySeq DEF InHand
  <1>2. /\ Len(local_queue) \in Nat \ {0} /\ Head(local_queue) = local_queue[1]
        /\ Len(decoded) \in Nat /\ (decoded # <<>> => Len(decoded) # 0)
    BY QueueTypes, EmptySeq, LenProperties
  <1>3. /\ taken \in Seq(Frames)
        /\ Len(taken) = Len(decoded) + Len(local_queue)
        /\ \A i \in 1..Len(decoded) : taken[i] = decoded[i]
        /\ taken[Len(decoded) + 1] = local_queue[1]
    BY <1>2, QueueTypes, ConcatProperties
  <1>4. dispatched = InQueues \o InHand /\ InQueues = taken \o shared_queue
    BY DEF NothingLost, InQueues
  <1> HIDE DEF taken
  <1>5. /\ Len(InQueues) \in Nat /\ Len(InQueues) >= Len(taken)
        /\ \A i \in 1..Len(taken) : InQueues[i] = taken[i]
    BY <1>3, <1>4, QueueTypes, PrefixFacts
  <1>6. /\ Len(dispatched) \in Nat /\ Len(dispatched) >= Len(InQueues)
        /\ \A i \in 1..Len(InQueues) : dispatched[i] = InQueues[i]
    BY <1>1, <1>4, QueueTypes, PrefixFacts
  <1>7. \A i \in 1..Len(taken) : dispatched[i] = taken[i]
    BY <1>2, <1>3, <1>5, <1>6
  <1> QED
    BY <1>2, <1>3, <1>5, <1>6, <1>7

(* A frame that is decoded may follow the one decoded before it. *)
LEMMA DecodeFacts ==
  ASSUME IInv, NothingLost, Linked, WorkerDecode,
         FitsDecodeBuf(Head(local_queue))
  PROVE  /\ HasWorker
         /\ Head(local_queue) \in Frames
         /\ decoded' = Append(decoded, Head(local_queue))
         /\ decoded' # <<>>
         /\ decoded'[Len(decoded')] = Head(local_queue)
         /\ Decoding!Decodable(Head(local_queue))
  <1> DEFINE h == Head(local_queue)
             n == Len(decoded)
  <1>1. decoded' = Append(decoded, h) /\ local_queue # <<>> /\ HasWorker
    BY DEF WorkerDecode, IInv, OnlyIfStarted
  <1>2. h \in Frames
    BY <1>1, QueueTypes, HeadTailProperties
  <1> HIDE DEF h
  <1>3. /\ decoded' # <<>> /\ decoded'[Len(decoded')] = h
        /\ n \in Nat /\ (decoded = <<>> <=> n = 0)
    BY <1>1, <1>2, QueueTypes, AppendProperties, EmptySeq, LenProperties
  <1>4. /\ n + 1 \in 1..Len(dispatched)
        /\ dispatched[n + 1] = h
        /\ decoded # <<>> => dispatched[n] = decoded[n]
    BY <1>1, DecodesNext DEF h
  <1>5. Decoding!Expected = IF n + 1 = 1 THEN 0
                            ELSE dispatched[(n + 1) - 1].frame_id + 1
    BY <1>3, <1>4 DEF Decoding!Expected
  <1>6. Decoding!Decodable(h)
    BY <1>4, <1>5 DEF Linked, Decoding!Decodable
  <1> QED
    BY <1>1, <1>2, <1>3, <1>6 DEF h

LEMMA LinkedInit == Init => Linked
  <1>1. 1..0 = {} /\ Len(<<>>) = 0
    OBVIOUS
  <1> QED
    BY <1>1 DEF Init, Linked

(* The worker only ever appends to what it has decoded, and what it        *)
(* appends can be decoded: worker_main implements VideoStream, too.        *)
THEOREM WorkerImplementsVideoStream == Spec => DecodedStream
  <1>1. Init => Decoding!Init
    BY DEF Init, Decoding!Init
  <1>2. ASSUME IInv, NothingLost, Linked, [Next]_vars
        PROVE  [Decoding!Next]_decoded
    <2>1. CASE WorkerDecode /\ FitsDecodeBuf(Head(local_queue))
      BY <1>2, <2>1, DecodeFacts DEF Decoding!Next, Decoding!Dispatch
    <2>2. CASE decoded' = decoded
      BY <2>2
    <2> QED
      BY <1>2, <2>1, <2>2
         DEF Next, vars, MainHandOver, WorkerStep, MainConsume, MainLock,
             MainPush, MainUnlock, MainNotify, WorkerTop, WorkerLock,
             WorkerWait, WorkerTake, WorkerUnlock, WorkerDecode,
             WorkerBatchDone, SpuriousWakeup
  <1> QED
    BY <1>1, <1>2, InitInv, StepInv, NothingLostInit, NothingLostStep,
       LinkedInit, LinkedStep, PTL DEF Spec, DecodedStream, Decoding!Spec

-----------------------------------------------------------------------------
(* The output file.  Its lines come from the thread that sees every frame: *)
(* the worker if there is one, and are for frames that thread is done with.*)

Writer == IF HasWorker THEN "worker" ELSE "main"

NextLine == IF HasWorker THEN Decoding!Expected ELSE Stream!Expected

WrittenSoFar == \A i \in DOMAIN output : /\ output[i].by = Writer
                                         /\ output[i].frame_id < NextLine

OutputInv == WrittenSoFar /\ OneWriterInOrder

LEMMA ExpectedType ==
  ASSUME IInv
  PROVE  Decoding!Expected \in Nat /\ Stream!Expected \in Nat
  <1>1. /\ dispatched # <<>> => dispatched[Len(dispatched)] \in Frames
        /\ decoded # <<>> => decoded[Len(decoded)] \in Frames
    BY QueueTypes, LastType
  <1> QED
    BY <1>1, WorkerAssumption DEF Decoding!Expected, Stream!Expected

(* A line for the next frame, or for a later one. *)
LEMMA LineInOrder ==
  ASSUME IInv, OutputInv, NEW f \in Frames, f.frame_id >= NextLine,
         output' = Append(output, [by |-> Writer, frame_id |-> f.frame_id]),
         Writer' = Writer, NextLine' = f.frame_id + 1
  PROVE  OutputInv'
  <1> DEFINE l == [by |-> Writer, frame_id |-> f.frame_id]
  <1>1. f.frame_id \in Nat /\ NextLine \in Nat
    BY WorkerAssumption, ExpectedType DEF NextLine
  <1>2. l.by = Writer /\ l.frame_id = f.frame_id /\ l \in Line
    BY <1>1 DEF Line, Writer
  <1>3. output \in Seq(Line) /\ output' = Append(output, l)
    BY OutputType DEF IInv
  <1> HIDE DEF l
  <1> DEFINE n == Len(output)
  <1>4. /\ n \in Nat /\ DOMAIN output = 1..n /\ DOMAIN output' = 1..(n + 1)
        /\ \A i \in 1..n : output'[i] = output[i] /\ output[i] \in Line
        /\ output'[n + 1] = l
    BY <1>2, <1>3
  <1>5. \A i \in 1..n : output[i].frame_id \in Nat
    BY <1>4 DEF Line
  <1> HIDE DEF n
  <1>6. WrittenSoFar'
    <2> SUFFICES ASSUME NEW i \in 1..(n + 1)
                 PROVE  /\ output'[i].by = Writer
                        /\ output'[i].frame_id < f.frame_id + 1
      BY <1>4 DEF WrittenSoFar
    <2>1. CASE i \in 1..n
      BY SMTT(30), <1>1, <1>4, <1>5, <2>1 DEF OutputInv, WrittenSoFar
    <2>2. CASE i = n + 1
      BY <1>1, <1>2, <1>4, <2>2
    <2> QED
      BY <1>4, <2>1, <2>2
  <1>7. OneWriterInOrder'
    <2> SUFFICES ASSUME NEW i \in 1..(n + 1), NEW j \in 1..(n + 1), i < j
                 PROVE  /\ output'[i].by = output'[j].by
                        /\ output'[i].frame_id < output'[j].frame_id
      BY <1>4 DEF OneWriterInOrder
    <2>1. i \in 1..n
      BY <1>4
    <2>2. CASE j \in 1..n
      BY <1>4, <2>1, <2>2 DEF OutputInv, OneWriterInOrder
    <2>3. CASE j = n + 1
      <3>1. output[i].by = Writer /\ output[i].frame_id < NextLine
        BY <1>4, <2>1 DEF OutputInv, WrittenSoFar
      <3> QED
        BY <1>1, <1>2, <1>4, <1>5, <2>1, <2>3, <3>1
    <2> QED
      BY <1>4, <2>2, <2>3
  <1> QED
    BY <1>6, <1>7 DEF OutputInv

LEMMA OutputStep ==
  IInv /\ NothingLost /\ Linked /\ OutputInv /\ [Next]_vars => OutputInv'
  <1> SUFFICES ASSUME IInv, NothingLost, Linked, OutputInv, [Next]_vars
               PROVE  OutputInv'
    OBVIOUS
  <1>0. lazy_level' = lazy_level
    BY DEF Next, vars, MainHandOver, WorkerStep, MainConsume, MainLock, MainPush,
           MainUnlock, MainNotify, WorkerTop, WorkerLock, WorkerWait, WorkerTake,
           WorkerUnlock, WorkerDecode, WorkerBatchDone, SpuriousWakeup
  <1>1. (HasWorker' <=> HasWorker) /\ Writer' = Writer
    BY <1>0 DEF HasWorker, Writer
  <1>2. CASE MainConsume /\ ~HasWorker
    <2>1. PICK f \in Frames :
            /\ Stream!Dispatch(f)
            /\ output' = Append(output, [by |-> "main",
                                         frame_id |-> f.frame_id])
      BY <1>2 DEF MainConsume, MainOutput
    <2>2. Stream!Decodable(f) /\ dispatched' = Append(dispatched, f)
      BY <2>1 DEF Stream!Dispatch
    <2>3. dispatched' # <<>> /\ dispatched'[Len(dispatched')] = f
      BY SMTT(30), <2>2, QueueTypes, AppendProperties, EmptySeq, LenProperties
    <2>4. Stream!Expected' = f.frame_id + 1
      BY <2>3 DEF Stream!Expected
    <2>5. f.frame_id >= Stream!Expected
      BY <2>2, WorkerAssumption, ExpectedType DEF Stream!Decodable
    <2>6. Writer = "main" /\ NextLine = Stream!Expected
          /\ NextLine' = Stream!Expected'
      BY <1>1, <1>2 DEF Writer, NextLine
    <2> QED
      BY <1>1, <2>1, <2>4, <2>5, <2>6, LineInOrder
  <1>3. CASE WorkerDecode /\ FitsDecodeBuf(Head(local_queue))
    <2> DEFINE h == Head(local_queue)
    <2>1. output' = Append(output, [by |-> "worker", frame_id |-> h.frame_id])
      BY <1>3 DEF WorkerDecode
    <2>2. /\ HasWorker /\ h \in Frames
          /\ decoded' # <<>> /\ decoded'[Len(decoded')] = h
          /\ Decoding!Decodable(h)
      BY <1>3, DecodeFacts
    <2> HIDE DEF h
    <2>3. Decoding!Expected' = h.frame_id + 1
      BY <2>2 DEF Decoding!Expected
    <2>4. h.frame_id >= Decoding!Expected
      BY <2>2, WorkerAssumption, ExpectedType DEF Decoding!Decodable
    <2>5. Writer = "worker" /\ NextLine = Decoding!Expected
          /\ NextLine' = Decoding!Expected'
      BY <1>1, <2>2 DEF Writer, NextLine
    <2> QED
      BY <1>1, <2>1, <2>2, <2>3, <2>4, <2>5, LineInOrder
  <1>4. CASE /\ output' = output
             /\ decoded' = decoded
             /\ dispatched' = dispatched \/ HasWorker
    <2>1. NextLine' = NextLine
      BY <1>1, <1>4 DEF NextLine, Decoding!Expected, Stream!Expected
    <2> QED
      BY <1>1, <1>4, <2>1 DEF OutputInv, WrittenSoFar, OneWriterInOrder
  <1>5. CASE MainConsume /\ HasWorker
    BY <1>4, <1>5 DEF MainConsume, MainOutput
  <1>6. CASE WorkerDecode /\ ~FitsDecodeBuf(Head(local_queue))
    BY <1>4, <1>6 DEF WorkerDecode
  <1>7. CASE MainHandOver \/ SpuriousWakeup \/ UNCHANGED vars
    BY <1>4, <1>7 DEF MainHandOver, MainLock, MainPush, MainUnlock,
                      MainNotify, SpuriousWakeup, vars
  <1>8. CASE WorkerStep /\ ~WorkerDecode
    BY <1>4, <1>8 DEF WorkerStep, WorkerTop, WorkerLock, WorkerWait,
                      WorkerTake, WorkerUnlock, WorkerBatchDone
  <1> QED
    BY <1>2, <1>3, <1>5, <1>6, <1>7, <1>8 DEF Next, WorkerStep

(* One thread writes the output file, one line per frame, in the order of  *)
(* the frames.                                                             *)
THEOREM OneThreadOutputs == Spec => []OneWriterInOrder
  <1>1. Init => OutputInv
    <2>1. Init => output = <<>>
      BY DEF Init
    <2> QED
      BY <2>1 DEF OutputInv, WrittenSoFar, OneWriterInOrder
  <1>2. OutputInv => OneWriterInOrder
    BY DEF OutputInv
  <1> QED
    BY <1>1, <1>2, InitInv, StepInv, NothingLostInit, NothingLostStep,
       LinkedInit, LinkedStep, OutputStep, PTL DEF Spec
=============================================================================
