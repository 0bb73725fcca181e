---------------------------- MODULE DecoderWorker ----------------------------
(***************************************************************************)
(* The hand-over of complete frames from the receiver's main thread to its *)
(* worker thread: Decoder::consume_next_frame on one side,                 *)
(* Decoder::worker_main on the other, a deque, a mutex and a condition     *)
(* variable between them.                                                  *)
(*                                                                         *)
(* A step is what a thread does between two points where the other one can *)
(* notice.  Which frames the main thread hands over is left open: any      *)
(* stream that VideoStream allows, which is what Decoder implements.       *)
(***************************************************************************)
EXTENDS Integers, Sequences

CONSTANTS
  Frames,            \* the frames the main thread may find complete
  KeyType,           \* FrameType::KEY
  MAX_DECODING_BUF,  \* bytes in decode_buf
  MaxDispatched      \* bound: frames handed over

ASSUME WorkerAssumption ==
  /\ \A f \in Frames : f.frame_id \in Nat /\ f.size \in Nat
  /\ MAX_DECODING_BUF \in Nat
  /\ MaxDispatched \in Nat

DECODE_DISPLAY    == 0
DECODE_ONLY       == 1
NO_DECODE_DISPLAY == 2

VARIABLES
  lazy_level,     \* lazy_level_, fixed by the constructor
  main_pc,        \* where the main thread is in consume_next_frame
  worker_pc,      \* where the worker thread is in worker_main
  mtx,            \* who owns mtx_: "main", "worker" or "none"
  shared_queue,   \* shared_queue_
  local_queue,    \* the worker's local_queue
  display,        \* the worker's display exists
  dispatched,     \* frames consumed by the main thread, oldest first
  decoded,        \* frames decoded by the worker, oldest first
  output,         \* lines of the output file: who wrote it, for which frame
  process_up      \* no exception has left either thread

vars == <<lazy_level, main_pc, worker_pc, mtx, shared_queue,
          local_queue, display, dispatched, decoded, output, process_up>>

Stream == INSTANCE VideoStream

HasWorker == lazy_level <= DECODE_ONLY

(* The frame the main thread is handing over: the last one it consumed. *)
frame == dispatched[Len(dispatched)]

-----------------------------------------------------------------------------
(* Main thread: consume_next_frame. *)

(* Mutant: the main thread writes its line whoever else does. *)
MainOutputAlways(f) == Append(output, [by |-> "main", frame_id |-> f.frame_id])

MainOutput(f) == IF HasWorker
                 THEN output
                 ELSE Append(output, [by |-> "main", frame_id |-> f.frame_id])

(* A frame is found complete.  Without a worker the main thread only       *)
(* writes it to the output file; with one it goes on to the queue.         *)
MainConsume ==
  /\ process_up
  /\ main_pc = "run"
  /\ Len(dispatched) < MaxDispatched
  /\ \E f \in Frames :
       /\ Stream!Dispatch(f)
       /\ output' = MainOutput(f)
  /\ main_pc' = IF HasWorker THEN "lock" ELSE "run"
  /\ UNCHANGED <<lazy_level, worker_pc, mtx, shared_queue, local_queue,
                 display, decoded, process_up>>

MainLock ==
  /\ process_up
  /\ main_pc = "lock"
  /\ mtx = "none"
  /\ mtx' = "main"
  /\ main_pc' = "push"
  /\ UNCHANGED <<lazy_level, worker_pc, shared_queue, local_queue,
                 display, dispatched, decoded, output, process_up>>

(* Mutant: the new frame goes to the front. *)
MainPushFront ==
  /\ process_up
  /\ main_pc = "push"
  /\ shared_queue' = <<frame>> \o shared_queue
  /\ main_pc' = "unlock"
  /\ UNCHANGED <<lazy_level, worker_pc, mtx, local_queue, display,
                 dispatched, decoded, output, process_up>>

MainPush ==
  /\ process_up
  /\ main_pc = "push"
  /\ shared_queue' = Append(shared_queue, frame)
  /\ main_pc' = "unlock"
  /\ UNCHANGED <<lazy_level, worker_pc, mtx, local_queue, display,
                 dispatched, decoded, output, process_up>>

(* Mutant: no notification. *)
MainUnlockOnly ==
  /\ process_up
  /\ main_pc = "unlock"
  /\ mtx' = "none"
  /\ main_pc' = "run"
  /\ UNCHANGED <<lazy_level, worker_pc, shared_queue, local_queue,
                 display, dispatched, decoded, output, process_up>>

MainUnlock ==
  /\ process_up
  /\ main_pc = "unlock"
  /\ mtx' = "none"
  /\ main_pc' = "notify"
  /\ UNCHANGED <<lazy_level, worker_pc, shared_queue, local_queue,
                 display, dispatched, decoded, output, process_up>>

(* notify_one wakes the worker if it waits and does nothing otherwise. *)
MainNotify ==
  /\ process_up
  /\ main_pc = "notify"
  /\ worker_pc' = IF worker_pc = "waiting" THEN "lock" ELSE worker_pc
  /\ main_pc' = "run"
  /\ UNCHANGED <<lazy_level, mtx, shared_queue, local_queue, display,
                 dispatched, decoded, output, process_up>>

-----------------------------------------------------------------------------
(* Worker thread: worker_main. *)

(* The user may have closed the window. *)
WorkerTop ==
  /\ process_up
  /\ worker_pc = "top"
  /\ display' \in {display, FALSE}
  /\ worker_pc' = "lock"
  /\ UNCHANGED <<lazy_level, main_pc, mtx, shared_queue, local_queue,
                 dispatched, decoded, output, process_up>>

(* Locks the mutex, the first time or on return from a wait. *)
WorkerLock ==
  /\ process_up
  /\ worker_pc = "lock"
  /\ mtx = "none"
  /\ mtx' = "worker"
  /\ worker_pc' = "locked"
  /\ UNCHANGED <<lazy_level, main_pc, shared_queue, local_queue,
                 display, dispatched, decoded, output, process_up>>

(* The predicate is false: release the mutex and wait, in one step. *)
WorkerWait ==
  /\ process_up
  /\ worker_pc = "locked"
  /\ shared_queue = <<>>
  /\ mtx' = "none"
  /\ worker_pc' = "waiting"
  /\ UNCHANGED <<lazy_level, main_pc, shared_queue, local_queue,
                 display, dispatched, decoded, output, process_up>>

(* A condition variable may wake its waiter for no reason. *)
SpuriousWakeup ==
  /\ process_up
  /\ worker_pc = "waiting"
  /\ worker_pc' = "lock"
  /\ UNCHANGED <<lazy_level, main_pc, mtx, shared_queue, local_queue,
                 display, dispatched, decoded, output, process_up>>

(* Mutant: only the newest frame is moved. *)
TakenNewest == Append(local_queue, shared_queue[Len(shared_queue)])

Taken == local_queue \o shared_queue

(* The predicate is true: move everything to the local queue. *)
WorkerTake ==
  /\ process_up
  /\ worker_pc = "locked"
  /\ shared_queue # <<>>
  /\ local_queue' = Taken
  /\ shared_queue' = <<>>
  /\ worker_pc' = "unlock"
  /\ UNCHANGED <<lazy_level, main_pc, mtx, display, dispatched,
                 decoded, output, process_up>>

WorkerUnlock ==
  /\ process_up
  /\ worker_pc = "unlock"
  /\ mtx' = "none"
  /\ worker_pc' = "decode"
  /\ UNCHANGED <<lazy_level, main_pc, shared_queue, local_queue,
                 display, dispatched, decoded, output, process_up>>

(* decode_frame copies the fragments one after the other and throws when   *)
(* the end of one would reach the end of the buffer.                       *)
FitsDecodeBuf(f) == f.size < MAX_DECODING_BUF

(* Decode, write a line and pop; an exception in the thread ends the       *)
(* process.                                                                *)
WorkerDecode ==
  /\ process_up
  /\ worker_pc = "decode"
  /\ local_queue # <<>>
  /\ LET f == Head(local_queue)
         ok == FitsDecodeBuf(f)
     IN /\ process_up' = ok
        /\ decoded' = IF ok THEN Append(decoded, f) ELSE decoded
        /\ output' = IF ok
                     THEN Append(output, [by |-> "worker",
                                          frame_id |-> f.frame_id])
                     ELSE output
        /\ local_queue' = IF ok THEN Tail(local_queue) ELSE local_queue
  /\ UNCHANGED <<lazy_level, main_pc, worker_pc, mtx, shared_queue,
                 display, dispatched>>

WorkerBatchDone ==
  /\ process_up
  /\ worker_pc = "decode"
  /\ local_queue = <<>>
  /\ worker_pc' = "top"
  /\ UNCHANGED <<lazy_level, main_pc, mtx, shared_queue, local_queue,
                 display, dispatched, decoded, output, process_up>>

-----------------------------------------------------------------------------
Init == /\ lazy_level \in {DECODE_DISPLAY, DECODE_ONLY, NO_DECODE_DISPLAY}
        /\ main_pc = "run"
        /\ worker_pc = IF HasWorker THEN "top" ELSE "not started"
        /\ mtx = "none"
        /\ shared_queue = <<>>
        /\ local_queue = <<>>
        /\ display = (lazy_level = DECODE_DISPLAY)
        /\ dispatched = <<>>
        /\ decoded = <<>>
        /\ output = <<>>
        /\ process_up = TRUE

MainHandOver == MainLock \/ MainPush \/ MainUnlock \/ MainNotify

WorkerStep == \/ WorkerTop \/ WorkerLock \/ WorkerWait \/ WorkerTake
              \/ WorkerUnlock \/ WorkerDecode \/ WorkerBatchDone

Next == MainConsume \/ MainHandOver \/ WorkerStep \/ SpuriousWakeup

(* Both threads are scheduled, and a thread that tries to lock a mutex     *)
(* that is free again and again gets it.  Nothing makes a new frame come,  *)
(* and nothing makes a wait end without a notification.                    *)
Fairness == /\ WF_vars(MainHandOver) /\ SF_vars(MainLock)
            /\ WF_vars(WorkerStep) /\ SF_vars(WorkerLock)

Spec == Init /\ [][Next]_vars /\ Fairness

-----------------------------------------------------------------------------
(* Every variable keeps its type. *)
TypeOK == /\ lazy_level \in 0..2
          /\ main_pc \in {"run", "lock", "push", "unlock", "notify"}
          /\ worker_pc \in {"not started", "top", "lock", "locked", "waiting",
                            "unlock", "decode"}
          /\ mtx \in {"none", "main", "worker"}
          /\ shared_queue \in Seq(Frames)
          /\ local_queue \in Seq(Frames)
          /\ display \in BOOLEAN
          /\ dispatched \in Seq(Frames)
          /\ decoded \in Seq(Frames)
          /\ output \in Seq([by : {"main", "worker"}, frame_id : Nat])
          /\ process_up \in BOOLEAN

(* shared_queue_ is only touched by the owner of mtx_.                     *)
MutualExclusion ==
  /\ main_pc \in {"push", "unlock"} <=> mtx = "main"
  /\ worker_pc \in {"locked", "unlock"} <=> mtx = "worker"

(* No wakeup is lost, although the main thread notifies after it released  *)
(* the lock: while the worker waits and the queue is not empty, a          *)
(* notification is still to come.                                          *)
NoLostWakeup ==
  worker_pc = "waiting" /\ shared_queue # <<>> => main_pc \in {"unlock", "notify"}

(* The frame the main thread has consumed and not yet put into the queue.  *)
InHand == IF HasWorker /\ main_pc \in {"lock", "push"} THEN <<frame>> ELSE <<>>

(* The two queues neither lose nor repeat nor reorder a frame.             *)
NothingLost ==
  HasWorker => dispatched = decoded \o local_queue \o shared_queue \o InHand

(* "only one thread should output" (decoder.hh), and it writes the frames  *)
(* in the order of their IDs, each once.                                   *)
OneWriterInOrder ==
  \A i, j \in DOMAIN output :
    i < j => /\ output[i].by = output[j].by
             /\ output[i].frame_id < output[j].frame_id

(* What the worker decodes is a decodable stream.                          *)
Decoding == INSTANCE VideoStream WITH dispatched <- decoded
DecodedStream == Decoding!Spec

(* Every frame handed over is decoded in the end, unless the process has   *)
(* ended on a frame that fills the decoding buffer or is larger: no other  *)
(* frame ends it, and none before that one is lost.                        *)
EverythingDecoded ==
  \A n \in 1..MaxDispatched :
    HasWorker /\ Len(dispatched) >= n
      ~> \/ Len(decoded) >= n
         \/ /\ ~process_up
            /\ dispatched[Len(decoded) + 1].size >= MAX_DECODING_BUF
=============================================================================
