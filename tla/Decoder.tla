------------------------------- MODULE Decoder -------------------------------
(***************************************************************************)
(* The receiving half of a call: the main loop of video_receiver and the   *)
(* part of class Decoder that runs on the main thread.                     *)
(*                                                                         *)
(* A step is the receipt of one datagram (acknowledge it, put it into its  *)
(* frame) or one iteration of the loop that follows, which hands complete  *)
(* frames to the worker thread.  What the worker does is in DecoderWorker. *)
(***************************************************************************)
EXTENDS Protocol, FiniteSets

CONSTANT Incoming   \* the datagrams that may arrive

ASSUME IncomingAssumption == Incoming \subseteq WireDatagram

VARIABLES
  next_frame,    \* next_frame_: the next frame to dispatch
  frame_buf,     \* frame_buf_: frame ID -> Frame
  main_pc,       \* "recv" in recv(), "drain" in the loop after add_datagram
  dispatched,    \* the frames handed over so far, oldest first
  receiver_up,   \* no exception has left the main loop
  acks           \* every AckMsg handed to the network

decoderVars == <<next_frame, frame_buf, main_pc, dispatched, receiver_up>>
vars == <<decoderVars, acks>>

-----------------------------------------------------------------------------
(* class Frame.  Of each fragment only its ID is kept; null_frags counts   *)
(* the missing ones and frame_size adds up the payloads.                   *)

Frame == [frame_type : FrameType, frag_cnt : Nat, frags : SUBSET Nat,
          null_frags : Int, frame_size : Int]

NewFrame(w) == [frame_type |-> w.frame_type, frag_cnt |-> w.frag_cnt,
                frags |-> {}, null_frags |-> w.frag_cnt, frame_size |-> 0]

(* Mutant: the last fragment is out of range. *)
CompatibleButLast(f, w) == /\ w.frame_type = f.frame_type
                           /\ w.frag_id < f.frag_cnt - 1
                           /\ w.frag_cnt = f.frag_cnt

(* The constructor and validate_datagram throw unless this holds. *)
Compatible(f, w) == /\ w.frame_type = f.frame_type
                    /\ w.frag_id < f.frag_cnt
                    /\ w.frag_cnt = f.frag_cnt

(* Mutant: a duplicate is counted again. *)
InsertFragTwice(f, w) == [f EXCEPT !.frags = @ \cup {w.frag_id},
                                   !.null_frags = @ - 1,
                                   !.frame_size = @ + w.payload]

InsertFrag(f, w) == IF w.frag_id \in f.frags
                    THEN f
                    ELSE [frame_type |-> f.frame_type,
                          frag_cnt |-> f.frag_cnt,
                          frags |-> f.frags \cup {w.frag_id},
                          null_frags |-> f.null_frags - 1,
                          frame_size |-> f.frame_size + w.payload]

Complete(id) == id \in DOMAIN frame_buf /\ frame_buf[id].null_frags = 0

-----------------------------------------------------------------------------
(* add_datagram_common: the frame a datagram goes into, found in the       *)
(* buffer or made for it.                                                  *)

FrameOf(w) == IF w.frame_id \in DOMAIN frame_buf
              THEN frame_buf[w.frame_id]
              ELSE NewFrame(w)

(* The body of the main loop up to add_datagram.  The ACK goes out first,  *)
(* for a datagram of an old frame too.  An incompatible datagram ends the  *)
(* process; what it leaves in the buffer no longer matters.                *)
ReceiveDatagram(w) ==
  /\ receiver_up
  /\ main_pc = "recv"
  /\ acks' = acks \cup {AckMsg(w)}
  /\ \/ /\ w.frame_id < next_frame
        /\ UNCHANGED <<frame_buf, receiver_up>>
     \/ /\ w.frame_id >= next_frame
        /\ receiver_up' = Compatible(FrameOf(w), w)
        /\ frame_buf' = IF receiver_up'
                        THEN WithEntry(frame_buf, w.frame_id,
                                       InsertFrag(FrameOf(w), w))
                        ELSE frame_buf
  /\ main_pc' = "drain"
  /\ UNCHANGED <<next_frame, dispatched>>

-----------------------------------------------------------------------------
(* One iteration of "while (next_frame_complete()) consume_next_frame()".  *)

(* Mutant: the frames before the frontier stay. *)
CleanUpToNothing(frontier) == frame_buf

(* Mutant: the frame at the frontier goes too. *)
CleanUpToAndWith(frontier) ==
  [id \in {i \in DOMAIN frame_buf : i > frontier} |-> frame_buf[id]]

CleanUpTo(frontier) ==
  [id \in {i \in DOMAIN frame_buf : i >= frontier} |-> frame_buf[id]]

(* consume_next_frame and advance_next_frame, once next_frame_ is k. *)
Consume(k) ==
  /\ dispatched' = Append(dispatched,
                     [frame_id |-> k, frame_type |-> frame_buf[k].frame_type,
                      size |-> frame_buf[k].frame_size])
  /\ next_frame' = k + 1
  /\ frame_buf' = CleanUpTo(k + 1)
  /\ UNCHANGED <<main_pc, receiver_up, acks>>

ConsumeNext ==
  /\ receiver_up
  /\ main_pc = "drain"
  /\ Complete(next_frame)
  /\ Consume(next_frame)

(* Mutant: any complete frame will do. *)
CompleteKeyOrNot(k) == Complete(k)

(* next_frame_complete walks the buffer from its end and stops at the      *)
(* first complete key frame.                                               *)
CompleteKey(k) == Complete(k) /\ frame_buf[k].frame_type = KEY

LatestCompleteKey(k) == /\ CompleteKey(k)
                        /\ \A j \in DOMAIN frame_buf : CompleteKey(j) => j <= k

SkipToKey ==
  /\ receiver_up
  /\ main_pc = "drain"
  /\ ~Complete(next_frame)
  /\ \E k \in DOMAIN frame_buf : LatestCompleteKey(k) /\ Consume(k)

DrainDone ==
  /\ receiver_up
  /\ main_pc = "drain"
  /\ ~Complete(next_frame)
  /\ ~\E k \in DOMAIN frame_buf : CompleteKey(k)
  /\ main_pc' = "recv"
  /\ UNCHANGED <<next_frame, frame_buf, dispatched, receiver_up, acks>>

-----------------------------------------------------------------------------
Init == /\ next_frame = 0
        /\ frame_buf = [id \in {} |-> id]
        /\ main_pc = "recv"
        /\ dispatched = <<>>
        /\ receiver_up = TRUE
        /\ acks = {}

Drain == ConsumeNext \/ SkipToKey \/ DrainDone

Next == \/ \E w \in Incoming : ReceiveDatagram(w)
        \/ Drain

Spec == Init /\ [][Next]_vars

-----------------------------------------------------------------------------
DispatchedFrame == [frame_id : Nat, frame_type : FrameType, size : Int]

(* Every variable keeps its type; frame_buf_ maps frame IDs to frames.     *)
TypeOK == /\ next_frame \in Nat
          /\ DOMAIN frame_buf \subseteq Nat
          /\ \A id \in DOMAIN frame_buf : frame_buf[id] \in Frame
          /\ main_pc \in {"recv", "drain"}
          /\ dispatched \in Seq(DispatchedFrame)
          /\ receiver_up \in BOOLEAN
          /\ acks \subseteq {AckMsg(w) : w \in Incoming}

(* The fragments kept are fragments of the frame, and null_frags_ counts   *)
(* exactly the missing ones.                                               *)
CountedRight(f) == /\ f.frags \subseteq 0..(f.frag_cnt - 1)
                   /\ f.null_frags = f.frag_cnt - Cardinality(f.frags)

(* complete() is true of a frame only when all of it is there, however     *)
(* often its datagrams were duplicated.                                    *)
CompleteMeansWhole ==
  \A id \in DOMAIN frame_buf :
    /\ CountedRight(frame_buf[id])
    /\ Complete(id) => frame_buf[id].frags = 0..(frame_buf[id].frag_cnt - 1)

(* assert(frame_id > next_frame_) in next_frame_complete: the buffer holds *)
(* nothing older than next_frame_, so a complete key frame found while     *)
(* next_frame_ is incomplete lies ahead of it.                             *)
NoStaleFrames == \A id \in DOMAIN frame_buf : id >= next_frame

(* The frame of w has arrived, in whatever order and from whichever        *)
(* transmissions: all its fragments were acknowledged, and once the ACKs   *)
(* are in, the sender forgets them.                                        *)
AllAcknowledged(w) ==
  \A i \in 0..(w.frag_cnt - 1) :
    \E a \in acks : a.frame_id = w.frame_id /\ a.frag_id = i

(* It went to the worker, or a later key frame did in its place. *)
Settled(id) == \E i \in DOMAIN dispatched :
                 \/ dispatched[i].frame_id = id
                 \/ dispatched[i].frame_id > id /\ dispatched[i].frame_type = KEY

(* No frame is lost between its ACKs and the worker.  When the receiver    *)
(* blocks in recv(), a frame that was acknowledged as a whole is settled,  *)
(* or is a non-key frame that waits for one before it.  Reassembly,        *)
(* skipping and clean-up together must not forget a fragment, since one    *)
(* that was acknowledged may never come again.                             *)
NoAcknowledgedFrameLost ==
  main_pc = "recv" =>
    \A w \in Incoming :
      AllAcknowledged(w) => \/ Settled(w.frame_id)
                            \/ w.frame_id > next_frame /\ w.frame_type # KEY

(* What is dispatched is a decodable stream: skipping ahead to a key frame *)
(* drops frames but never leaves a non-key frame without its predecessor.  *)
Stream == INSTANCE VideoStream WITH KeyType <- KEY
StreamSpec == Stream!Spec
=============================================================================
