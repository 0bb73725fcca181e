----------------------------- MODULE VideoSender -----------------------------
(***************************************************************************)
(* The event loop of video_sender: four callbacks on a Poller.  Here the   *)
(* encoder is reduced to the number of datagrams in its send buffer (its   *)
(* own logic is in Encoder); the question is whether the loop always wakes *)
(* up when there is something to do, and sleeps when there is not.  The    *)
(* socket is connected, so that the kernel hands it the errors the peer's  *)
(* host sends back (ICMP, when the receiver is gone): the next send or     *)
(* receive fails with it, and the exception ends the program.              *)
(***************************************************************************)
EXTENDS Poller, Sequences

CONSTANTS
  MaxFrags,     \* datagrams per frame
  MaxRtx,       \* datagrams one ACK may put back
  MaxExpired,   \* bound: expirations of the frame timer
  MaxMsgs       \* bound: messages received

ASSUME VideoSenderAssumption ==
  /\ MaxFrags \in Nat \ {0}
  /\ MaxRtx \in Nat
  /\ MaxExpired \in Nat
  /\ MaxMsgs \in Nat

VARIABLES
  send_buf,      \* datagrams in encoder.send_buf()
  expired,       \* frame timer: expirations since the last read
  stats_due,     \* the statistics timer has expired
  inbox,         \* messages in the socket's receive buffer
  writable,      \* the socket's send buffer has room
  sock_error,    \* an error is waiting on the socket
  ended,         \* the program has thrown
  total_expired, total_msgs   \* so far, for the bounds

errorVars == <<sock_error, ended>>
loopVars == <<send_buf, expired, stats_due, inbox, writable, errorVars,
              total_expired, total_msgs>>
senderVars == <<pollerVars, loopVars>>

udp_sock    == "udp_sock"
fps_timer   == "fps_timer"
stats_timer == "stats_timer"

(* main registers the four callbacks, which activates their events. *)
Registered ==
  LET r1 == WithEvent([fd \in {} |-> {}], fps_timer, In)
      r2 == WithEvent(r1, udp_sock, Out)
      r3 == WithEvent(r2, udp_sock, In)
  IN WithEvent(r3, stats_timer, In)

SenderInit == /\ roster = Registered
              /\ active_events = Registered
              /\ fds_to_deregister = {}
              /\ poll_pc = "idle"
              /\ polled = {}
              /\ revents = {}
              /\ current = {}
              /\ send_buf = 0
              /\ expired = 0
              /\ stats_due = FALSE
              /\ inbox = <<>>
              /\ writable = TRUE
              /\ sock_error = FALSE
              /\ ended = FALSE
              /\ total_expired = 0
              /\ total_msgs = 0

-----------------------------------------------------------------------------
(* Mutant: a frame does not arm the socket. *)
ArmedUnchanged == active_events

(* "activate if there are datagrams to send", after a frame or an ACK. *)
ArmedIfPending == IF send_buf' > 0
                  THEN Activated(udp_sock, Out)
                  ELSE active_events

(* Mutant: the socket stays armed. *)
DisarmedNever == active_events

DisarmedIfEmpty == IF send_buf' = 0
                   THEN Deactivated(udp_sock, Out)
                   ELSE active_events

(* The frame timer: all expirations are read at once, the last raw frame   *)
(* is compressed, and the encoder may have dropped its buffer before.      *)
OnFrameTimer ==
  /\ RunCallback(fps_timer, In)
  /\ expired' = 0
  /\ \E n \in 1..MaxFrags : send_buf' \in {send_buf + n, n}
  /\ active_events' = ArmedIfPending
  /\ UNCHANGED <<stats_due, inbox, writable, errorVars, total_expired,
                 total_msgs>>

(* Writable: send until the buffer is empty or the socket's is full.  A    *)
(* socket reported writable takes at least one datagram.                   *)
OnWritable ==
  /\ RunCallback(udp_sock, Out)
  /\ sock_error => send_buf = 0
  /\ \E left \in 0..send_buf :
       /\ send_buf > 0 => left < send_buf
       /\ send_buf' = left
       /\ writable' \in {w \in BOOLEAN : left > 0 => ~w}
  /\ active_events' = DisarmedIfEmpty
  /\ UNCHANGED <<expired, stats_due, inbox, errorVars, total_expired,
                 total_msgs>>

(* Mutant: any error of a send is taken for a full send buffer. *)
SendThrowsNot ==
  /\ RunCallback(udp_sock, Out)
  /\ sock_error /\ send_buf > 0
  /\ sock_error' = FALSE
  /\ UNCHANGED <<active_events, send_buf, expired, stats_due, inbox, writable,
                 ended, total_expired, total_msgs>>

(* send fails with the error, which is not EWOULDBLOCK. *)
SendThrows ==
  /\ RunCallback(udp_sock, Out)
  /\ sock_error /\ send_buf > 0
  /\ sock_error' = FALSE
  /\ ended' = TRUE
  /\ UNCHANGED <<active_events, send_buf, expired, stats_due, inbox, writable,
                 total_expired, total_msgs>>

(* Mutant: a message that is not an ACK turns reading off. *)
OnReadableOnce ==
  /\ RunCallback(udp_sock, In)
  /\ ~sock_error
  /\ \E read \in 1..Len(inbox) :
       LET others == {i \in 1..read : inbox[i] = "other"}
       IN /\ IF others = {} THEN read = Len(inbox) ELSE others = {read}
          /\ inbox' = SubSeq(inbox, read + 1, Len(inbox))
          /\ active_events' = IF others = {} THEN active_events
                              ELSE Deactivated(udp_sock, In)
  /\ UNCHANGED <<send_buf, expired, stats_due, writable, errorVars,
                 total_expired, total_msgs>>

(* Readable: handle ACKs until there are none or another message has been  *)
(* read, at which the handler returns.  An ACK may put datagrams back.     *)
OnReadable ==
  /\ RunCallback(udp_sock, In)
  /\ ~sock_error
  /\ \E read \in 1..Len(inbox) :
       LET others == {i \in 1..read : inbox[i] = "other"}
           acked == read - Cardinality(others)
       IN /\ IF others = {} THEN read = Len(inbox) ELSE others = {read}
          /\ inbox' = SubSeq(inbox, read + 1, Len(inbox))
          /\ \E n \in 0..(acked * MaxRtx) : send_buf' = send_buf + n
          /\ active_events' = IF acked > 0 THEN ArmedIfPending
                                           ELSE active_events
  /\ UNCHANGED <<expired, stats_due, writable, errorVars, total_expired,
                 total_msgs>>

(* recv fails with the error before it looks at the messages. *)
RecvThrows ==
  /\ RunCallback(udp_sock, In)
  /\ sock_error
  /\ sock_error' = FALSE
  /\ ended' = TRUE
  /\ UNCHANGED <<active_events, send_buf, expired, stats_due, inbox, writable,
                 total_expired, total_msgs>>

OnStatsTimer ==
  /\ RunCallback(stats_timer, In)
  /\ stats_due' = FALSE
  /\ UNCHANGED <<active_events, send_buf, expired, inbox, writable, errorVars,
                 total_expired, total_msgs>>

-----------------------------------------------------------------------------
(* The kernel. *)

Happened == (IF expired > 0 THEN {<<fps_timer, In>>} ELSE {})
              \cup (IF stats_due THEN {<<stats_timer, In>>} ELSE {})
              \cup (IF inbox # <<>> THEN {<<udp_sock, In>>} ELSE {})
              \cup (IF writable THEN {<<udp_sock, Out>>} ELSE {})

TimerExpires ==
  /\ total_expired < MaxExpired
  /\ expired' = expired + 1
  /\ total_expired' = total_expired + 1
  /\ UNCHANGED <<pollerVars, send_buf, stats_due, inbox, writable, errorVars,
                 total_msgs>>

StatsTimerExpires ==
  /\ stats_due' = TRUE
  /\ UNCHANGED <<pollerVars, send_buf, expired, inbox, writable, errorVars,
                 total_expired, total_msgs>>

MessageArrives ==
  /\ total_msgs < MaxMsgs
  /\ \E m \in {"ack", "other"} : inbox' = Append(inbox, m)
  /\ total_msgs' = total_msgs + 1
  /\ UNCHANGED <<pollerVars, send_buf, expired, stats_due, writable, errorVars,
                 total_expired>>

SocketDrains ==
  /\ ~writable
  /\ writable' = TRUE
  /\ UNCHANGED <<pollerVars, send_buf, expired, stats_due, inbox, errorVars,
                 total_expired, total_msgs>>

(* An error comes back for a datagram, so not before the first frame. *)
ErrorArrives ==
  /\ total_expired > 0
  /\ ~sock_error
  /\ sock_error' = TRUE
  /\ UNCHANGED <<pollerVars, send_buf, expired, stats_due, inbox, writable,
                 ended, total_expired, total_msgs>>

-----------------------------------------------------------------------------
Poll ==
  /\ ~ended
  /\ \/ (PollBegin \/ PollEnd) /\ UNCHANGED loopVars
     \/ /\ PollReturn(Happened, IF sock_error THEN {udp_sock} ELSE {})
        /\ UNCHANGED loopVars
     \/ OnFrameTimer
     \/ OnWritable \/ SendThrows
     \/ OnReadable \/ RecvThrows
     \/ OnStatsTimer

SenderNext == \/ Poll
              \/ TimerExpires \/ StatsTimerExpires
              \/ MessageArrives \/ SocketDrains \/ ErrorArrives

(* The process is scheduled and the network takes what it is given.        *)
SenderFairness == WF_senderVars(Poll) /\ WF_senderVars(SocketDrains)

SenderSpec == SenderInit /\ [][SenderNext]_senderVars /\ SenderFairness

-----------------------------------------------------------------------------
(* The loop never sleeps on unsent datagrams: poll(2) is entered with      *)
(* POLLOUT on the socket whenever the send buffer is not empty, whichever  *)
(* callbacks ran before and in whatever order.                             *)
ArmedWhilePending ==
  poll_pc = "blocked" /\ send_buf > 0 => <<udp_sock, Out>> \in polled

(* A datagram in the send buffer is sent in the end, unless the peer is    *)
(* gone and the program has stopped.                                       *)
SendBufDrained == send_buf > 0 ~> send_buf = 0 \/ ended

(* A peer that is gone is noticed: an error that waits on the socket while *)
(* there is something to send ends the program.  poll(2) reports it at     *)
(* once, but runs no callback for it.                                      *)
ErrorNoticed == sock_error /\ send_buf > 0 ~> ended

(* A message is read in the end, although the readable callback returns    *)
(* after one that is not an ACK and leaves the rest in the socket.         *)
InboxDrained == inbox # <<>> ~> inbox = <<>> \/ ended

(* The loop does not spin: with nothing to send, POLLOUT is soon not asked *)
(* for any more.                                                           *)
NoBusyLoop ==
  send_buf = 0 /\ Out \in active_events[udp_sock]
    ~> send_buf > 0 \/ Out \notin active_events[udp_sock] \/ ended
=============================================================================
