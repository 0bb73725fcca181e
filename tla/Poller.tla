------------------------------- MODULE Poller -------------------------------
(***************************************************************************)
(* class Poller: callbacks on file descriptors, driven by poll(2).         *)
(*                                                                         *)
(* One call of Poller::poll is several steps: PollBegin up to the system   *)
(* call, which takes down what is asked of the kernel; PollReturn, where   *)
(* the kernel has answered; one step per callback, which the owner of the  *)
(* poller conjoins with RunCallback; and PollEnd.                          *)
(***************************************************************************)
EXTENDS Integers, FiniteSets

In   == "In"
Out  == "Out"
Flag == {In, Out}

VARIABLES
  roster,              \* roster_: fd -> flags that have a callback
  active_events,       \* active_events_: fd -> flags asked for
  fds_to_deregister,   \* fds_to_deregister_
  poll_pc,             \* "idle", "blocked" in poll(2), or "dispatch"
  polled,              \* fds_to_poll: pairs <<fd, flag>> asked for
  revents,             \* pairs <<fd, flag>> the kernel answered, still to run
  current              \* the fds whose callbacks have begun in this round

pollerVars == <<roster, active_events, fds_to_deregister, poll_pc, polled,
                revents, current>>

-----------------------------------------------------------------------------
(* register_event also activates.  WithEvent gives roster_ or              *)
(* active_events_ after it.  It throws on an event that has a callback.    *)
RegisterThrows(fd, flag) == fd \in DOMAIN roster /\ flag \in roster[fd]

WithEvent(map, fd, flag) ==
  [f \in DOMAIN map \cup {fd} |->
     IF f # fd THEN map[f]
     ELSE (IF fd \in DOMAIN map THEN map[fd] ELSE {}) \cup {flag}]

(* activate and deactivate; both throw on an fd that is not registered. *)
Activated(fd, flag) == [active_events EXCEPT ![fd] = @ \cup {flag}]

Deactivated(fd, flag) == [active_events EXCEPT ![fd] = @ \ {flag}]

-----------------------------------------------------------------------------
(* do_deregister *)
Kept(map) == [fd \in DOMAIN map \ fds_to_deregister |-> map[fd]]

(* Mutant: the list is made before the fds are deregistered. *)
PollBeginStale ==
  /\ poll_pc = "idle"
  /\ roster' = Kept(roster)
  /\ active_events' = Kept(active_events)
  /\ fds_to_deregister' = {}
  /\ polled' = UNION {{fd} \X active_events[fd] : fd \in DOMAIN active_events}
  /\ poll_pc' = "blocked"
  /\ UNCHANGED <<revents, current>>

PollBegin ==
  /\ poll_pc = "idle"
  /\ roster' = Kept(roster)
  /\ active_events' = Kept(active_events)
  /\ fds_to_deregister' = {}
  /\ polled' = UNION {{fd} \X active_events'[fd] : fd \in DOMAIN active_events'}
  /\ poll_pc' = "blocked"
  /\ UNCHANGED <<revents, current>>

(* Mutant: revents is compared with the flag, not tested for it. *)
PollReturnExact(happened, errors) ==
  /\ poll_pc = "blocked"
  /\ revents' = {e \in polled \cap happened :
                   \A d \in polled \cap happened : d[1] = e[1] => d = e}
  /\ \E e \in polled : e \in happened \/ e[1] \in errors
  /\ poll_pc' = "dispatch"
  /\ UNCHANGED <<roster, active_events, fds_to_deregister, polled, current>>

(* The kernel answers with the events that were asked for and have         *)
(* happened, at least one because the timeout is infinite.  It also        *)
(* answers on the errors of an fd it was asked about (POLLERR, POLLHUP,    *)
(* POLLNVAL), for which there are no callbacks.                            *)
PollReturn(happened, errors) ==
  /\ poll_pc = "blocked"
  /\ revents' = polled \cap happened
  /\ \E e \in polled : e \in happened \/ e[1] \in errors
  /\ poll_pc' = "dispatch"
  /\ UNCHANGED <<roster, active_events, fds_to_deregister, polled, current>>

(* The callbacks run fd by fd, the fds and the flags of one fd in the      *)
(* order of a hash table.  The owner's handler says what becomes of        *)
(* active_events.                                                          *)
RunCallback(fd, flag) ==
  /\ poll_pc = "dispatch"
  /\ <<fd, flag>> \in revents
  /\ flag \in roster[fd]
  /\ fd \in current \/ ~\E e \in revents : e[1] \in current
  /\ revents' = revents \ {<<fd, flag>>}
  /\ current' = {fd}
  /\ UNCHANGED <<roster, fds_to_deregister, poll_pc, polled>>

(* An event that was activated but has no callback is passed over. *)
PassOver(fd, flag) ==
  /\ poll_pc = "dispatch"
  /\ <<fd, flag>> \in revents
  /\ flag \notin roster[fd]
  /\ fd \in current \/ ~\E e \in revents : e[1] \in current
  /\ revents' = revents \ {<<fd, flag>>}
  /\ UNCHANGED <<roster, active_events, fds_to_deregister, poll_pc, polled,
                 current>>

PollEnd ==
  /\ poll_pc = "dispatch"
  /\ revents = {}
  /\ poll_pc' = "idle"
  /\ polled' = {}
  /\ current' = {}
  /\ UNCHANGED <<roster, active_events, fds_to_deregister, revents>>
=============================================================================
