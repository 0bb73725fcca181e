------------------------------- MODULE Epoller -------------------------------
(***************************************************************************)
(* class Epoller: the interface of Poller over epoll(7).  It keeps the     *)
(* same maps, and the kernel keeps an interest list that must follow them. *)
(* The steps of Epoller::poll are those of Poller::poll: EpollBegin,       *)
(* EpollReturn, RunCallback and PollEnd.                                   *)
(***************************************************************************)
EXTENDS Poller

CONSTANT MAX_EVENTS    \* fds one epoll_wait reports

ASSUME EpollerAssumption == MAX_EVENTS \in Nat \ {0}

VARIABLES
  interest,   \* the kernel's interest list: fd -> events
  open        \* the fds that are open; close takes them off the list

-----------------------------------------------------------------------------
(* epoll_ctl: whether it fails, with EEXIST, ENOENT or EBADF, at which     *)
(* check_syscall throws, and the list after EPOLL_CTL_ADD or _MOD.         *)
AddThrows(fd) == fd \notin open \/ fd \in DOMAIN interest

ModThrows(fd) == fd \notin open \/ fd \notin DOMAIN interest

WithInterest(fd, events) ==
  [f \in DOMAIN interest \cup {fd} |-> IF f = fd THEN events ELSE interest[f]]

-----------------------------------------------------------------------------
(* Mutant: every registration adds. *)
EpollRegisterAlwaysAdds(fd, flag) == RegisterThrows(fd, flag) \/ AddThrows(fd)

(* register_event on an fd adds it to the list the first time and modifies *)
(* its entry the second time.                                              *)
EpollRegisterThrows(fd, flag) ==
  \/ RegisterThrows(fd, flag)
  \/ IF fd \in DOMAIN roster THEN ModThrows(fd) ELSE AddThrows(fd)

(* Mutant: the events that are active already are forgotten. *)
RegisteredInterestOnlyNew(fd, flag) == WithInterest(fd, {flag})

RegisteredInterest(fd, flag) ==
  WithInterest(fd, WithEvent(active_events, fd, flag)[fd])

(* activate and deactivate, with the events that result; the kernel is     *)
(* called only if there is a change.                                       *)
EpollChangeThrows(fd, events) == events # active_events[fd] /\ ModThrows(fd)

ChangedInterest(fd, events) ==
  IF events = active_events[fd] THEN interest ELSE WithInterest(fd, events)

-----------------------------------------------------------------------------
(* do_deregister: EPOLL_CTL_DEL on each. *)
DeregisterThrows == \E fd \in fds_to_deregister : ModThrows(fd)

(* do_deregister and the call of epoll_wait. *)
EpollBegin ==
  /\ poll_pc = "idle"
  /\ ~DeregisterThrows
  /\ roster' = Kept(roster)
  /\ active_events' = Kept(active_events)
  /\ interest' = Kept(interest)
  /\ fds_to_deregister' = {}
  /\ polled' = UNION {{fd} \X interest'[fd] : fd \in DOMAIN interest'}
  /\ poll_pc' = "blocked"
  /\ UNCHANGED <<revents, current, open>>

(* The fds epoll_wait has something to say about: errors are reported for  *)
(* every fd on the list, also one without active events.                   *)
Signalled(happened, errors) ==
  {fd \in DOMAIN interest :
     fd \in errors \/ \E e \in polled \cap happened : e[1] = fd}

(* epoll_wait reports as many of them as there is room for. *)
EpollReturn(happened, errors, fds) ==
  /\ poll_pc = "blocked"
  /\ fds # {}
  /\ fds \subseteq Signalled(happened, errors)
  /\ \/ Cardinality(fds) = MAX_EVENTS
     \/ Cardinality(fds) < MAX_EVENTS /\ fds = Signalled(happened, errors)
  /\ revents' = {e \in polled \cap happened : e[1] \in fds}
  /\ poll_pc' = "dispatch"
  /\ UNCHANGED <<roster, active_events, fds_to_deregister, polled, current,
                 interest, open>>
=============================================================================
