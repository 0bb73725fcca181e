------------------------------ MODULE EventLoops ------------------------------
(***************************************************************************)
(* A program over a Poller or an Epoller.  It may call the class at any    *)
(* time it has control: between two polls, and from a callback, in the     *)
(* middle of a round.  It also opens and closes the fds.                   *)
(*                                                                         *)
(* An exception of the class is not caught and ends the program.  What the *)
(* class leaves to its caller is a contract: an event is registered once,  *)
(* on an open fd; only events that are registered, on fds that were not    *)
(* given up, are turned on and off; and an fd is closed only when the      *)
(* class has forgotten it.  The calls that break it are counted.            *)
(***************************************************************************)
EXTENDS Epoller

CONSTANTS
  Events,       \* the events a program may want
  MaxMisuses    \* bound: calls that break the contract

ASSUME EventLoopsAssumption ==
  /\ \A e \in Events : e = <<e[1], e[2]>> /\ e[2] \in Flag
  /\ MaxMisuses \in Nat

VARIABLES
  backend,   \* the class in use
  up,        \* no exception yet
  misuses,   \* calls that broke the contract
  ready,     \* events that have happened and were not handled
  hung_up    \* fds with an error or a hang-up

envVars == <<backend, ready, hung_up>>
vars == <<pollerVars, interest, open, up, misuses, envVars>>

Fds == {e[1] : e \in Events}

NoEvents == [fd \in {} |-> {}]

Init == /\ roster = NoEvents
        /\ active_events = NoEvents
        /\ fds_to_deregister = {}
        /\ poll_pc = "idle"
        /\ polled = {}
        /\ revents = {}
        /\ current = {}
        /\ interest = NoEvents
        /\ open = Fds
        /\ backend \in {"Poller", "Epoller"}
        /\ up = TRUE
        /\ misuses = 0
        /\ ready = {}
        /\ hung_up = {}

-----------------------------------------------------------------------------
(* Calls of the program, while no system call has it. *)

InControl == /\ up
             /\ \/ poll_pc = "idle"
                \/ poll_pc = "dispatch" /\ current # {}

Keeps(contract) == /\ contract \/ misuses < MaxMisuses
                   /\ misuses' = IF contract THEN misuses ELSE misuses + 1

Register(fd, flag) ==
  /\ InControl
  /\ Keeps(/\ fd \in open
           /\ fd \notin fds_to_deregister
           /\ ~RegisterThrows(fd, flag))
  /\ IF RegisterThrows(fd, flag)
     THEN up' = FALSE /\ UNCHANGED <<roster, active_events, interest>>
     ELSE /\ roster' = WithEvent(roster, fd, flag)
          /\ active_events' = WithEvent(active_events, fd, flag)
          /\ IF backend = "Poller"
             THEN UNCHANGED <<up, interest>>
             ELSE IF EpollRegisterThrows(fd, flag)
                  THEN up' = FALSE /\ UNCHANGED interest
                  ELSE up' = up /\ interest' = RegisteredInterest(fd, flag)
  /\ UNCHANGED <<fds_to_deregister, poll_pc, polled, revents, current, open,
                 envVars>>

(* activate and deactivate, on an fd active_events_.at finds. *)
Change(fd, flag, map) ==
  /\ InControl
  /\ Keeps(flag \in roster[fd] /\ fd \notin fds_to_deregister)
  /\ active_events' = map
  /\ IF backend = "Poller"
     THEN UNCHANGED <<up, interest>>
     ELSE IF EpollChangeThrows(fd, map[fd])
          THEN up' = FALSE /\ UNCHANGED interest
          ELSE up' = up /\ interest' = ChangedInterest(fd, map[fd])
  /\ UNCHANGED <<roster, fds_to_deregister, poll_pc, polled, revents, current,
                 open, envVars>>

Activate(fd, flag) ==
  fd \in DOMAIN active_events /\ Change(fd, flag, Activated(fd, flag))

Deactivate(fd, flag) ==
  fd \in DOMAIN active_events /\ Change(fd, flag, Deactivated(fd, flag))

(* active_events_.at throws. *)
ChangeUnknown(fd) ==
  /\ InControl
  /\ fd \notin DOMAIN active_events
  /\ up' = FALSE
  /\ Keeps(FALSE)
  /\ UNCHANGED <<pollerVars, interest, open, envVars>>

(* Mutant: the fd is forgotten at once. *)
DeregisterNow(fd) ==
  /\ InControl
  /\ Keeps(fd \in DOMAIN roster)
  /\ roster' = [f \in DOMAIN roster \ {fd} |-> roster[f]]
  /\ active_events' = [f \in DOMAIN roster \ {fd} |-> active_events[f]]
  /\ interest' = [f \in DOMAIN interest \ {fd} |-> interest[f]]
  /\ UNCHANGED <<fds_to_deregister, poll_pc, polled, revents, current, open,
                 up, envVars>>

(* deregister, which only makes a note. *)
Deregister(fd) ==
  /\ InControl
  /\ fds_to_deregister' = fds_to_deregister \cup {fd}
  /\ Keeps(fd \in DOMAIN roster)
  /\ UNCHANGED <<roster, active_events, poll_pc, polled, revents, current,
                 interest, open, up, envVars>>

(* FileDescriptor::close, or its destructor: the kernel takes a closed     *)
(* file off the interest list.                                             *)
Close(fd) ==
  /\ InControl
  /\ fd \in open
  /\ open' = open \ {fd}
  /\ interest' = [f \in DOMAIN interest \ {fd} |-> interest[f]]
  /\ Keeps(fd \notin DOMAIN roster)
  /\ ready' = {e \in ready : e[1] # fd}
  /\ hung_up' = hung_up \ {fd}
  /\ UNCHANGED <<pollerVars, up, backend>>

(* A new file gets the number of a closed one. *)
Open(fd) ==
  /\ InControl
  /\ fd \notin open
  /\ open' = open \cup {fd}
  /\ UNCHANGED <<pollerVars, interest, up, misuses, envVars>>

Call == \/ \E fd \in Fds, flag \in Flag :
             /\ <<fd, flag>> \in Events
             /\ Register(fd, flag) \/ Activate(fd, flag) \/ Deactivate(fd, flag)
        \/ \E fd \in Fds :
             ChangeUnknown(fd) \/ Deregister(fd) \/ Close(fd) \/ Open(fd)

-----------------------------------------------------------------------------
(* The loop, up to the next time the program has control. *)

Errors == hung_up \cup (Fds \ open)

Begin ==
  /\ up
  /\ \/ /\ backend = "Poller"
        /\ PollBegin
        /\ UNCHANGED <<interest, open, up>>
     \/ /\ backend = "Epoller"
        /\ EpollBegin
        /\ UNCHANGED up
     \/ /\ backend = "Epoller"
        /\ poll_pc = "idle"
        /\ DeregisterThrows
        /\ up' = FALSE
        /\ UNCHANGED <<pollerVars, interest, open>>
  /\ UNCHANGED <<misuses, envVars>>

Return(fds) ==
  /\ up
  /\ \/ /\ backend = "Poller"
        /\ fds = Fds
        /\ PollReturn(ready, Errors)
        /\ UNCHANGED <<interest, open>>
     \/ /\ backend = "Epoller"
        /\ EpollReturn(ready, hung_up, fds)
  /\ UNCHANGED <<up, misuses, envVars>>

(* A callback handles its event, which is over then. *)
Callback(fd, flag) ==
  /\ up
  /\ RunCallback(fd, flag)
  /\ ready' = ready \ {<<fd, flag>>}
  /\ UNCHANGED <<active_events, interest, open, up, misuses, backend, hung_up>>

Skip(fd, flag) ==
  /\ up
  /\ PassOver(fd, flag)
  /\ UNCHANGED <<interest, open, up, misuses, envVars>>

End == /\ up
       /\ PollEnd
       /\ UNCHANGED <<interest, open, up, misuses, envVars>>

Loop == \/ Begin \/ End
        \/ \E fds \in SUBSET Fds : Return(fds)
        \/ \E e \in Events : Callback(e[1], e[2]) \/ Skip(e[1], e[2])

(* The world: an event happens, a peer hangs up. *)
World ==
  /\ up
  /\ \/ \E e \in Events : e[1] \in open /\ ready' = ready \cup {e} /\ UNCHANGED hung_up
     \/ \E fd \in open : hung_up' = hung_up \cup {fd} /\ UNCHANGED ready
  /\ UNCHANGED <<pollerVars, interest, open, up, misuses, backend>>

Next == Call \/ Loop \/ World

(* The process is scheduled.  The kernel keeps the ready fds in a queue    *)
(* and puts those it has reported at the end, so that none is passed over  *)
(* for ever when there are more than MAX_EVENTS.                           *)
Fairness == /\ WF_vars(Loop)
            /\ \A fd \in Fds :
                 SF_vars(\E fds \in SUBSET Fds : fd \in fds /\ Return(fds))

Spec == Init /\ [][Next]_vars /\ Fairness

-----------------------------------------------------------------------------
Pairs(map) == UNION {{fd} \X map[fd] : fd \in DOMAIN map}

(* Every variable keeps its type, and roster_.at does not throw.  Poller   *)
(* calls it for every fd it polled, with an answer or without, Epoller for *)
(* every fd the kernel reports, which may be any of the interest list.     *)
TypeOK == /\ Pairs(roster) \cup Pairs(active_events) \subseteq Events
          /\ DOMAIN active_events = DOMAIN roster
          /\ fds_to_deregister \subseteq Fds
          /\ poll_pc \in {"idle", "blocked", "dispatch"}
          /\ polled \subseteq Events
          /\ revents \subseteq polled
          /\ \A e \in polled : e[1] \in DOMAIN roster
          /\ DOMAIN interest \subseteq DOMAIN roster
          /\ current \subseteq Fds
          /\ open \subseteq Fds
          /\ backend \in {"Poller", "Epoller"}
          /\ up \in BOOLEAN
          /\ misuses \in 0..MaxMisuses
          /\ ready \subseteq Events
          /\ hung_up \subseteq open

(* A program that keeps the contract meets no exception, in whatever order *)
(* it calls the class, also from callbacks and although deregistration is  *)
(* put off: every epoll_ctl succeeds.                                      *)
CarefulNeverThrows == misuses = 0 => up

(* The kernel's list follows active_events_, entry by entry. *)
InterestMirrored ==
  up /\ misuses = 0 /\ backend = "Epoller" => interest = active_events

(* Both classes serve only events that were wanted when the round began,   *)
(* each once, and none of an fd that was given up before.                  *)
Abstract == INSTANCE EventLoop WITH
              wanted <- Pairs(active_events),
              leaving <- fds_to_deregister,
              asked <- IF poll_pc = "blocked" THEN polled ELSE revents
ServesWhatIsWanted == Abstract!Spec

(* An event that has happened is handled, unless the program stops wanting *)
(* it: neither an fd with an error nor the limit of one epoll_wait hides   *)
(* it.                                                                     *)
Pending(e) == up /\ misuses = 0 /\ e \in ready /\ e \in Pairs(active_events)

EventsHandled == \A e \in Events : Pending(e) ~> ~Pending(e)
=============================================================================
