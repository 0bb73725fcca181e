--------------------------- MODULE EventLoopsProofs ---------------------------
(***************************************************************************)
(* Poller and Epoller under every program, for every set of fds and every  *)
(* size of epoll_wait's buffer: roster_.at never throws, a program that    *)
(* keeps the contract meets no exception, the kernel's interest list       *)
(* follows active_events_, and both classes implement EventLoop.           *)
(*                                                                         *)
(* And, at the end, the program that uses Poller most: the event loop of   *)
(* video_sender never sleeps on unsent datagrams, for frames of every      *)
(* size, any number of datagrams put back by an ACK and any number of      *)
(* timer expirations and messages.                                         *)
(***************************************************************************)
EXTENDS EventLoops, VideoSender, FiniteSetTheorems, TLAPS

-----------------------------------------------------------------------------
(* The inductive invariant.  That roster_.at finds the fds that are polled *)
(* needs, with Epoller, that what the kernel was asked is what its list    *)
(* says, and that the list has active_events_'s events.  That no epoll_ctl *)
(* fails needs, besides, that the fds of a careful program are open, and   *)
(* that it gave up only fds it had.                                        *)

(* The fds of the kernel's list have the events of active_events_.         *)
Mirrored == /\ interest = [fd \in DOMAIN interest |-> interest[fd]]
            /\ active_events = [fd \in DOMAIN active_events |-> active_events[fd]]
            /\ backend = "Poller" => DOMAIN interest = {}
            /\ up => \A fd \in DOMAIN interest :
                       interest[fd] = active_events[fd]

Rounds == poll_pc # "dispatch" => revents = {}

Careful == misuses = 0 =>
             /\ up
             /\ DOMAIN roster \subseteq open
             /\ fds_to_deregister \subseteq DOMAIN roster
             /\ backend = "Epoller" => DOMAIN roster \subseteq DOMAIN interest

IInv == TypeOK /\ Mirrored /\ Rounds /\ Careful

-----------------------------------------------------------------------------
(* Maps from fds to flags, as sets of events. *)

LEMMA InPairs ==
  ASSUME NEW map
  PROVE  /\ \A fd \in DOMAIN map : \A flag \in map[fd] :
              <<fd, flag>> \in Pairs(map)
         /\ \A e \in Pairs(map) : /\ e[1] \in DOMAIN map
                                  /\ e[2] \in map[e[1]]
                                  /\ e = <<e[1], e[2]>>
  <1>1. ASSUME NEW fd \in DOMAIN map, NEW flag \in map[fd]
        PROVE  <<fd, flag>> \in Pairs(map)
    BY DEF Pairs
  <1>2. ASSUME NEW e \in Pairs(map)
        PROVE  e[1] \in DOMAIN map /\ e[2] \in map[e[1]] /\ e = <<e[1], e[2]>>
    <2>1. PICK fd \in DOMAIN map : e \in {fd} \X map[fd]
      BY DEF Pairs
    <2> QED
      BY <2>1
  <1> QED
    BY <1>1, <1>2

LEMMA EventFd ==
  /\ \A e \in Events : e[1] \in Fds /\ e = <<e[1], e[2]>> /\ e[2] \in Flag
  BY EventLoopsAssumption DEF Fds

(* register_event. *)
LEMMA WithEventFacts ==
  ASSUME NEW map, NEW fd, NEW flag
  PROVE  /\ DOMAIN WithEvent(map, fd, flag) = DOMAIN map \cup {fd}
         /\ Pairs(map) \subseteq Pairs(WithEvent(map, fd, flag))
         /\ Pairs(WithEvent(map, fd, flag)) \subseteq Pairs(map) \cup {<<fd, flag>>}
         /\ \A f \in DOMAIN map : f # fd => WithEvent(map, fd, flag)[f] = map[f]
  <1> DEFINE new == WithEvent(map, fd, flag)
  <1>1. DOMAIN new = DOMAIN map \cup {fd}
    BY DEF WithEvent
  <1>2. /\ \A f \in DOMAIN map : f # fd => new[f] = map[f]
        /\ fd \in DOMAIN map => new[fd] = map[fd] \cup {flag}
        /\ fd \notin DOMAIN map => new[fd] = {flag}
    BY DEF WithEvent
  <1> HIDE DEF new
  <1>3. ASSUME NEW e \in Pairs(map) PROVE e \in Pairs(new)
    <2>1. e[1] \in DOMAIN map /\ e[2] \in map[e[1]] /\ e = <<e[1], e[2]>>
      BY <1>3, InPairs
    <2>2. e[1] \in DOMAIN new /\ e[2] \in new[e[1]]
      BY <1>1, <1>2, <2>1
    <2> QED
      BY <2>1, <2>2, InPairs
  <1>4. ASSUME NEW e \in Pairs(new) PROVE e \in Pairs(map) \cup {<<fd, flag>>}
    <2>1. e[1] \in DOMAIN new /\ e[2] \in new[e[1]] /\ e = <<e[1], e[2]>>
      BY <1>4, InPairs
    <2>2. CASE e[1] \in DOMAIN map /\ e[2] \in map[e[1]]
      BY <2>1, <2>2, InPairs
    <2>3. CASE e[1] = fd /\ e[2] = flag
      BY <2>1, <2>3
    <2> QED
      BY <1>1, <1>2, <2>1, <2>2, <2>3
  <1> QED
    BY <1>1, <1>2, <1>3, <1>4 DEF new

(* activate and deactivate. *)
LEMMA ChangeFacts ==
  ASSUME NEW fd \in DOMAIN active_events, NEW flag
  PROVE  /\ DOMAIN Activated(fd, flag) = DOMAIN active_events
         /\ DOMAIN Deactivated(fd, flag) = DOMAIN active_events
         /\ Pairs(active_events) \subseteq Pairs(Activated(fd, flag))
         /\ Pairs(Activated(fd, flag))
              \subseteq Pairs(active_events) \cup {<<fd, flag>>}
         /\ Pairs(Deactivated(fd, flag)) \subseteq Pairs(active_events)
         /\ \A f \in DOMAIN active_events :
              f # fd => /\ Activated(fd, flag)[f] = active_events[f]
                        /\ Deactivated(fd, flag)[f] = active_events[f]
  <1> DEFINE on == Activated(fd, flag)
             off == Deactivated(fd, flag)
  <1>1. /\ DOMAIN on = DOMAIN active_events
        /\ DOMAIN off = DOMAIN active_events
        /\ on[fd] = active_events[fd] \cup {flag}
        /\ off[fd] = active_events[fd] \ {flag}
        /\ \A f \in DOMAIN active_events :
             f # fd => on[f] = active_events[f] /\ off[f] = active_events[f]
    BY DEF Activated, Deactivated
  <1> HIDE DEF on, off
  <1>2. ASSUME NEW e \in Pairs(active_events) PROVE e \in Pairs(on)
    <2>1. /\ e[1] \in DOMAIN active_events /\ e[2] \in active_events[e[1]]
          /\ e = <<e[1], e[2]>>
      BY <1>2, InPairs
    <2>2. e[1] \in DOMAIN on /\ e[2] \in on[e[1]]
      BY <1>1, <2>1
    <2> QED
      BY <2>1, <2>2, InPairs
  <1>3. ASSUME NEW e \in Pairs(on)
        PROVE  e \in Pairs(active_events) \cup {<<fd, flag>>}
    <2>1. e[1] \in DOMAIN on /\ e[2] \in on[e[1]] /\ e = <<e[1], e[2]>>
      BY <1>3, InPairs
    <2>2. CASE e[2] \in active_events[e[1]]
      BY <1>1, <2>1, <2>2, InPairs
    <2>3. CASE e[1] = fd /\ e[2] = flag
      BY <2>1, <2>3
    <2> QED
      BY <1>1, <2>1, <2>2, <2>3
  <1>4. ASSUME NEW e \in Pairs(off) PROVE e \in Pairs(active_events)
    <2>1. e[1] \in DOMAIN off /\ e[2] \in off[e[1]] /\ e = <<e[1], e[2]>>
      BY <1>4, InPairs
    <2>2. e[1] \in DOMAIN active_events /\ e[2] \in active_events[e[1]]
      BY <1>1, <2>1
    <2> QED
      BY <2>1, <2>2, InPairs
  <1> QED
    BY <1>1, <1>2, <1>3, <1>4 DEF on, off

(* do_deregister. *)
LEMMA KeptFacts ==
  ASSUME NEW map
  PROVE  /\ DOMAIN Kept(map) = DOMAIN map \ fds_to_deregister
         /\ \A fd \in DOMAIN Kept(map) : Kept(map)[fd] = map[fd]
         /\ Pairs(Kept(map)) = {e \in Pairs(map) : e[1] \notin fds_to_deregister}
  <1> DEFINE new == Kept(map)
  <1>1. /\ DOMAIN new = DOMAIN map \ fds_to_deregister
        /\ \A fd \in DOMAIN new : new[fd] = map[fd]
    BY DEF Kept
  <1> HIDE DEF new
  <1>2. ASSUME NEW e \in Pairs(new)
        PROVE  e \in Pairs(map) /\ e[1] \notin fds_to_deregister
    <2>1. e[1] \in DOMAIN new /\ e[2] \in new[e[1]] /\ e = <<e[1], e[2]>>
      BY <1>2, InPairs
    <2>2. e[1] \in DOMAIN map /\ e[2] \in map[e[1]]
      BY <1>1, <2>1
    <2> QED
      BY <1>1, <2>1, <2>2, InPairs
  <1>3. ASSUME NEW e \in Pairs(map), e[1] \notin fds_to_deregister
        PROVE  e \in Pairs(new)
    <2>1. e[1] \in DOMAIN map /\ e[2] \in map[e[1]] /\ e = <<e[1], e[2]>>
      BY <1>3, InPairs
    <2>2. e[1] \in DOMAIN new /\ e[2] \in new[e[1]]
      BY <1>1, <1>3, <2>1
    <2> QED
      BY <2>1, <2>2, InPairs
  <1>4. Pairs(new) = {e \in Pairs(map) : e[1] \notin fds_to_deregister}
    BY <1>2, <1>3
  <1> QED
    BY <1>1, <1>4 DEF new

-----------------------------------------------------------------------------
(* The invariant holds at first. *)
LEMMA InitInv == Init => IInv
  <1> SUFFICES ASSUME Init PROVE IInv
    OBVIOUS
  <1>1. Pairs(NoEvents) = {}
    <2>1. DOMAIN NoEvents = {}
      BY DEF NoEvents
    <2> QED
      BY <2>1, InPairs
  <1>2. TypeOK
    BY <1>1, EventLoopsAssumption DEF Init, TypeOK, NoEvents
  <1>3. Mirrored /\ Rounds /\ Careful
    BY DEF Init, Mirrored, Rounds, Careful, NoEvents
  <1> QED
    BY <1>2, <1>3 DEF IInv

(* The misuses after a call, and what none of them means. *)
LEMMA KeepsFacts ==
  ASSUME NEW contract \in BOOLEAN, Keeps(contract), misuses \in 0..MaxMisuses
  PROVE  /\ misuses' \in 0..MaxMisuses
         /\ misuses' = 0 => misuses = 0 /\ contract
  BY EventLoopsAssumption DEF Keeps

(* register_event. *)
LEMMA RegisterStep ==
  ASSUME IInv, NEW fd \in Fds, NEW flag \in Flag, <<fd, flag>> \in Events,
         Register(fd, flag)
  PROVE  IInv'
  <1> DEFINE roster1 == WithEvent(roster, fd, flag)
             active1 == WithEvent(active_events, fd, flag)
             contract == /\ fd \in open
                         /\ fd \notin fds_to_deregister
                         /\ ~RegisterThrows(fd, flag)
  <1> USE DEF IInv
  <1>1. /\ up /\ Keeps(contract) /\ contract \in BOOLEAN
        /\ UNCHANGED <<fds_to_deregister, poll_pc, polled, revents, current, open,
                       backend, ready, hung_up>>
    BY DEF Register, InControl, envVars
  <1>2. /\ misuses' \in 0..MaxMisuses
        /\ misuses' = 0 => misuses = 0 /\ contract
    BY <1>1, KeepsFacts DEF TypeOK
  <1>3. CASE RegisterThrows(fd, flag)
    <2>1. up' = FALSE /\ UNCHANGED <<roster, active_events, interest>>
      BY <1>3 DEF Register
    <2>2. misuses' # 0
      BY <1>2, <1>3
    <2>3. TypeOK'
      BY <1>1, <1>2, <2>1 DEF TypeOK, Pairs
    <2>4. Mirrored' /\ Rounds' /\ Careful'
      BY <1>1, <2>1, <2>2 DEF Mirrored, Rounds, Careful
    <2> QED
      BY <2>3, <2>4
  <1>4. CASE ~RegisterThrows(fd, flag)
    <2>1. roster' = roster1 /\ active_events' = active1
      BY <1>4 DEF Register
    <2>2. /\ DOMAIN roster1 = DOMAIN roster \cup {fd}
          /\ DOMAIN active1 = DOMAIN active_events \cup {fd}
          /\ Pairs(roster1) \subseteq Pairs(roster) \cup {<<fd, flag>>}
          /\ Pairs(active1) \subseteq Pairs(active_events) \cup {<<fd, flag>>}
          /\ \A f \in DOMAIN active_events : f # fd => active1[f] = active_events[f]
          /\ active1 = [f \in DOMAIN active1 |-> active1[f]]
      <3>1. active1 = [f \in DOMAIN active1 |-> active1[f]]
        BY DEF WithEvent
      <3>2. /\ DOMAIN roster1 = DOMAIN roster \cup {fd}
            /\ Pairs(roster1) \subseteq Pairs(roster) \cup {<<fd, flag>>}
        BY Zenon, WithEventFacts
      <3>3. /\ DOMAIN active1 = DOMAIN active_events \cup {fd}
            /\ Pairs(active1) \subseteq Pairs(active_events) \cup {<<fd, flag>>}
        BY Zenon, WithEventFacts
      <3>4. \A f \in DOMAIN active_events : f # fd => active1[f] = active_events[f]
        BY DEF WithEvent
      <3> QED
        BY Zenon, <3>1, <3>2, <3>3, <3>4
    <2>3. Pairs(roster') = Pairs(roster1) /\ Pairs(active_events') = Pairs(active1)
      BY <2>1
    <2>4. up' \in BOOLEAN
      BY <1>1, <1>4 DEF Register
    <2> HIDE DEF roster1, active1, contract
    <2>5. Pairs(roster)' \cup Pairs(active_events)' \subseteq Events
      BY <2>2, <2>3 DEF TypeOK, Pairs
    <2>6. TypeOK'
      <3>1. DOMAIN interest' \subseteq DOMAIN interest \cup {fd}
        BY <1>4 DEF Register, RegisteredInterest, WithInterest
      <3> QED
        BY <1>1, <1>2, <2>1, <2>2, <2>4, <2>5, <3>1 DEF TypeOK
    <2>7. Rounds'
      BY <1>1, <2>1, <2>2 DEF Rounds
    <2>8. CASE backend = "Poller"
      <3>1. UNCHANGED <<up, interest>>
        BY <1>4, <2>8 DEF Register
      <3> QED
        BY <1>1, <1>2, <2>1, <2>2, <2>6, <2>7, <2>8, <3>1
           DEF Mirrored, Careful, contract
    <2>9. CASE backend = "Epoller" /\ EpollRegisterThrows(fd, flag)
      <3>1. up' = FALSE /\ UNCHANGED interest
        BY <1>4, <2>9 DEF Register
      <3>2. misuses' # 0
        BY <1>1, <1>2, <1>4, <2>9
           DEF EpollRegisterThrows, AddThrows, ModThrows, TypeOK, Careful, contract
      <3> QED
        BY <1>1, <2>1, <2>2, <2>6, <2>7, <2>9, <3>1, <3>2 DEF Mirrored, Careful
    <2>10. CASE backend = "Epoller" /\ ~EpollRegisterThrows(fd, flag)
      <3>1. up' = up /\ interest' = WithInterest(fd, active1[fd])
        BY <1>4, <2>10 DEF Register, RegisteredInterest, active1
      <3>2. /\ DOMAIN interest' = DOMAIN interest \cup {fd}
            /\ interest'[fd] = active1[fd]
            /\ \A f \in DOMAIN interest : f # fd => interest'[f] = interest[f]
            /\ interest' = [f \in DOMAIN interest' |-> interest'[f]]
        BY <3>1 DEF WithInterest
      <3>3. Mirrored'
        BY <1>1, <2>1, <2>2, <2>10, <3>1, <3>2 DEF Mirrored, TypeOK
      <3>4. Careful'
        BY <1>1, <1>2, <2>1, <2>2, <2>10, <3>1, <3>2 DEF Careful, contract
      <3> QED
        BY <2>6, <2>7, <3>3, <3>4
    <2> QED
      BY <2>8, <2>9, <2>10 DEF TypeOK
  <1> QED
    BY <1>3, <1>4

(* activate and deactivate: map is active_events_ after the call. *)
LEMMA ChangeStep ==
  ASSUME IInv, NEW fd \in DOMAIN active_events, NEW flag,
         NEW map, Change(fd, flag, map),
         map = [f \in DOMAIN map |-> map[f]],
         DOMAIN map = DOMAIN active_events,
         \A f \in DOMAIN active_events : f # fd => map[f] = active_events[f],
         Pairs(map) \subseteq Events
  PROVE  IInv'
  <1> DEFINE contract == flag \in roster[fd] /\ fd \notin fds_to_deregister
  <1> USE DEF IInv
  <1>1. /\ up /\ Keeps(contract) /\ contract \in BOOLEAN
        /\ active_events' = map
        /\ UNCHANGED <<roster, fds_to_deregister, poll_pc, polled, revents,
                       current, open, backend, ready, hung_up>>
    BY DEF Change, InControl, envVars
  <1>2. /\ misuses' \in 0..MaxMisuses
        /\ misuses' = 0 => misuses = 0 /\ contract
    BY <1>1, KeepsFacts DEF TypeOK
  <1>3. up' \in BOOLEAN
    BY <1>1 DEF Change
  <1>4. Pairs(roster') = Pairs(roster) /\ Pairs(active_events') = Pairs(map)
    BY <1>1
  <1> HIDE DEF contract
  <1>5. Pairs(roster)' \cup Pairs(active_events)' \subseteq Events
    BY <1>4 DEF TypeOK, Pairs
  <1>6. TypeOK'
    <2>1. DOMAIN interest' \subseteq DOMAIN interest \cup {fd}
      BY DEF Change, ChangedInterest, WithInterest
    <2> QED
      BY <1>1, <1>2, <1>3, <1>5, <2>1 DEF TypeOK
  <1>7. Rounds'
    BY <1>1 DEF Rounds
  <1>8. CASE backend = "Poller"
    <2>1. UNCHANGED <<up, interest>>
      BY <1>8 DEF Change
    <2> QED
      BY <1>1, <1>2, <1>6, <1>7, <1>8, <2>1 DEF Mirrored, Careful
  <1>9. CASE backend = "Epoller" /\ EpollChangeThrows(fd, map[fd])
    <2>1. up' = FALSE /\ UNCHANGED interest
      BY <1>9 DEF Change
    <2>2. misuses' # 0
      BY <1>2, <1>9 DEF EpollChangeThrows, ModThrows, Careful, TypeOK
    <2> QED
      BY <1>1, <1>6, <1>7, <1>9, <2>1, <2>2 DEF Mirrored, Careful
  <1>10. CASE backend = "Epoller" /\ ~EpollChangeThrows(fd, map[fd])
    <2>1. up' = up /\ interest' = ChangedInterest(fd, map[fd])
      BY <1>10 DEF Change
    <2>2. CASE map[fd] = active_events[fd]
      <3>1. interest' = interest
        BY <2>1, <2>2 DEF ChangedInterest
      <3>2. \A f \in DOMAIN active_events : map[f] = active_events[f]
        BY <2>2
      <3> QED
        BY <1>1, <1>2, <1>6, <1>7, <1>10, <2>1, <3>1, <3>2
           DEF Mirrored, Careful, TypeOK
    <2>3. CASE map[fd] # active_events[fd]
      <3>1. interest' = WithInterest(fd, map[fd]) /\ fd \in DOMAIN interest
        BY <1>10, <2>1, <2>3 DEF ChangedInterest, EpollChangeThrows, ModThrows
      <3>2. /\ DOMAIN interest' = DOMAIN interest
            /\ interest'[fd] = map[fd]
            /\ \A f \in DOMAIN interest : f # fd => interest'[f] = interest[f]
            /\ interest' = [f \in DOMAIN interest' |-> interest'[f]]
        BY <3>1 DEF WithInterest
      <3>3. Mirrored'
        BY <1>1, <1>10, <2>1, <3>2 DEF Mirrored, TypeOK
      <3>4. Careful'
        BY <1>1, <1>2, <1>10, <2>1, <3>2 DEF Careful
      <3> QED
        BY <1>6, <1>7, <3>3, <3>4
    <2> QED
      BY <2>2, <2>3
  <1> QED
    BY <1>8, <1>9, <1>10 DEF TypeOK

LEMMA ActivateStep ==
  ASSUME IInv, NEW fd \in Fds, NEW flag \in Flag, <<fd, flag>> \in Events,
         Activate(fd, flag)
  PROVE  IInv'
  <1> DEFINE map == Activated(fd, flag)
  <1>1. fd \in DOMAIN active_events /\ Change(fd, flag, map)
    BY DEF Activate
  <1>2. /\ map = [f \in DOMAIN map |-> map[f]]
        /\ DOMAIN map = DOMAIN active_events
        /\ \A f \in DOMAIN active_events : f # fd => map[f] = active_events[f]
    BY <1>1 DEF Activated, IInv, Mirrored
  <1>3. Pairs(map) \subseteq Events
    BY <1>1, ChangeFacts DEF IInv, TypeOK
  <1> HIDE DEF map
  <1> QED
    BY <1>1, <1>2, <1>3, ChangeStep

LEMMA DeactivateStep ==
  ASSUME IInv, NEW fd \in Fds, NEW flag \in Flag, Deactivate(fd, flag)
  PROVE  IInv'
  <1> DEFINE map == Deactivated(fd, flag)
  <1>1. fd \in DOMAIN active_events /\ Change(fd, flag, map)
    BY DEF Deactivate
  <1>2. /\ map = [f \in DOMAIN map |-> map[f]]
        /\ DOMAIN map = DOMAIN active_events
        /\ \A f \in DOMAIN active_events : f # fd => map[f] = active_events[f]
    BY <1>1 DEF Deactivated, IInv, Mirrored
  <1>3. Pairs(map) \subseteq Events
    BY <1>1, ChangeFacts DEF IInv, TypeOK
  <1> HIDE DEF map
  <1> QED
    BY <1>1, <1>2, <1>3, ChangeStep

(* The calls that leave the maps alone. *)
LEMMA OtherCallStep ==
  ASSUME IInv, NEW fd \in Fds,
         ChangeUnknown(fd) \/ Deregister(fd) \/ Close(fd) \/ Open(fd)
  PROVE  IInv'
  <1> USE DEF IInv
  <1>1. CASE ChangeUnknown(fd)
    <2>1. /\ UNCHANGED <<roster, active_events, fds_to_deregister, poll_pc,
                         polled, revents, current, interest, open, backend,
                         ready, hung_up>>
          /\ up' = FALSE /\ Keeps(FALSE)
      BY <1>1 DEF ChangeUnknown, pollerVars, envVars
    <2>2. misuses' \in 0..MaxMisuses /\ misuses' # 0
      BY <2>1, KeepsFacts DEF TypeOK
    <2>3. TypeOK'
      BY <2>1, <2>2 DEF TypeOK, Pairs
    <2> QED
      BY <2>1, <2>2, <2>3 DEF Mirrored, Rounds, Careful
  <1>2. CASE Deregister(fd)
    <2>1. /\ UNCHANGED <<roster, active_events, poll_pc, polled, revents,
                         current, interest, open, up, backend, ready, hung_up>>
          /\ fds_to_deregister' = fds_to_deregister \cup {fd}
          /\ Keeps(fd \in DOMAIN roster)
      BY <1>2 DEF Deregister, envVars
    <2>2. /\ misuses' \in 0..MaxMisuses
          /\ misuses' = 0 => misuses = 0 /\ fd \in DOMAIN roster
      BY <2>1, EventLoopsAssumption DEF Keeps, TypeOK
    <2>3. TypeOK'
      BY <2>1, <2>2 DEF TypeOK, Pairs
    <2> QED
      BY <2>1, <2>2, <2>3 DEF Mirrored, Rounds, Careful
  <1>3. CASE Close(fd)
    <2>1. /\ UNCHANGED <<roster, active_events, fds_to_deregister, poll_pc,
                         polled, revents, current, up, backend>>
          /\ open' = open \ {fd}
          /\ interest' = [f \in DOMAIN interest \ {fd} |-> interest[f]]
          /\ ready' = {e \in ready : e[1] # fd}
          /\ hung_up' = hung_up \ {fd}
          /\ Keeps(fd \notin DOMAIN roster)
      BY <1>3 DEF Close, pollerVars
    <2>2. /\ misuses' \in 0..MaxMisuses
          /\ misuses' = 0 => misuses = 0 /\ fd \notin DOMAIN roster
      BY <2>1, EventLoopsAssumption DEF Keeps, TypeOK
    <2>3. TypeOK'
      BY <2>1, <2>2 DEF TypeOK, Pairs
    <2> QED
      BY <2>1, <2>2, <2>3 DEF Mirrored, Rounds, Careful
  <1>4. CASE Open(fd)
    <2>1. /\ UNCHANGED <<roster, active_events, fds_to_deregister, poll_pc,
                         polled, revents, current, interest, up, misuses,
                         backend, ready, hung_up>>
          /\ open' = open \cup {fd}
      BY <1>4 DEF Open, pollerVars, envVars
    <2>2. TypeOK'
      BY <2>1 DEF TypeOK, Pairs
    <2> QED
      BY <2>1, <2>2 DEF Mirrored, Rounds, Careful
  <1> QED
    BY <1>1, <1>2, <1>3, <1>4

-----------------------------------------------------------------------------
(* A round begins: what is asked of the kernel is what is wanted, and the  *)
(* fds given up are gone.                                                  *)
LEMMA RoundBegins ==
  ASSUME IInv, up,
         \/ backend = "Poller" /\ PollBegin /\ UNCHANGED interest
         \/ backend = "Epoller" /\ EpollBegin
  PROVE  /\ poll_pc = "idle" /\ poll_pc' = "blocked"
         /\ DOMAIN roster' = DOMAIN roster \ fds_to_deregister
         /\ DOMAIN active_events' = DOMAIN active_events \ fds_to_deregister
         /\ active_events' = [fd \in DOMAIN active_events' |-> active_events'[fd]]
         /\ Pairs(roster)' \subseteq Pairs(roster)
         /\ Pairs(active_events)'
              = {e \in Pairs(active_events) : e[1] \notin fds_to_deregister}
         /\ polled' \subseteq Pairs(active_events)'
         /\ \A e \in polled' : e[1] \in DOMAIN roster'
         /\ DOMAIN interest' = DOMAIN interest \ fds_to_deregister
         /\ interest' = [fd \in DOMAIN interest' |-> interest'[fd]]
         /\ \A fd \in DOMAIN interest' : interest'[fd] = active_events'[fd]
         /\ fds_to_deregister' = {}
         /\ UNCHANGED <<revents, current>>
  <1> USE DEF IInv
  <1> DEFINE roster1 == Kept(roster)
             active1 == Kept(active_events)
             gone == fds_to_deregister
  <1>1. /\ poll_pc = "idle" /\ poll_pc' = "blocked"
        /\ roster' = roster1 /\ active_events' = active1
        /\ fds_to_deregister' = {}
        /\ UNCHANGED <<revents, current>>
    BY DEF PollBegin, EpollBegin
  <1>2. /\ DOMAIN roster1 = DOMAIN roster \ gone
        /\ Pairs(roster1) = {e \in Pairs(roster) : e[1] \notin gone}
    BY KeptFacts
  <1>3. /\ DOMAIN active1 = DOMAIN active_events \ gone
        /\ active1 = [fd \in DOMAIN active1 |-> active1[fd]]
        /\ \A fd \in DOMAIN active1 : active1[fd] = active_events[fd]
    BY DEF Kept
  <1>4. Pairs(active1) = {e \in Pairs(active_events) : e[1] \notin gone}
    BY KeptFacts
  <1> HIDE DEF roster1, active1
  <1>5. /\ Pairs(roster)' = Pairs(roster1)
        /\ Pairs(active_events)' = Pairs(active1)
    BY <1>1 DEF Pairs
  <1>6. /\ DOMAIN interest' = DOMAIN interest \ gone
        /\ interest' = [fd \in DOMAIN interest' |-> interest'[fd]]
        /\ \A fd \in DOMAIN interest' : interest'[fd] = active1[fd]
    <2>1. CASE backend = "Poller" /\ UNCHANGED interest
      BY <2>1 DEF Mirrored
    <2>2. CASE interest' = Kept(interest)
      <3>1. /\ DOMAIN interest' = DOMAIN interest \ gone
            /\ interest' = [fd \in DOMAIN interest' |-> interest'[fd]]
            /\ \A fd \in DOMAIN interest' : interest'[fd] = interest[fd]
        BY <2>2 DEF Kept
      <3> QED
        BY <1>3, <3>1 DEF Mirrored, TypeOK
    <2> QED
      BY <2>1, <2>2 DEF EpollBegin
  <1>7. polled' \subseteq Pairs(active1)
    <2>1. CASE PollBegin
      BY <1>1, <2>1 DEF PollBegin, Pairs
    <2>2. CASE EpollBegin
      <3>1. polled' = UNION {{fd} \X interest'[fd] : fd \in DOMAIN interest'}
        BY <2>2 DEF EpollBegin
      <3>2. DOMAIN interest' \subseteq DOMAIN active1
        BY <1>3, <1>6 DEF Mirrored, TypeOK
      <3>3. ASSUME NEW e \in polled' PROVE e \in Pairs(active1)
        <4>1. PICK fd \in DOMAIN interest' : e \in {fd} \X interest'[fd]
          BY <3>1
        <4>2. fd \in DOMAIN active1 /\ e \in {fd} \X active1[fd]
          BY <1>6, <3>2, <4>1
        <4> QED
          BY <4>2 DEF Pairs
      <3> QED
        BY <3>3
    <2> QED
      BY <2>1, <2>2
  <1>8. \A e \in polled' : e[1] \in DOMAIN active1
    BY <1>7, InPairs
  <1>9. DOMAIN roster1 = DOMAIN active1
    BY <1>2, <1>3 DEF TypeOK
  <1> QED
    BY <1>1, <1>2, <1>3, <1>4, <1>5, <1>6, <1>7, <1>8, <1>9

LEMMA BeginStep ==
  ASSUME IInv, Begin
  PROVE  IInv'
  <1> USE DEF IInv
  <1>1. up /\ UNCHANGED <<misuses, backend, ready, hung_up>>
    BY DEF Begin, envVars
  <1>2. CASE \/ backend = "Poller" /\ PollBegin /\ UNCHANGED interest
             \/ backend = "Epoller" /\ EpollBegin
    <2>1. up' = up /\ open' = open
      BY <1>2 DEF Begin, PollBegin, EpollBegin
    <2>2. TypeOK'
      BY <1>1, <1>2, <2>1, RoundBegins DEF TypeOK, Rounds
    <2>3. Mirrored'
      BY <1>1, <1>2, <2>1, RoundBegins DEF Mirrored
    <2>4. Rounds'
      BY <1>1, <1>2, RoundBegins DEF Rounds
    <2>5. Careful'
      BY <1>1, <1>2, <2>1, RoundBegins DEF Careful
    <2> QED
      BY <2>2, <2>3, <2>4, <2>5
  <1>3. CASE /\ backend = "Epoller" /\ DeregisterThrows
             /\ up' = FALSE
             /\ UNCHANGED <<pollerVars, interest, open>>
    <2>1. UNCHANGED <<roster, active_events, fds_to_deregister, poll_pc, polled,
                      revents, current, interest, open>>
      BY <1>3 DEF pollerVars
    <2>2. misuses # 0
      BY <1>3 DEF DeregisterThrows, ModThrows, Careful
    <2>3. TypeOK'
      BY <1>1, <1>3, <2>1 DEF TypeOK, Pairs
    <2> QED
      BY <1>1, <1>3, <2>1, <2>2, <2>3 DEF Mirrored, Rounds, Careful
  <1> QED
    BY <1>2, <1>3 DEF Begin

(* The kernel answers: with events that were asked for. *)
LEMMA ReturnStep ==
  ASSUME IInv, NEW fds \in SUBSET Fds, Return(fds)
  PROVE  IInv'
  <1> USE DEF IInv
  <1>1. /\ poll_pc = "blocked" /\ poll_pc' = "dispatch"
        /\ revents' \subseteq polled
        /\ UNCHANGED <<roster, active_events, fds_to_deregister, polled, current,
                       interest, open, up, misuses, backend, ready, hung_up>>
    BY DEF Return, PollReturn, EpollReturn, envVars
  <1>2. TypeOK'
    BY <1>1 DEF TypeOK, Rounds, Pairs
  <1> QED
    BY <1>1, <1>2 DEF Mirrored, Rounds, Careful

(* The rest of a round. *)
LEMMA DispatchStep ==
  ASSUME IInv,
         End \/ \E e \in Events : Callback(e[1], e[2]) \/ Skip(e[1], e[2])
  PROVE  IInv'
  <1> USE DEF IInv
  <1>1. CASE End
    <2>1. /\ poll_pc' = "idle" /\ polled' = {} /\ current' = {} /\ revents = {}
          /\ UNCHANGED <<roster, active_events, fds_to_deregister, revents,
                         interest, open, up, misuses, backend, ready, hung_up>>
      BY <1>1 DEF End, PollEnd, envVars
    <2>2. TypeOK'
      BY <2>1 DEF TypeOK, Pairs
    <2> QED
      BY <2>1, <2>2 DEF Mirrored, Rounds, Careful
  <1>2. ASSUME NEW e \in Events, Callback(e[1], e[2]) \/ Skip(e[1], e[2])
        PROVE  IInv'
    <2>1. /\ poll_pc = "dispatch" /\ revents' \subseteq revents
          /\ current' = {e[1]} \/ UNCHANGED current
          /\ ready' \subseteq ready
          /\ UNCHANGED <<roster, active_events, fds_to_deregister, poll_pc, polled,
                         interest, open, up, misuses, backend, hung_up>>
      BY <1>2 DEF Callback, Skip, RunCallback, PassOver, envVars
    <2>2. TypeOK'
      BY <2>1, EventFd DEF TypeOK, Pairs
    <2> QED
      BY <2>1, <2>2 DEF Mirrored, Rounds, Careful
  <1> QED
    BY <1>1, <1>2

LEMMA WorldStep ==
  ASSUME IInv, World
  PROVE  IInv'
  <1> USE DEF IInv
  <1>1. /\ ready' \subseteq Events /\ hung_up' \subseteq open
        /\ UNCHANGED <<roster, active_events, fds_to_deregister, poll_pc, polled,
                       revents, current, interest, open, up, misuses, backend>>
    BY DEF World, TypeOK, pollerVars
  <1>2. TypeOK'
    BY <1>1 DEF TypeOK, Pairs
  <1> QED
    BY <1>1, <1>2 DEF Mirrored, Rounds, Careful

-----------------------------------------------------------------------------
LEMMA InvInductive ==
  ASSUME IInv, [Next]_vars
  PROVE  IInv'
  <1>1. CASE Call
    BY <1>1, RegisterStep, ActivateStep, DeactivateStep, OtherCallStep DEF Call
  <1>2. CASE Loop
    BY <1>2, BeginStep, ReturnStep, DispatchStep DEF Loop
  <1>3. CASE World
    BY <1>3, WorldStep
  <1>4. CASE UNCHANGED vars
    BY <1>4 DEF vars, pollerVars, envVars, IInv, TypeOK, Pairs, Mirrored, Rounds,
                Careful
  <1> QED
    BY <1>1, <1>2, <1>3, <1>4 DEF Next

LEMMA InvHolds == Spec => []IInv
  BY InitInv, InvInductive, PTL DEF Spec

(* roster_.at never throws, whatever the program does: every fd that was   *)
(* polled stays registered for the round, and so is every fd of the        *)
(* kernel's list, also one that is reported for an error alone.            *)
THEOREM TypeCorrect == Spec => []TypeOK
  <1>1. IInv => TypeOK
    BY DEF IInv
  <1> QED
    BY <1>1, InvHolds, PTL

(* A program that registers, changes, gives up and closes its fds by the   *)
(* contract meets no exception of Poller or Epoller, in whatever order and *)
(* from whichever callback it makes its calls.                             *)
THEOREM CarefulSafe == Spec => []CarefulNeverThrows
  <1>1. IInv => CarefulNeverThrows
    BY DEF IInv, Careful, CarefulNeverThrows
  <1> QED
    BY <1>1, InvHolds, PTL

(* For a careful program, the kernel's interest list is active_events_.    *)
THEOREM KernelFollows == Spec => []InterestMirrored
  <1>1. IInv => InterestMirrored
    <2> SUFFICES ASSUME IInv, up, misuses = 0, backend = "Epoller"
                 PROVE  interest = active_events
      BY DEF InterestMirrored
    <2>1. DOMAIN interest = DOMAIN active_events
      BY DEF IInv, TypeOK, Mirrored, Careful
    <2>2. \A fd \in DOMAIN interest : interest[fd] = active_events[fd]
      BY DEF IInv, Mirrored
    <2> QED
      BY <2>1, <2>2 DEF IInv, Mirrored
  <1> QED
    BY <1>1, InvHolds, PTL

-----------------------------------------------------------------------------
(* Both classes implement EventLoop.  The events of the round that may     *)
(* still be served are those asked of the kernel while it has the program, *)
(* and those it answered with after that.                                  *)

LEMMA AbstractInit == Init => Abstract!Init
  <1> SUFFICES ASSUME Init PROVE Abstract!Init
    OBVIOUS
  <1>1. Pairs(active_events) = {}
    <2>1. DOMAIN active_events = {}
      BY DEF Init, NoEvents
    <2> QED
      BY <2>1, InPairs
  <1> QED
    BY <1>1 DEF Init, Abstract!Init

LEMMA CallAbstract ==
  ASSUME IInv, Call
  PROVE  Abstract!Want \/ Abstract!Unwant \/ Abstract!GiveUp
  <1>1. ASSUME NEW fd \in Fds, NEW flag \in Flag, Register(fd, flag)
        PROVE  Abstract!Want
    <2>1. UNCHANGED <<fds_to_deregister, poll_pc, polled, revents>>
      BY <1>1 DEF Register
    <2>2. CASE active_events' = active_events
      BY <2>1, <2>2 DEF Abstract!Want, Pairs
    <2>3. CASE active_events' = WithEvent(active_events, fd, flag)
      <3>1. Pairs(active_events) \subseteq Pairs(WithEvent(active_events, fd, flag))
        BY WithEventFacts
      <3> QED
        BY <2>1, <2>3, <3>1 DEF Abstract!Want, Pairs
    <2> QED
      BY <1>1, <2>2, <2>3 DEF Register
  <1>2. ASSUME NEW fd \in Fds, NEW flag \in Flag, Activate(fd, flag)
        PROVE  Abstract!Want
    <2>1. /\ UNCHANGED <<fds_to_deregister, poll_pc, polled, revents>>
          /\ fd \in DOMAIN active_events
          /\ active_events' = Activated(fd, flag)
      BY <1>2 DEF Activate, Change
    <2>2. Pairs(active_events) \subseteq Pairs(Activated(fd, flag))
      BY <2>1, ChangeFacts
    <2> QED
      BY <2>1, <2>2 DEF Abstract!Want, Pairs
  <1>3. ASSUME NEW fd \in Fds, NEW flag \in Flag, Deactivate(fd, flag)
        PROVE  Abstract!Unwant
    <2>1. /\ UNCHANGED <<fds_to_deregister, poll_pc, polled, revents>>
          /\ fd \in DOMAIN active_events
          /\ active_events' = Deactivated(fd, flag)
      BY <1>3 DEF Deactivate, Change
    <2>2. Pairs(Deactivated(fd, flag)) \subseteq Pairs(active_events)
      BY <2>1, ChangeFacts
    <2> QED
      BY <2>1, <2>2 DEF Abstract!Unwant, Pairs
  <1>4. ASSUME NEW fd \in Fds,
               ChangeUnknown(fd) \/ Deregister(fd) \/ Close(fd) \/ Open(fd)
        PROVE  Abstract!GiveUp
    <2>1. /\ UNCHANGED <<active_events, poll_pc, polled, revents>>
          /\ fds_to_deregister \subseteq fds_to_deregister'
      BY <1>4 DEF ChangeUnknown, Deregister, Close, Open, pollerVars
    <2> QED
      BY <2>1 DEF Abstract!GiveUp, Pairs
  <1> QED
    BY <1>1, <1>2, <1>3, <1>4 DEF Call

LEMMA LoopAbstract ==
  ASSUME IInv, Loop
  PROVE  Abstract!Round \/ Abstract!Serve
  <1>1. CASE Begin
    <2>1. CASE \/ backend = "Poller" /\ PollBegin /\ UNCHANGED interest
               \/ backend = "Epoller" /\ EpollBegin
      <3>1. up
        BY <1>1 DEF Begin
      <3>2. revents = {}
        BY <2>1, <3>1, RoundBegins DEF IInv, Rounds
      <3> QED
        BY <2>1, <3>1, <3>2, RoundBegins DEF Abstract!Round
    <2>2. CASE UNCHANGED pollerVars
      BY <2>2 DEF pollerVars, Abstract!Serve, Pairs
    <2> QED
      BY <1>1, <2>1, <2>2 DEF Begin
  <1>2. CASE End
    BY <1>2 DEF End, PollEnd, Abstract!Serve, Pairs
  <1>3. ASSUME NEW fds \in SUBSET Fds, Return(fds)
        PROVE  Abstract!Serve
    <2>1. /\ poll_pc = "blocked" /\ poll_pc' = "dispatch"
          /\ revents' \subseteq polled
          /\ UNCHANGED <<active_events, fds_to_deregister>>
      BY <1>3 DEF Return, PollReturn, EpollReturn
    <2> QED
      BY <2>1 DEF Abstract!Serve, Pairs
  <1>4. ASSUME NEW e \in Events, Callback(e[1], e[2]) \/ Skip(e[1], e[2])
        PROVE  Abstract!Serve
    <2>1. /\ poll_pc = "dispatch" /\ poll_pc' = "dispatch"
          /\ revents' \subseteq revents
          /\ UNCHANGED <<active_events, fds_to_deregister>>
      BY <1>4 DEF Callback, Skip, RunCallback, PassOver
    <2> QED
      BY <2>1 DEF Abstract!Serve, Pairs
  <1> QED
    BY <1>1, <1>2, <1>3, <1>4 DEF Loop

LEMMA AbstractStep ==
  ASSUME IInv, [Next]_vars
  PROVE  [\/ Abstract!Want \/ Abstract!Unwant \/ Abstract!GiveUp
          \/ Abstract!Round \/ Abstract!Serve]_(Abstract!loopState)
  <1>1. CASE Call
    BY <1>1, CallAbstract
  <1>2. CASE Loop
    BY <1>2, LoopAbstract
  <1>3. CASE World \/ UNCHANGED vars
    BY <1>3 DEF World, vars, pollerVars, Abstract!loopState, Pairs
  <1> QED
    BY <1>1, <1>2, <1>3 DEF Next

(* Poller and Epoller implement EventLoop: a callback runs only for an     *)
(* event that was wanted when poll(2) or epoll_wait was entered, at most   *)
(* once a round, and not for an fd that was given up before, whatever the  *)
(* callbacks before it in the round registered, turned off or gave up.     *)
THEOREM LoopsImplement == Spec => ServesWhatIsWanted
  BY InvHolds, AbstractInit, AbstractStep, PTL
     DEF Spec, ServesWhatIsWanted, Abstract!Spec

-----------------------------------------------------------------------------
(* The inductive invariant of video_sender.  Between two polls, and from   *)
(* one callback of a round to the next, POLLOUT is active on the socket    *)
(* while the send buffer is not empty; and what poll(2) was entered with   *)
(* is what is active as long as it lasts, because only callbacks change    *)
(* that.                                                                   *)

SenderTypes == /\ send_buf \in Nat
               /\ inbox \in Seq({"ack", "other"})

Standing == /\ fds_to_deregister = {}
            /\ udp_sock \in DOMAIN active_events

Armed == send_buf > 0 => Out \in active_events[udp_sock]

AskedFor == poll_pc = "blocked" /\ Out \in active_events[udp_sock]
              => <<udp_sock, Out>> \in polled

SenderInv == SenderTypes /\ Standing /\ Armed /\ AskedFor

LEMMA SenderInitInv == SenderInit => SenderInv
  <1> SUFFICES ASSUME SenderInit PROVE SenderInv
    OBVIOUS
  <1>1. udp_sock \in DOMAIN Registered
    BY DEF Registered, WithEvent
  <1> QED
    BY <1>1 DEF SenderInit, SenderInv, SenderTypes, Standing, Armed, AskedFor

(* activate and deactivate on the socket. *)
LEMMA ArmingFacts ==
  ASSUME udp_sock \in DOMAIN active_events
  PROVE  /\ DOMAIN Activated(udp_sock, Out) = DOMAIN active_events
         /\ Out \in Activated(udp_sock, Out)[udp_sock]
         /\ DOMAIN Deactivated(udp_sock, Out) = DOMAIN active_events
  BY DEF Activated, Deactivated

-----------------------------------------------------------------------------
(* The steps of Poller::poll. *)
LEMMA SenderBeginStep ==
  ASSUME SenderInv, PollBegin, UNCHANGED loopVars
  PROVE  SenderInv'
  <1>1. /\ active_events' = [fd \in DOMAIN active_events |-> active_events[fd]]
        /\ fds_to_deregister' = {}
        /\ polled' = UNION {{fd} \X active_events'[fd] : fd \in DOMAIN active_events'}
        /\ UNCHANGED <<send_buf, inbox>>
    BY DEF PollBegin, Kept, SenderInv, Standing, loopVars
  <1>2. /\ udp_sock \in DOMAIN active_events'
        /\ active_events'[udp_sock] = active_events[udp_sock]
    BY <1>1 DEF SenderInv, Standing
  <1>3. ASSUME Out \in active_events'[udp_sock]
        PROVE  <<udp_sock, Out>> \in polled'
    BY <1>1, <1>2, <1>3
  <1> QED
    BY <1>1, <1>2, <1>3 DEF SenderInv, SenderTypes, Standing, Armed, AskedFor

LEMMA SenderReturnStep ==
  ASSUME SenderInv, NEW happened, NEW errors,
         PollEnd \/ PollReturn(happened, errors), UNCHANGED loopVars
  PROVE  SenderInv'
  BY DEF PollEnd, PollReturn, loopVars, SenderInv, SenderTypes, Standing, Armed,
         AskedFor

(* The callbacks.  None of them runs while poll(2) waits. *)
LEMMA FrameTimerStep ==
  ASSUME SenderInv, OnFrameTimer
  PROVE  SenderInv'
  <1>1. /\ poll_pc' = "dispatch" /\ UNCHANGED <<fds_to_deregister, inbox>>
        /\ active_events' = ArmedIfPending
    BY DEF OnFrameTimer, RunCallback
  <1>2. send_buf' \in Nat /\ send_buf' > 0
    BY VideoSenderAssumption DEF OnFrameTimer, SenderInv, SenderTypes
  <1>3. active_events' = Activated(udp_sock, Out)
    BY <1>1, <1>2 DEF ArmedIfPending
  <1> QED
    BY <1>1, <1>2, <1>3, ArmingFacts DEF SenderInv, SenderTypes, Standing, Armed, AskedFor

LEMMA WritableStep ==
  ASSUME SenderInv, OnWritable
  PROVE  SenderInv'
  <1>1. /\ poll_pc' = "dispatch" /\ UNCHANGED <<fds_to_deregister, inbox>>
        /\ active_events' = DisarmedIfEmpty
    BY DEF OnWritable, RunCallback
  <1>2. send_buf' \in 0..send_buf
    BY DEF OnWritable
  <1>3. CASE send_buf' = 0
    <2>1. active_events' = Deactivated(udp_sock, Out)
      BY <1>1, <1>3 DEF DisarmedIfEmpty
    <2> QED
      BY <1>1, <1>3, <2>1, ArmingFacts
         DEF SenderInv, SenderTypes, Standing, Armed, AskedFor
  <1>4. CASE send_buf' # 0
    <2>1. active_events' = active_events
      BY <1>1, <1>4 DEF DisarmedIfEmpty
    <2> QED
      BY <1>1, <1>2, <1>4, <2>1 DEF SenderInv, SenderTypes, Standing, Armed, AskedFor
  <1> QED
    BY <1>3, <1>4

(* The readable callback arms the socket only after an ACK, and only an    *)
(* ACK puts datagrams back.                                                *)
LEMMA ReadableStep ==
  ASSUME SenderInv, OnReadable
  PROVE  SenderInv'
  <1>1. PICK read \in 1..Len(inbox) :
          LET others == {i \in 1..read : inbox[i] = "other"}
              acked == read - Cardinality(others)
          IN /\ IF others = {} THEN read = Len(inbox) ELSE others = {read}
             /\ inbox' = SubSeq(inbox, read + 1, Len(inbox))
             /\ \E n \in 0..(acked * MaxRtx) : send_buf' = send_buf + n
             /\ active_events' = IF acked > 0 THEN ArmedIfPending
                                              ELSE active_events
    BY DEF OnReadable
  <1> DEFINE others == {i \in 1..read : inbox[i] = "other"}
             acked == read - Cardinality(others)
  <1>2. /\ others = {} \/ others = {read}
        /\ inbox' = SubSeq(inbox, read + 1, Len(inbox))
        /\ \E n \in 0..(acked * MaxRtx) : send_buf' = send_buf + n
        /\ active_events' = IF acked > 0 THEN ArmedIfPending ELSE active_events
    BY <1>1
  <1>3. poll_pc' = "dispatch" /\ UNCHANGED fds_to_deregister
    BY DEF OnReadable, RunCallback
  <1>4. read \in Nat /\ read > 0 /\ inbox' \in Seq({"ack", "other"})
    BY <1>2 DEF SenderInv, SenderTypes
  <1>5. Cardinality(others) \in {0, 1}
    BY <1>2, FS_EmptySet, FS_Singleton
  <1>6. acked \in Nat
    BY <1>4, <1>5
  <1> HIDE DEF acked, others
  <1>7. PICK n \in 0..(acked * MaxRtx) : send_buf' = send_buf + n
    BY <1>2
  <1>8. acked * MaxRtx \in Nat /\ (acked = 0 => acked * MaxRtx = 0)
    BY <1>6, VideoSenderAssumption
  <1>9. send_buf' \in Nat /\ (acked = 0 => send_buf' = send_buf)
    BY <1>7, <1>8 DEF SenderInv, SenderTypes
  <1>10. CASE acked > 0 /\ send_buf' > 0
    <2>1. active_events' = Activated(udp_sock, Out)
      BY <1>2, <1>10 DEF ArmedIfPending
    <2> QED
      BY <1>3, <1>4, <1>9, <2>1, ArmingFacts
         DEF SenderInv, SenderTypes, Standing, Armed, AskedFor
  <1>11. CASE ~(acked > 0 /\ send_buf' > 0)
    <2>1. active_events' = active_events
      BY <1>2, <1>11 DEF ArmedIfPending
    <2>2. send_buf' > 0 => send_buf' = send_buf
      BY <1>6, <1>9, <1>11
    <2> QED
      BY <1>3, <1>4, <1>9, <2>1, <2>2
         DEF SenderInv, SenderTypes, Standing, Armed, AskedFor
  <1> QED
    BY <1>10, <1>11

LEMMA OtherCallbackStep ==
  ASSUME SenderInv, SendThrows \/ RecvThrows \/ OnStatsTimer
  PROVE  SenderInv'
  BY DEF SendThrows, RecvThrows, OnStatsTimer, RunCallback, SenderInv, SenderTypes,
         Standing, Armed, AskedFor

(* The kernel fills the socket and runs the timers, at any time. *)
LEMMA KernelStep ==
  ASSUME SenderInv,
         \/ TimerExpires \/ StatsTimerExpires
         \/ MessageArrives \/ SocketDrains \/ ErrorArrives
  PROVE  SenderInv'
  <1>1. /\ UNCHANGED <<active_events, fds_to_deregister, poll_pc, polled, send_buf>>
        /\ inbox' = inbox \/ \E m \in {"ack", "other"} : inbox' = Append(inbox, m)
    BY DEF TimerExpires, StatsTimerExpires, MessageArrives, SocketDrains,
           ErrorArrives, pollerVars
  <1>2. inbox' \in Seq({"ack", "other"})
    BY <1>1 DEF SenderInv, SenderTypes
  <1> QED
    BY <1>1, <1>2 DEF SenderInv, SenderTypes, Standing, Armed, AskedFor

-----------------------------------------------------------------------------
LEMMA SenderInductive ==
  ASSUME SenderInv, [SenderNext]_senderVars
  PROVE  SenderInv'
  <1>1. CASE Poll
    BY <1>1, SenderBeginStep, SenderReturnStep, FrameTimerStep, WritableStep, ReadableStep,
       OtherCallbackStep DEF Poll
  <1>2. CASE SenderNext /\ ~Poll
    BY <1>2, KernelStep DEF SenderNext
  <1>3. CASE UNCHANGED senderVars
    BY <1>3 DEF senderVars, pollerVars, loopVars, SenderInv, SenderTypes, Standing, Armed, AskedFor
  <1> QED
    BY <1>1, <1>2, <1>3

(* The loop never sleeps on unsent datagrams: poll(2) is entered with      *)
(* POLLOUT on the socket whenever the send buffer is not empty, whichever  *)
(* callbacks of video_sender.cc ran before and in whatever order.          *)
THEOREM NeverSleepsOnData == SenderSpec => []ArmedWhilePending
  <1>1. SenderInv => ArmedWhilePending
    BY DEF SenderInv, Armed, AskedFor, ArmedWhilePending
  <1> QED
    BY <1>1, SenderInitInv, SenderInductive, PTL DEF SenderSpec
=============================================================================
