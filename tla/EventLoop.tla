------------------------------ MODULE EventLoop ------------------------------
(***************************************************************************)
(* What Poller and Epoller promise alike.  A program says which events it  *)
(* wants; each round waits for events wanted at its beginning, and serves  *)
(* each of them at most once.  An fd given up stays until the next round   *)
(* begins, and what is wanted of it until then goes with it.               *)
(***************************************************************************)
VARIABLES
  wanted,    \* events, pairs of an fd and a flag
  leaving,   \* fds given up since the last round began
  asked      \* events of this round that may still be served

loopState == <<wanted, leaving, asked>>

Init == wanted = {} /\ leaving = {} /\ asked = {}

Want == /\ wanted \subseteq wanted'
        /\ UNCHANGED <<leaving, asked>>

Unwant == /\ wanted' \subseteq wanted
          /\ UNCHANGED <<leaving, asked>>

GiveUp == /\ leaving \subseteq leaving'
          /\ UNCHANGED <<wanted, asked>>

Round == /\ asked = {}
         /\ wanted' = {e \in wanted : e[1] \notin leaving}
         /\ leaving' = {}
         /\ asked' \subseteq wanted'

Serve == /\ asked' \subseteq asked
         /\ UNCHANGED <<wanted, leaving>>

Spec == Init /\ [][Want \/ Unwant \/ GiveUp \/ Round \/ Serve]_loopState
=============================================================================
