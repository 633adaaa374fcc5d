-------------------------- MODULE SessionLifecycle --------------------------
(***************************************************************************)
(* What eiger promises of its sessions: a session occupies one of          *)
(* MaxConcurrentSessions slots from its launch to the end of its shutdown, *)
(* can be found by its id once and for an unbroken time in between, and    *)
(* gives the slot back exactly once, possibly straight to a session that   *)
(* was waiting for it.                                                     *)
(***************************************************************************)
EXTENDS Naturals, FiniteSets

CONSTANTS Requests, MaxConcurrentSessions

VARIABLE phase   \* free, starting, listed or retired, for each session

Occupied == {s \in Requests : phase[s] # "free"}

Init == phase = [s \in Requests |-> "free"]

Start(s) ==
  /\ phase[s] = "free"
  /\ Cardinality(Occupied) < MaxConcurrentSessions
  /\ phase' = [phase EXCEPT ![s] = "starting"]

Publish(s) ==
  /\ phase[s] = "starting"
  /\ phase' = [phase EXCEPT ![s] = "listed"]

Retire(s) ==
  /\ phase[s] = "listed"
  /\ phase' = [phase EXCEPT ![s] = "retired"]

Ended(s) == phase[s] \in {"starting", "retired"}

End(s) ==
  /\ Ended(s)
  /\ phase' = [phase EXCEPT ![s] = "free"]

HandOver(s, waiting) ==
  /\ Ended(s)
  /\ phase[waiting] = "free"
  /\ phase' = [phase EXCEPT ![s] = "free", ![waiting] = "starting"]

Next ==
  \/ \E s \in Requests : Start(s) \/ Publish(s) \/ Retire(s) \/ End(s)
  \/ \E s, waiting \in Requests : HandOver(s, waiting)

Spec == Init /\ [][Next]_phase

=============================================================================
