-------------------------- MODULE ProcessLifecycle --------------------------
(***************************************************************************)
(* What eiger promises of the Chrome process of a session: once a launch   *)
(* has handed it out it has an owner until it is on its way out, and it is *)
(* gone before a process is launched under its name again.  Only a launch  *)
(* that does not get that far can leave its process to itself.             *)
(***************************************************************************)
CONSTANT Processes

VARIABLE phase   \* none, launching, owned, ending or orphan, for each process

Init == phase = [p \in Processes |-> "none"]

Move(p, from, to) ==
  /\ phase[p] \in from
  /\ phase' = [phase EXCEPT ![p] = to]

Launch(p) == Move(p, {"none"}, "launching")

HandOut(p) == Move(p, {"launching"}, "owned")

Abandon(p) == Move(p, {"launching"}, "orphan")

(* Somebody is about to end it, or it has exited and is not reaped yet.    *)
End(p) == Move(p, {"launching", "owned", "orphan"}, "ending")

Vanish(p) == Move(p, {"launching", "owned", "orphan", "ending"}, "none")

Next ==
  \E p \in Processes :
    Launch(p) \/ HandOut(p) \/ Abandon(p) \/ End(p) \/ Vanish(p)

Spec == Init /\ [][Next]_phase

=============================================================================
