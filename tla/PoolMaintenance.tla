-------------------------- MODULE PoolMaintenance --------------------------
(***************************************************************************)
(* eiger-pool's maintenance task: every maintenance_interval a pass clones *)
(* the entries of the map and visits them one after the other, deciding    *)
(* from lifetime, idleness, memory, process and CDP health whether to      *)
(* terminate each.  The pass awaits the shutdown of each session it        *)
(* terminates and the health check of each session it keeps.               *)
(***************************************************************************)
EXTENDS SessionPool

CONSTANT PsMayFail   \* ps may be missing or impossible to spawn

ASSUME PsAssumption == PsMayFail \in BOOLEAN

visited == target[Maintenance]

(* The visit of the current entry goes on at next, or ends in a verdict.   *)
Proceed(next) ==
  /\ Goto(Maintenance, next)
  /\ UNCHANGED op

Recycle(reason) ==
  /\ Goto(Maintenance, "terminate")
  /\ op' = [op EXCEPT ![Maintenance] = reason]

PassBegins ==
  /\ pc[Maintenance] = "sleep"
  /\ clones' = [clones EXCEPT ![Maintenance] = sessions]
  /\ Proceed("scan")
  /\ UNCHANGED <<queueVars, target, sessions, entryVars, launchVars>>

PassEnds ==
  /\ pc[Maintenance] = "scan"
  /\ clones[Maintenance] = {}
  /\ Proceed("sleep")
  /\ UNCHANGED <<queueVars, target, clones, sessions, entryVars, launchVars>>

(* An entry that is being killed already is skipped.                       *)
SkipEntry(s) ==
  /\ pc[Maintenance] = "scan"
  /\ s \in clones[Maintenance]
  /\ state[s] \in {"Killing", "Dead"}
  /\ clones' = [clones EXCEPT ![Maintenance] = @ \ {s}]
  /\ UNCHANGED <<pc, op, target, sessions, launchVars>>
  /\ DropEntry(s)

(* Mutant: lifetime, like idleness, is looked at of Ready sessions only.   *)
LifetimeExceededReady(s) == s \in expired /\ state[s] = "Ready"

LifetimeExceeded(s) == s \in expired

(* Lifetime is looked at first; idleness only of a session seen Ready. The *)
(* code reads the state twice, here once: a session that is killed between *)
(* the two is sampled, as one killed after the second is.                  *)
VisitEntry(s) ==
  /\ pc[Maintenance] = "scan"
  /\ s \in clones[Maintenance]
  /\ state[s] \notin {"Killing", "Dead"}
  /\ clones' = [clones EXCEPT ![Maintenance] = @ \ {s}]
  /\ target' = [target EXCEPT ![Maintenance] = s]
  /\ IF LifetimeExceeded(s) THEN Recycle("lifetime")
     ELSE Proceed(IF state[s] = "Ready" THEN "idle_check" ELSE "sample")
  /\ UNCHANGED <<queueVars, sessions, entryVars, launchVars>>

(* The session was Ready when VisitEntry looked; it may not be any more.   *)
CheckIdle ==
  /\ pc[Maintenance] = "idle_check"
  /\ IF visited \in idle THEN Recycle("idle") ELSE Proceed("sample")
  /\ UNCHANGED <<queueVars, target, clones, sessions, entryVars, launchVars>>

(* Mutant: ps leaves out processes that have exited.                       *)
LiveInProcessTable(s) == Alive(s)

(* ps lists a zombie like any other process, until it is waited for.       *)
InProcessTable(s) == proc[s] # "none"

(* sample_process_tree finds no such process, cannot run ps, or finds too  *)
(* much memory.                                                            *)
SampleFails ==
  /\ pc[Maintenance] = "sample"
  /\ \/ (~InProcessTable(visited) \/ PsMayFail) /\ Recycle("exited")
     \/ Alive(visited) /\ Recycle("rss")
  /\ UNCHANGED <<queueVars, target, clones, sessions, entryVars, launchVars>>

(* The sample is good and the CDP health check is due.                     *)
BeginHealthCheck ==
  /\ pc[Maintenance] = "sample"
  /\ InProcessTable(visited)
  /\ Proceed("health")
  /\ UNCHANGED <<queueVars, target, clones, sessions, entryVars, launchVars>>

(* The session is kept: its CDP health was checked recently, or is good.   *)
KeepSession ==
  LET s == visited IN
  /\ \/ pc[Maintenance] = "sample" /\ InProcessTable(s)
     \/ pc[Maintenance] = "health" /\ proc[s] = "running"
  /\ UNCHANGED <<clones, sessions, launchVars>>
  /\ Return(Maintenance)
  /\ DropEntry(s)

(* connect_async is refused, or Target.getTargets fails or is late.        *)
HealthFails ==
  /\ pc[Maintenance] = "health"
  /\ proc[visited] # "hung"
  /\ Recycle("unhealthy")
  /\ UNCHANGED <<queueVars, target, clones, sessions, entryVars, launchVars>>

(* A browser that hangs is found out only if it answered the WebSocket     *)
(* handshake before: connect_async has no timeout of its own.              *)
HealthTimesOut ==
  /\ pc[Maintenance] = "health"
  /\ proc[visited] = "hung"
  /\ Recycle("unhealthy")
  /\ UNCHANGED <<queueVars, target, clones, sessions, entryVars, launchVars>>

(* The steps the task takes by itself; HealthTimesOut needs luck.          *)
MaintenanceStep ==
  \/ PassBegins
  \/ PassEnds
  \/ \E s \in Requests : SkipEntry(s) \/ VisitEntry(s)
  \/ CheckIdle
  \/ SampleFails
  \/ BeginHealthCheck
  \/ KeepSession
  \/ HealthFails

MaintenanceNext == MaintenanceStep \/ HealthTimesOut

=============================================================================
