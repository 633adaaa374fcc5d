------------------------ MODULE SessionServerProofs ------------------------
(***************************************************************************)
(* The inductive invariant of SessionServer and the safety theorems that   *)
(* follow from it, for every set of requests and every capacity.           *)
(***************************************************************************)
EXTENDS SessionServer, LaunchQueueProofs

Launching(r) == pc[r] \in {"queued"} \cup LaunchPCs

TerminatingOps ==
  {"rest", "delete", "connect_new", "connect_existing"} \cup RecycleReasons

(* A task is where its operation takes it.                                 *)
OpInv ==
  \A t \in Tasks :
    /\ pc[t] \in {"queued"} \cup LaunchPCs => op[t] \in CreateOps
    /\ pc[t] = "claim" => op[t] = "connect_existing"
    /\ pc[t] \in ClientPCs =>
         op[t] \in {"rest", "connect_new", "connect_existing"}
    /\ pc[t] \in {"terminate"} \cup ShutdownPCs => op[t] \in TerminatingOps

TargetInv ==
  \A t \in Tasks :
    pc[t] \in HoldingPCs \cup {"terminate"} => target[t] \in Requests

(* Nobody knows a session before it is published.                          *)
NameInv ==
  \A r \in Requests : Launching(r) =>
    r \notin Entries /\ \A t \in Tasks : target[t] # r

(* Only an iteration has clones.                                           *)
ClonesInv ==
  /\ \A r \in Requests : clones[r] # {} => pc[r] = "listing"
  /\ pc[Maintenance] = "sleep" => clones[Maintenance] = {}

(* A permit belongs to a launch or to an entry, and both have one.         *)
OwnerInv ==
  /\ \A w \in Waiters : pc[w] = "queued"
  /\ \A r \in Requests : pc[r] \in LaunchPCs => r \in owners
  /\ \A r \in owners : Launching(r) \/ r \in Entries
  /\ Entries \subseteq owners

(* An entry lives exactly as long as something refers to it.               *)
RefInv == \A s \in Requests : s \in Entries <=> Referenced(s)

BrowserInv ==
  /\ browser \subseteq Entries
  /\ \A s \in Requests : Alive(s) =>
       \/ pc[s] \in {"launching", "launched"}
       \/ s \in browser
       \/ \E t \in Tasks : target[t] = s /\ pc[t] = "shutting"

(* At most one task shuts a session down, once it is not listed any more.  *)
ShutdownInv ==
  /\ \A t \in Tasks : pc[t] \in ShutdownPCs => target[t] \notin sessions
  /\ \A t, u \in Tasks :
       /\ pc[t] \in ShutdownPCs /\ pc[u] \in ShutdownPCs
       /\ target[t] = target[u]
       => t = u
  /\ \A t \in Tasks : pc[t] = "removed" => killReason[target[t]] = "none"
  /\ \A s \in Requests : s \notin Entries => killReason[s] = "none"

Inv ==
  /\ TypeOK /\ QueueInv
  /\ OpInv /\ TargetInv /\ NameInv /\ ClonesInv /\ OwnerInv /\ RefInv
  /\ BrowserInv /\ ListedSessionsLive /\ ShutdownInv

----------------------------------------------------------------------------
(* Facts used throughout *)

(* Maintenance and NoSession are not requests.                             *)
LEMMA TaskNames == \A r \in Requests : r # Maintenance /\ r # NoSession
BY TaskAssumption

(* A step that leaves the semaphore alone keeps what is known of it.       *)
LEMMA QueueFrame ==
  ASSUME QueueInv, UNCHANGED queueVars
  PROVE  QueueInv' /\ QueueTypeOK' /\ Waiters' = Waiters
BY DEF QueueInv, QueueTypeOK, Waiters, queueVars

(* Waiters are requests that own no permit.                                *)
LEMMA WaitersFacts ==
  ASSUME QueueInv
  PROVE  Waiters \subseteq Requests /\ Waiters \cap owners = {}
BY DEF QueueInv, QueueTypeOK, Waiters

----------------------------------------------------------------------------
(* Steps that let go of no reference *)

(* A waiter that was given a permit owns it.                               *)
LEMMA QueueGrantedInv ==
  ASSUME Inv, NEW r \in Requests, QueueGranted(r)
  PROVE  Inv'
<1> USE TaskNames DEF Tasks, Inv, QueueGranted, Goto, queueVars, entryVars,
      fieldVars, launchVars
<1>1. QueueInv' /\ QueueTypeOK' /\ Waiters' = Waiters
  BY QueueFrame
<1>2. TypeOK' /\ OpInv' /\ TargetInv'
  BY <1>1 DEF TypeOK, OpInv, TargetInv, RefInv, Referenced, Entries,
     TerminatingOps, LaunchPCs, HoldingPCs, ClientPCs, ShutdownPCs, PoolOps,
     CreateOps, RecycleReasons, KillReasons, ProcStates, PCs
<1>3. NameInv' /\ ClonesInv'
  BY DEF TypeOK, NameInv, ClonesInv, RefInv, Referenced, Entries, Launching,
     LaunchPCs, ShutdownPCs
<1>4. OwnerInv'
  BY <1>1, WaitersFacts DEF TypeOK, OwnerInv, RefInv, Referenced, Holds,
     Entries, Launching, LaunchPCs, HoldingPCs, ClientPCs, ShutdownPCs
<1>5. RefInv'
  BY DEF TypeOK, RefInv, NameInv, ClonesInv, TargetInv, OpInv, Referenced,
     Holds, Entries, Launching, LaunchPCs, HoldingPCs, ClientPCs, ShutdownPCs
<1>6. BrowserInv' /\ ListedSessionsLive'
  BY DEF TypeOK, BrowserInv, ListedSessionsLive, ShutdownInv, NameInv, Alive,
     Entries, Launching, LaunchPCs, ShutdownPCs
<1>7. ShutdownInv'
  BY DEF TypeOK, ShutdownInv, ListedSessionsLive, RefInv, Referenced, Entries,
     ShutdownPCs
<1> QED
  BY <1>1, <1>2, <1>3, <1>4, <1>5, <1>6, <1>7

(* The new process belongs to a launch.                                    *)
LEMMA SpawnChromeInv ==
  ASSUME Inv, NEW r \in Requests, SpawnChrome(r)
  PROVE  Inv'
<1> USE TaskNames DEF Tasks, Inv, SpawnChrome, Goto, queueVars, fieldVars,
      launchVars
<1>1. QueueInv' /\ QueueTypeOK' /\ Waiters' = Waiters
  BY QueueFrame
<1>2. TypeOK' /\ OpInv' /\ TargetInv'
  BY <1>1 DEF TypeOK, OpInv, TargetInv, RefInv, Referenced, Entries,
     TerminatingOps, LaunchPCs, HoldingPCs, ClientPCs, ShutdownPCs, PoolOps,
     CreateOps, RecycleReasons, KillReasons, ProcStates, PCs
<1>3. NameInv' /\ ClonesInv'
  BY DEF TypeOK, NameInv, ClonesInv, RefInv, Referenced, Entries, Launching,
     LaunchPCs, ShutdownPCs
<1>4. OwnerInv'
  BY <1>1, WaitersFacts DEF TypeOK, OwnerInv, RefInv, Referenced, Holds,
     Entries, Launching, LaunchPCs, HoldingPCs, ClientPCs, ShutdownPCs
<1>5. RefInv'
  BY DEF TypeOK, RefInv, NameInv, ClonesInv, TargetInv, OpInv, Referenced,
     Holds, Entries, Launching, LaunchPCs, HoldingPCs, ClientPCs, ShutdownPCs
<1>6. BrowserInv' /\ ListedSessionsLive'
  BY DEF TypeOK, BrowserInv, ListedSessionsLive, ShutdownInv, NameInv, Alive,
     Entries, Launching, LaunchPCs, ShutdownPCs
<1>7. ShutdownInv'
  BY DEF TypeOK, ShutdownInv, ListedSessionsLive, RefInv, Referenced, Entries,
     ShutdownPCs
<1> QED
  BY <1>1, <1>2, <1>3, <1>4, <1>5, <1>6, <1>7

(* The process of a failed launch is gone.                                 *)
LEMMA LaunchFailsInv ==
  ASSUME Inv, NEW r \in Requests, LaunchFails(r)
  PROVE  Inv'
<1> USE TaskNames DEF Tasks, Inv, LaunchFails, Goto, queueVars, fieldVars
<1>1. QueueInv' /\ QueueTypeOK' /\ Waiters' = Waiters
  BY QueueFrame
<1>2. TypeOK' /\ OpInv' /\ TargetInv'
  BY <1>1 DEF TypeOK, OpInv, TargetInv, RefInv, Referenced, Entries,
     TerminatingOps, LaunchPCs, HoldingPCs, ClientPCs, ShutdownPCs, PoolOps,
     CreateOps, RecycleReasons, KillReasons, ProcStates, PCs
<1>3. NameInv' /\ ClonesInv'
  BY DEF TypeOK, NameInv, ClonesInv, RefInv, Referenced, Entries, Launching,
     LaunchPCs, ShutdownPCs
<1>4. OwnerInv'
  BY <1>1, WaitersFacts DEF TypeOK, OwnerInv, RefInv, Referenced, Holds,
     Entries, Launching, LaunchPCs, HoldingPCs, ClientPCs, ShutdownPCs
<1>5. RefInv'
  BY DEF TypeOK, RefInv, NameInv, ClonesInv, TargetInv, OpInv, Referenced,
     Holds, Entries, Launching, LaunchPCs, HoldingPCs, ClientPCs, ShutdownPCs
<1>6. BrowserInv' /\ ListedSessionsLive'
  BY DEF TypeOK, BrowserInv, ListedSessionsLive, ShutdownInv, NameInv, Alive,
     Entries, Launching, LaunchPCs, ShutdownPCs
<1>7. ShutdownInv'
  BY DEF TypeOK, ShutdownInv, ListedSessionsLive, RefInv, Referenced, Entries,
     ShutdownPCs
<1> QED
  BY <1>1, <1>2, <1>3, <1>4, <1>5, <1>6, <1>7

(* Only readiness changes.                                                 *)
LEMMA LaunchSucceedsInv ==
  ASSUME Inv, NEW r \in Requests, LaunchSucceeds(r)
  PROVE  Inv'
<1> USE TaskNames DEF Tasks, Inv, LaunchSucceeds, Goto, queueVars, entryVars,
      fieldVars, Alive
<1>1. QueueInv' /\ QueueTypeOK' /\ Waiters' = Waiters
  BY QueueFrame
<1>2. TypeOK' /\ OpInv' /\ TargetInv'
  BY <1>1 DEF TypeOK, OpInv, TargetInv, RefInv, Referenced, Entries,
     TerminatingOps, LaunchPCs, HoldingPCs, ClientPCs, ShutdownPCs, PoolOps,
     CreateOps, RecycleReasons, KillReasons, ProcStates, PCs
<1>3. NameInv' /\ ClonesInv'
  BY DEF TypeOK, NameInv, ClonesInv, RefInv, Referenced, Entries, Launching,
     LaunchPCs, ShutdownPCs
<1>4. OwnerInv'
  BY <1>1, WaitersFacts DEF TypeOK, OwnerInv, RefInv, Referenced, Holds,
     Entries, Launching, LaunchPCs, HoldingPCs, ClientPCs, ShutdownPCs
<1>5. RefInv'
  BY DEF TypeOK, RefInv, NameInv, ClonesInv, TargetInv, OpInv, Referenced,
     Holds, Entries, Launching, LaunchPCs, HoldingPCs, ClientPCs, ShutdownPCs
<1>6. BrowserInv' /\ ListedSessionsLive'
  BY DEF TypeOK, BrowserInv, ListedSessionsLive, ShutdownInv, NameInv, Alive,
     Entries, Launching, LaunchPCs, ShutdownPCs
<1>7. ShutdownInv'
  BY DEF TypeOK, ShutdownInv, ListedSessionsLive, RefInv, Referenced, Entries,
     ShutdownPCs
<1> QED
  BY <1>1, <1>2, <1>3, <1>4, <1>5, <1>6, <1>7

(* No task has heard of a session whose launch ends.                       *)
LEMMA PublishSessionInv ==
  ASSUME Inv, NEW r \in Requests, PublishSession(r)
  PROVE  Inv'
<1> USE TaskNames DEF Tasks, Inv, PublishSession, Goto, queueVars
<1>1. QueueInv' /\ QueueTypeOK' /\ Waiters' = Waiters
  BY QueueFrame
<1>2. TypeOK' /\ OpInv' /\ TargetInv'
  <2>1. /\ op[r] \in CreateOps
        /\ pc'[r] \in {"respond", "upgrade", "mark"}
        /\ pc'[r] \in ClientPCs => op[r] \in {"connect_new", "rest"}
    BY DEF TypeOK, OpInv, CreateOps, LaunchPCs, ClientPCs
  <2>2. pc' = [pc EXCEPT ![r] = pc'[r]]
    BY DEF TypeOK
  <2> HIDE DEF PublishSession
  <2>3. /\ sessions' = sessions \cup {r} /\ browser' = browser \cup {r}
        /\ state' = [state EXCEPT ![r] = "Ready"]
        /\ target' = [target EXCEPT ![r] = r]
        /\ launchError' = FALSE
        /\ UNCHANGED <<op, clones, killReason, idle, expired, proc,
                       launchReady>>
    BY DEF PublishSession
  <2>4. TypeOK'
    BY <1>1, <2>1, <2>2, <2>3 DEF TypeOK, PCs, HoldingPCs, ClientPCs
  <2>5. pc'[r] \notin {"queued", "claim", "terminate"} \cup LaunchPCs
                    \cup ShutdownPCs
    BY <2>1 DEF LaunchPCs, ShutdownPCs
  <2>6. OpInv'
    BY <2>1, <2>2, <2>3, <2>5 DEF TypeOK, OpInv
  <2> QED
    BY <2>2, <2>3, <2>4, <2>6 DEF TypeOK, TargetInv
<1>3. NameInv' /\ ClonesInv'
  BY DEF TypeOK, NameInv, ClonesInv, RefInv, Referenced, Entries, Launching,
     LaunchPCs, ShutdownPCs
<1>4. OwnerInv'
  BY <1>1, WaitersFacts DEF TypeOK, OwnerInv, RefInv, Referenced, Holds,
     Entries, Launching, LaunchPCs, HoldingPCs, ClientPCs, ShutdownPCs
<1>5. RefInv'
  BY DEF TypeOK, RefInv, NameInv, ClonesInv, TargetInv, OpInv, Referenced,
     Holds, Entries, Launching, LaunchPCs, HoldingPCs, ClientPCs, ShutdownPCs
<1>6. BrowserInv' /\ ListedSessionsLive'
  BY DEF TypeOK, BrowserInv, ListedSessionsLive, ShutdownInv, NameInv, Alive,
     Entries, Launching, LaunchPCs, ShutdownPCs
<1>7. ShutdownInv'
  <2>1. r \notin Entries /\ \A t \in Tasks : target[t] # r
    BY DEF NameInv, Launching, LaunchPCs
  <2>2. \A t \in Tasks : pc'[t] \in ShutdownPCs =>
                          pc'[t] = pc[t] /\ target'[t] = target[t]
    BY DEF TypeOK, ShutdownPCs
  <2>3. \A s \in Requests : s \notin Entries' => s \notin Entries
    BY DEF TypeOK, Entries
  <2> QED
    BY <2>1, <2>2, <2>3 DEF ShutdownInv, ShutdownPCs
<1> QED
  BY <1>1, <1>2, <1>3, <1>4, <1>5, <1>6, <1>7

(* A session that is marked is not listed any more, or not yet killed.     *)
LEMMA MarkInUseInv ==
  ASSUME Inv, NEW r \in Requests, MarkInUse(r)
  PROVE  Inv'
<1> USE TaskNames DEF Tasks, Inv, MarkInUse, Goto, queueVars, launchVars
<1>1. QueueInv' /\ QueueTypeOK' /\ Waiters' = Waiters
  BY QueueFrame
<1>2. TypeOK' /\ OpInv' /\ TargetInv'
  BY <1>1 DEF TypeOK, OpInv, TargetInv, RefInv, Referenced, Entries,
     TerminatingOps, LaunchPCs, HoldingPCs, ClientPCs, ShutdownPCs, PoolOps,
     CreateOps, RecycleReasons, KillReasons, ProcStates, PCs, ClientReasons,
     Reason
<1>3. NameInv' /\ ClonesInv'
  BY DEF TypeOK, NameInv, ClonesInv, RefInv, Referenced, Entries, Launching,
     LaunchPCs, ShutdownPCs
<1>4. OwnerInv'
  BY <1>1, WaitersFacts DEF TypeOK, OwnerInv, RefInv, Referenced, Holds,
     Entries, Launching, LaunchPCs, HoldingPCs, ClientPCs, ShutdownPCs
<1>5. RefInv'
  BY DEF TypeOK, RefInv, NameInv, ClonesInv, TargetInv, OpInv, Referenced,
     Holds, Entries, Launching, LaunchPCs, HoldingPCs, ClientPCs, ShutdownPCs
<1>6. BrowserInv' /\ ListedSessionsLive'
  BY DEF TypeOK, BrowserInv, ListedSessionsLive, ShutdownInv, NameInv, Alive,
     Entries, Launching, LaunchPCs, ShutdownPCs
<1>7. ShutdownInv'
  BY DEF TypeOK, ShutdownInv, ListedSessionsLive, RefInv, Referenced, Entries,
     ShutdownPCs
<1> QED
  BY <1>1, <1>2, <1>3, <1>4, <1>5, <1>6, <1>7

(* Only the idle time changes.                                             *)
LEMMA TouchInv ==
  ASSUME Inv, NEW r \in Requests, Touch(r)
  PROVE  Inv'
<1> USE TaskNames DEF Tasks, Inv, Touch, Goto, queueVars, launchVars
<1>1. QueueInv' /\ QueueTypeOK' /\ Waiters' = Waiters
  BY QueueFrame
<1>2. TypeOK' /\ OpInv' /\ TargetInv'
  BY <1>1 DEF TypeOK, OpInv, TargetInv, RefInv, Referenced, Entries,
     TerminatingOps, LaunchPCs, HoldingPCs, ClientPCs, ShutdownPCs, PoolOps,
     CreateOps, RecycleReasons, KillReasons, ProcStates, PCs, ClientReasons,
     Reason
<1>3. NameInv' /\ ClonesInv'
  BY DEF TypeOK, NameInv, ClonesInv, RefInv, Referenced, Entries, Launching,
     LaunchPCs, ShutdownPCs
<1>4. OwnerInv'
  BY <1>1, WaitersFacts DEF TypeOK, OwnerInv, RefInv, Referenced, Holds,
     Entries, Launching, LaunchPCs, HoldingPCs, ClientPCs, ShutdownPCs
<1>5. RefInv'
  BY DEF TypeOK, RefInv, NameInv, ClonesInv, TargetInv, OpInv, Referenced,
     Holds, Entries, Launching, LaunchPCs, HoldingPCs, ClientPCs, ShutdownPCs
<1>6. BrowserInv' /\ ListedSessionsLive'
  BY DEF TypeOK, BrowserInv, ListedSessionsLive, ShutdownInv, NameInv, Alive,
     Entries, Launching, LaunchPCs, ShutdownPCs
<1>7. ShutdownInv'
  BY DEF TypeOK, ShutdownInv, ListedSessionsLive, RefInv, Referenced, Entries,
     ShutdownPCs
<1> QED
  BY <1>1, <1>2, <1>3, <1>4, <1>5, <1>6, <1>7

(* Nobody else shuts the removed session down.                             *)
LEMMA BeginShutdownInv ==
  ASSUME Inv, NEW t \in Tasks, BeginShutdown(t)
  PROVE  Inv'
<1> USE TaskNames DEF Tasks, Inv, BeginShutdown, Goto, queueVars, launchVars
<1>1. QueueInv' /\ QueueTypeOK' /\ Waiters' = Waiters
  BY QueueFrame
<1>2. TypeOK' /\ OpInv' /\ TargetInv'
  BY <1>1 DEF TypeOK, OpInv, TargetInv, RefInv, Referenced, Entries,
     TerminatingOps, LaunchPCs, HoldingPCs, ClientPCs, ShutdownPCs, PoolOps,
     CreateOps, RecycleReasons, KillReasons, ProcStates, PCs, ClientReasons,
     Reason
<1>3. NameInv' /\ ClonesInv'
  BY DEF TypeOK, NameInv, ClonesInv, RefInv, Referenced, Entries, Launching,
     LaunchPCs, ShutdownPCs
<1>4. OwnerInv'
  BY <1>1, WaitersFacts DEF TypeOK, OwnerInv, RefInv, Referenced, Holds,
     Entries, Launching, LaunchPCs, HoldingPCs, ClientPCs, ShutdownPCs
<1>5. RefInv'
  BY DEF TypeOK, RefInv, NameInv, ClonesInv, TargetInv, OpInv, Referenced,
     Holds, Entries, Launching, LaunchPCs, HoldingPCs, ClientPCs, ShutdownPCs
<1>6. BrowserInv' /\ ListedSessionsLive'
  BY DEF TypeOK, BrowserInv, ListedSessionsLive, ShutdownInv, NameInv, Alive,
     Entries, Launching, LaunchPCs, ShutdownPCs
<1>7. ShutdownInv'
  BY DEF TypeOK, ShutdownInv, ListedSessionsLive, RefInv, Referenced, Entries,
     ShutdownPCs
<1> QED
  BY <1>1, <1>2, <1>3, <1>4, <1>5, <1>6, <1>7

(* The task that takes the browser out of the entry answers for it.        *)
LEMMA TakeBrowserInv ==
  ASSUME Inv, NEW t \in Tasks, TakeBrowser(t)
  PROVE  Inv'
<1> USE TaskNames DEF Tasks, Inv, TakeBrowser, Goto, queueVars, fieldVars,
      launchVars
<1>1. QueueInv' /\ QueueTypeOK' /\ Waiters' = Waiters
  BY QueueFrame
<1>2. TypeOK' /\ OpInv' /\ TargetInv'
  BY <1>1 DEF TypeOK, OpInv, TargetInv, RefInv, Referenced, Entries,
     TerminatingOps, LaunchPCs, HoldingPCs, ClientPCs, ShutdownPCs, PoolOps,
     CreateOps, RecycleReasons, KillReasons, ProcStates, PCs
<1>3. NameInv' /\ ClonesInv'
  BY DEF TypeOK, NameInv, ClonesInv, RefInv, Referenced, Entries, Launching,
     LaunchPCs, ShutdownPCs
<1>4. OwnerInv'
  BY <1>1, WaitersFacts DEF TypeOK, OwnerInv, RefInv, Referenced, Holds,
     Entries, Launching, LaunchPCs, HoldingPCs, ClientPCs, ShutdownPCs
<1>5. RefInv'
  BY DEF TypeOK, RefInv, NameInv, ClonesInv, TargetInv, OpInv, Referenced,
     Holds, Entries, Launching, LaunchPCs, HoldingPCs, ClientPCs, ShutdownPCs
<1>6. BrowserInv' /\ ListedSessionsLive'
  BY DEF TypeOK, BrowserInv, ListedSessionsLive, ShutdownInv, NameInv, Alive,
     Entries, Launching, LaunchPCs, ShutdownPCs
<1>7. ShutdownInv'
  BY DEF TypeOK, ShutdownInv, ListedSessionsLive, RefInv, Referenced, Entries,
     ShutdownPCs
<1> QED
  BY <1>1, <1>2, <1>3, <1>4, <1>5, <1>6, <1>7

(* The process is gone when shutdown returns.                              *)
LEMMA ShutdownBrowserInv ==
  ASSUME Inv, NEW t \in Tasks, ShutdownBrowser(t)
  PROVE  Inv'
<1> USE TaskNames DEF Tasks, Inv, ShutdownBrowser, Goto, queueVars, fieldVars,
      launchVars
<1>1. QueueInv' /\ QueueTypeOK' /\ Waiters' = Waiters
  BY QueueFrame
<1>2. TypeOK' /\ OpInv' /\ TargetInv'
  BY <1>1 DEF TypeOK, OpInv, TargetInv, RefInv, Referenced, Entries,
     TerminatingOps, LaunchPCs, HoldingPCs, ClientPCs, ShutdownPCs, PoolOps,
     CreateOps, RecycleReasons, KillReasons, ProcStates, PCs
<1>3. NameInv' /\ ClonesInv'
  BY DEF TypeOK, NameInv, ClonesInv, RefInv, Referenced, Entries, Launching,
     LaunchPCs, ShutdownPCs
<1>4. OwnerInv'
  BY <1>1, WaitersFacts DEF TypeOK, OwnerInv, RefInv, Referenced, Holds,
     Entries, Launching, LaunchPCs, HoldingPCs, ClientPCs, ShutdownPCs
<1>5. RefInv'
  BY DEF TypeOK, RefInv, NameInv, ClonesInv, TargetInv, OpInv, Referenced,
     Holds, Entries, Launching, LaunchPCs, HoldingPCs, ClientPCs, ShutdownPCs
<1>6. BrowserInv' /\ ListedSessionsLive'
  BY DEF TypeOK, BrowserInv, ListedSessionsLive, ShutdownInv, NameInv, Alive,
     Entries, Launching, LaunchPCs, ShutdownPCs
<1>7. ShutdownInv'
  BY DEF TypeOK, ShutdownInv, ListedSessionsLive, RefInv, Referenced, Entries,
     ShutdownPCs
<1> QED
  BY <1>1, <1>2, <1>3, <1>4, <1>5, <1>6, <1>7

(* The session is not listed any more.                                     *)
LEMMA MarkDeadInv ==
  ASSUME Inv, NEW t \in Tasks, MarkDead(t)
  PROVE  Inv'
<1> USE TaskNames DEF Tasks, Inv, MarkDead, Goto, queueVars, launchVars
<1>1. QueueInv' /\ QueueTypeOK' /\ Waiters' = Waiters
  BY QueueFrame
<1>2. TypeOK' /\ OpInv' /\ TargetInv'
  BY <1>1 DEF TypeOK, OpInv, TargetInv, RefInv, Referenced, Entries,
     TerminatingOps, LaunchPCs, HoldingPCs, ClientPCs, ShutdownPCs, PoolOps,
     CreateOps, RecycleReasons, KillReasons, ProcStates, PCs, ClientReasons,
     Reason
<1>3. NameInv' /\ ClonesInv'
  BY DEF TypeOK, NameInv, ClonesInv, RefInv, Referenced, Entries, Launching,
     LaunchPCs, ShutdownPCs
<1>4. OwnerInv'
  BY <1>1, WaitersFacts DEF TypeOK, OwnerInv, RefInv, Referenced, Holds,
     Entries, Launching, LaunchPCs, HoldingPCs, ClientPCs, ShutdownPCs
<1>5. RefInv'
  BY DEF TypeOK, RefInv, NameInv, ClonesInv, TargetInv, OpInv, Referenced,
     Holds, Entries, Launching, LaunchPCs, HoldingPCs, ClientPCs, ShutdownPCs
<1>6. BrowserInv' /\ ListedSessionsLive'
  BY DEF TypeOK, BrowserInv, ListedSessionsLive, ShutdownInv, NameInv, Alive,
     Entries, Launching, LaunchPCs, ShutdownPCs
<1>7. ShutdownInv'
  BY DEF TypeOK, ShutdownInv, ListedSessionsLive, RefInv, Referenced, Entries,
     ShutdownPCs
<1> QED
  BY <1>1, <1>2, <1>3, <1>4, <1>5, <1>6, <1>7

(* Every clone has been let go.                                            *)
LEMMA ListReturnsInv ==
  ASSUME Inv, NEW r \in Requests, ListReturns(r)
  PROVE  Inv'
<1> USE TaskNames DEF Tasks, Inv, ListReturns, Return, Goto, queueVars,
      entryVars, fieldVars, launchVars
<1>1. QueueInv' /\ QueueTypeOK' /\ Waiters' = Waiters
  BY QueueFrame
<1>2. TypeOK' /\ OpInv' /\ TargetInv'
  BY <1>1 DEF TypeOK, OpInv, TargetInv, RefInv, Referenced, Entries,
     TerminatingOps, LaunchPCs, HoldingPCs, ClientPCs, ShutdownPCs, PoolOps,
     CreateOps, RecycleReasons, KillReasons, ProcStates, PCs
<1>3. NameInv' /\ ClonesInv'
  BY DEF TypeOK, NameInv, ClonesInv, RefInv, Referenced, Entries, Launching,
     LaunchPCs, ShutdownPCs
<1>4. OwnerInv'
  BY <1>1, WaitersFacts DEF TypeOK, OwnerInv, RefInv, Referenced, Holds,
     Entries, Launching, LaunchPCs, HoldingPCs, ClientPCs, ShutdownPCs
<1>5. RefInv'
  BY DEF TypeOK, RefInv, NameInv, ClonesInv, TargetInv, OpInv, Referenced,
     Holds, Entries, Launching, LaunchPCs, HoldingPCs, ClientPCs, ShutdownPCs
<1>6. BrowserInv' /\ ListedSessionsLive'
  BY DEF TypeOK, BrowserInv, ListedSessionsLive, ShutdownInv, NameInv, Alive,
     Entries, Launching, LaunchPCs, ShutdownPCs
<1>7. ShutdownInv'
  BY DEF TypeOK, ShutdownInv, ListedSessionsLive, RefInv, Referenced, Entries,
     ShutdownPCs
<1> QED
  BY <1>1, <1>2, <1>3, <1>4, <1>5, <1>6, <1>7

(* Maintenance clones listed entries.                                      *)
LEMMA PassBeginsInv ==
  ASSUME Inv, PassBegins
  PROVE  Inv'
<1> USE TaskNames DEF Tasks, Inv, PassBegins, Proceed, Goto, queueVars,
      entryVars, fieldVars, launchVars
<1>1. QueueInv' /\ QueueTypeOK' /\ Waiters' = Waiters
  BY QueueFrame
<1>2. TypeOK' /\ OpInv' /\ TargetInv'
  BY <1>1 DEF TypeOK, OpInv, TargetInv, RefInv, Referenced, Entries,
     TerminatingOps, LaunchPCs, HoldingPCs, ClientPCs, ShutdownPCs, PoolOps,
     CreateOps, RecycleReasons, KillReasons, ProcStates, PCs
<1>3. NameInv' /\ ClonesInv'
  BY DEF TypeOK, NameInv, ClonesInv, RefInv, Referenced, Entries, Launching,
     LaunchPCs, ShutdownPCs
<1>4. OwnerInv'
  <2>1. \A r \in Requests : pc'[r] = pc[r]
    BY TaskNames DEF TypeOK
  <2>2. owners \subseteq Requests /\ Entries' = Entries /\ owners' = owners
    BY DEF TypeOK, QueueTypeOK, Entries
  <2> QED
    BY <1>1, <2>1, <2>2, WaitersFacts DEF OwnerInv, Launching
<1>5. RefInv'
  BY DEF TypeOK, RefInv, NameInv, ClonesInv, TargetInv, OpInv, Referenced,
     Holds, Entries, Launching, LaunchPCs, HoldingPCs, ClientPCs, ShutdownPCs
<1>6. BrowserInv' /\ ListedSessionsLive'
  BY DEF TypeOK, BrowserInv, ListedSessionsLive, ShutdownInv, NameInv, Alive,
     Entries, Launching, LaunchPCs, ShutdownPCs
<1>7. ShutdownInv'
  BY DEF TypeOK, ShutdownInv, ListedSessionsLive, RefInv, Referenced, Entries,
     ShutdownPCs
<1> QED
  BY <1>1, <1>2, <1>3, <1>4, <1>5, <1>6, <1>7

(* Maintenance holds nothing while it sleeps.                              *)
LEMMA PassEndsInv ==
  ASSUME Inv, PassEnds
  PROVE  Inv'
<1> USE TaskNames DEF Tasks, Inv, PassEnds, Proceed, Goto, queueVars,
      entryVars, fieldVars, launchVars
<1>1. QueueInv' /\ QueueTypeOK' /\ Waiters' = Waiters
  BY QueueFrame
<1>2. TypeOK' /\ OpInv' /\ TargetInv'
  BY <1>1 DEF TypeOK, OpInv, TargetInv, RefInv, Referenced, Entries,
     TerminatingOps, LaunchPCs, HoldingPCs, ClientPCs, ShutdownPCs, PoolOps,
     CreateOps, RecycleReasons, KillReasons, ProcStates, PCs
<1>3. NameInv' /\ ClonesInv'
  BY DEF TypeOK, NameInv, ClonesInv, RefInv, Referenced, Entries, Launching,
     LaunchPCs, ShutdownPCs
<1>4. OwnerInv'
  <2>1. \A r \in Requests : pc'[r] = pc[r]
    BY TaskNames DEF TypeOK
  <2>2. owners \subseteq Requests /\ Entries' = Entries /\ owners' = owners
    BY DEF TypeOK, QueueTypeOK, Entries
  <2> QED
    BY <1>1, <2>1, <2>2, WaitersFacts DEF OwnerInv, Launching
<1>5. RefInv'
  BY DEF TypeOK, RefInv, NameInv, ClonesInv, TargetInv, OpInv, Referenced,
     Holds, Entries, Launching, LaunchPCs, HoldingPCs, ClientPCs, ShutdownPCs
<1>6. BrowserInv' /\ ListedSessionsLive'
  BY DEF TypeOK, BrowserInv, ListedSessionsLive, ShutdownInv, NameInv, Alive,
     Entries, Launching, LaunchPCs, ShutdownPCs
<1>7. ShutdownInv'
  BY DEF TypeOK, ShutdownInv, ListedSessionsLive, RefInv, Referenced, Entries,
     ShutdownPCs
<1> QED
  BY <1>1, <1>2, <1>3, <1>4, <1>5, <1>6, <1>7

(* The clone becomes the target, so the entry stays referenced.            *)
LEMMA VisitEntryInv ==
  ASSUME Inv, NEW s \in Requests, VisitEntry(s)
  PROVE  Inv'
<1> USE TaskNames DEF Tasks, Inv, VisitEntry, Proceed, Recycle, Goto,
      queueVars, entryVars, fieldVars, launchVars
<1>1. QueueInv' /\ QueueTypeOK' /\ Waiters' = Waiters
  BY QueueFrame
<1>2. TypeOK' /\ OpInv' /\ TargetInv'
  BY <1>1 DEF TypeOK, OpInv, TargetInv, RefInv, Referenced, Entries,
     TerminatingOps, LaunchPCs, HoldingPCs, ClientPCs, ShutdownPCs, PoolOps,
     CreateOps, RecycleReasons, KillReasons, ProcStates, PCs
<1>3. NameInv' /\ ClonesInv'
  BY DEF TypeOK, NameInv, ClonesInv, RefInv, Referenced, Entries, Launching,
     LaunchPCs, ShutdownPCs
<1>4. OwnerInv'
  <2>1. \A r \in Requests : pc'[r] = pc[r]
    BY TaskNames DEF TypeOK
  <2>2. owners \subseteq Requests /\ Entries' = Entries /\ owners' = owners
    BY DEF TypeOK, QueueTypeOK, Entries
  <2> QED
    BY <1>1, <2>1, <2>2, WaitersFacts DEF OwnerInv, Launching
<1>5. RefInv'
  BY DEF TypeOK, RefInv, NameInv, ClonesInv, TargetInv, OpInv, Referenced,
     Holds, Entries, Launching, LaunchPCs, HoldingPCs, ClientPCs, ShutdownPCs
<1>6. BrowserInv' /\ ListedSessionsLive'
  BY DEF TypeOK, BrowserInv, ListedSessionsLive, ShutdownInv, NameInv, Alive,
     Entries, Launching, LaunchPCs, ShutdownPCs
<1>7. ShutdownInv'
  BY DEF TypeOK, ShutdownInv, ListedSessionsLive, RefInv, Referenced, Entries,
     ShutdownPCs
<1> QED
  BY <1>1, <1>2, <1>3, <1>4, <1>5, <1>6, <1>7

(* The verdict of maintenance is one that terminate_session takes.         *)
LEMMA CheckIdleInv ==
  ASSUME Inv, CheckIdle
  PROVE  Inv'
<1> USE TaskNames DEF Tasks, Inv, CheckIdle, Proceed, Recycle, visited, Goto,
      queueVars, entryVars, fieldVars, launchVars
<1>1. QueueInv' /\ QueueTypeOK' /\ Waiters' = Waiters
  BY QueueFrame
<1>2. TypeOK' /\ OpInv' /\ TargetInv'
  BY <1>1 DEF TypeOK, OpInv, TargetInv, RefInv, Referenced, Entries,
     TerminatingOps, LaunchPCs, HoldingPCs, ClientPCs, ShutdownPCs, PoolOps,
     CreateOps, RecycleReasons, KillReasons, ProcStates, PCs
<1>3. NameInv' /\ ClonesInv'
  BY DEF TypeOK, NameInv, ClonesInv, RefInv, Referenced, Entries, Launching,
     LaunchPCs, ShutdownPCs
<1>4. OwnerInv'
  <2>1. \A r \in Requests : pc'[r] = pc[r]
    BY TaskNames DEF TypeOK
  <2>2. owners \subseteq Requests /\ Entries' = Entries /\ owners' = owners
    BY DEF TypeOK, QueueTypeOK, Entries
  <2> QED
    BY <1>1, <2>1, <2>2, WaitersFacts DEF OwnerInv, Launching
<1>5. RefInv'
  BY DEF TypeOK, RefInv, NameInv, ClonesInv, TargetInv, OpInv, Referenced,
     Holds, Entries, Launching, LaunchPCs, HoldingPCs, ClientPCs, ShutdownPCs
<1>6. BrowserInv' /\ ListedSessionsLive'
  BY DEF TypeOK, BrowserInv, ListedSessionsLive, ShutdownInv, NameInv, Alive,
     Entries, Launching, LaunchPCs, ShutdownPCs
<1>7. ShutdownInv'
  BY DEF TypeOK, ShutdownInv, ListedSessionsLive, RefInv, Referenced, Entries,
     ShutdownPCs
<1> QED
  BY <1>1, <1>2, <1>3, <1>4, <1>5, <1>6, <1>7

(* The same of the process sample.                                         *)
LEMMA SampleFailsInv ==
  ASSUME Inv, SampleFails
  PROVE  Inv'
<1> USE TaskNames DEF Tasks, Inv, SampleFails, Recycle, visited, Goto,
      queueVars, entryVars, fieldVars, launchVars
<1>1. QueueInv' /\ QueueTypeOK' /\ Waiters' = Waiters
  BY QueueFrame
<1>2. TypeOK' /\ OpInv' /\ TargetInv'
  BY <1>1 DEF TypeOK, OpInv, TargetInv, RefInv, Referenced, Entries,
     TerminatingOps, LaunchPCs, HoldingPCs, ClientPCs, ShutdownPCs, PoolOps,
     CreateOps, RecycleReasons, KillReasons, ProcStates, PCs
<1>3. NameInv' /\ ClonesInv'
  BY DEF TypeOK, NameInv, ClonesInv, RefInv, Referenced, Entries, Launching,
     LaunchPCs, ShutdownPCs
<1>4. OwnerInv'
  <2>1. \A r \in Requests : pc'[r] = pc[r]
    BY TaskNames DEF TypeOK
  <2>2. owners \subseteq Requests /\ Entries' = Entries /\ owners' = owners
    BY DEF TypeOK, QueueTypeOK, Entries
  <2> QED
    BY <1>1, <2>1, <2>2, WaitersFacts DEF OwnerInv, Launching
<1>5. RefInv'
  BY DEF TypeOK, RefInv, NameInv, ClonesInv, TargetInv, OpInv, Referenced,
     Holds, Entries, Launching, LaunchPCs, HoldingPCs, ClientPCs, ShutdownPCs
<1>6. BrowserInv' /\ ListedSessionsLive'
  BY DEF TypeOK, BrowserInv, ListedSessionsLive, ShutdownInv, NameInv, Alive,
     Entries, Launching, LaunchPCs, ShutdownPCs
<1>7. ShutdownInv'
  BY DEF TypeOK, ShutdownInv, ListedSessionsLive, RefInv, Referenced, Entries,
     ShutdownPCs
<1> QED
  BY <1>1, <1>2, <1>3, <1>4, <1>5, <1>6, <1>7

(* Maintenance keeps its entry through the health check.                   *)
LEMMA BeginHealthCheckInv ==
  ASSUME Inv, BeginHealthCheck
  PROVE  Inv'
<1> USE TaskNames DEF Tasks, Inv, BeginHealthCheck, Proceed, visited, Goto,
      queueVars, entryVars, fieldVars, launchVars
<1>1. QueueInv' /\ QueueTypeOK' /\ Waiters' = Waiters
  BY QueueFrame
<1>2. TypeOK' /\ OpInv' /\ TargetInv'
  BY <1>1 DEF TypeOK, OpInv, TargetInv, RefInv, Referenced, Entries,
     TerminatingOps, LaunchPCs, HoldingPCs, ClientPCs, ShutdownPCs, PoolOps,
     CreateOps, RecycleReasons, KillReasons, ProcStates, PCs
<1>3. NameInv' /\ ClonesInv'
  BY DEF TypeOK, NameInv, ClonesInv, RefInv, Referenced, Entries, Launching,
     LaunchPCs, ShutdownPCs
<1>4. OwnerInv'
  <2>1. \A r \in Requests : pc'[r] = pc[r]
    BY TaskNames DEF TypeOK
  <2>2. owners \subseteq Requests /\ Entries' = Entries /\ owners' = owners
    BY DEF TypeOK, QueueTypeOK, Entries
  <2> QED
    BY <1>1, <2>1, <2>2, WaitersFacts DEF OwnerInv, Launching
<1>5. RefInv'
  BY DEF TypeOK, RefInv, NameInv, ClonesInv, TargetInv, OpInv, Referenced,
     Holds, Entries, Launching, LaunchPCs, HoldingPCs, ClientPCs, ShutdownPCs
<1>6. BrowserInv' /\ ListedSessionsLive'
  BY DEF TypeOK, BrowserInv, ListedSessionsLive, ShutdownInv, NameInv, Alive,
     Entries, Launching, LaunchPCs, ShutdownPCs
<1>7. ShutdownInv'
  BY DEF TypeOK, ShutdownInv, ListedSessionsLive, RefInv, Referenced, Entries,
     ShutdownPCs
<1> QED
  BY <1>1, <1>2, <1>3, <1>4, <1>5, <1>6, <1>7

(* The same of a failed health check.                                      *)
LEMMA HealthFailsInv ==
  ASSUME Inv, HealthFails
  PROVE  Inv'
<1> USE TaskNames DEF Tasks, Inv, HealthFails, Recycle, visited, Goto,
      queueVars, entryVars, fieldVars, launchVars
<1>1. QueueInv' /\ QueueTypeOK' /\ Waiters' = Waiters
  BY QueueFrame
<1>2. TypeOK' /\ OpInv' /\ TargetInv'
  BY <1>1 DEF TypeOK, OpInv, TargetInv, RefInv, Referenced, Entries,
     TerminatingOps, LaunchPCs, HoldingPCs, ClientPCs, ShutdownPCs, PoolOps,
     CreateOps, RecycleReasons, KillReasons, ProcStates, PCs
<1>3. NameInv' /\ ClonesInv'
  BY DEF TypeOK, NameInv, ClonesInv, RefInv, Referenced, Entries, Launching,
     LaunchPCs, ShutdownPCs
<1>4. OwnerInv'
  <2>1. \A r \in Requests : pc'[r] = pc[r]
    BY TaskNames DEF TypeOK
  <2>2. owners \subseteq Requests /\ Entries' = Entries /\ owners' = owners
    BY DEF TypeOK, QueueTypeOK, Entries
  <2> QED
    BY <1>1, <2>1, <2>2, WaitersFacts DEF OwnerInv, Launching
<1>5. RefInv'
  BY DEF TypeOK, RefInv, NameInv, ClonesInv, TargetInv, OpInv, Referenced,
     Holds, Entries, Launching, LaunchPCs, HoldingPCs, ClientPCs, ShutdownPCs
<1>6. BrowserInv' /\ ListedSessionsLive'
  BY DEF TypeOK, BrowserInv, ListedSessionsLive, ShutdownInv, NameInv, Alive,
     Entries, Launching, LaunchPCs, ShutdownPCs
<1>7. ShutdownInv'
  BY DEF TypeOK, ShutdownInv, ListedSessionsLive, RefInv, Referenced, Entries,
     ShutdownPCs
<1> QED
  BY <1>1, <1>2, <1>3, <1>4, <1>5, <1>6, <1>7

(* The same of a health check that was not answered.                       *)
LEMMA HealthTimesOutInv ==
  ASSUME Inv, HealthTimesOut
  PROVE  Inv'
<1> USE TaskNames DEF Tasks, Inv, HealthTimesOut, Recycle, visited, Goto,
      queueVars, entryVars, fieldVars, launchVars
<1>1. QueueInv' /\ QueueTypeOK' /\ Waiters' = Waiters
  BY QueueFrame
<1>2. TypeOK' /\ OpInv' /\ TargetInv'
  BY <1>1 DEF TypeOK, OpInv, TargetInv, RefInv, Referenced, Entries,
     TerminatingOps, LaunchPCs, HoldingPCs, ClientPCs, ShutdownPCs, PoolOps,
     CreateOps, RecycleReasons, KillReasons, ProcStates, PCs
<1>3. NameInv' /\ ClonesInv'
  BY DEF TypeOK, NameInv, ClonesInv, RefInv, Referenced, Entries, Launching,
     LaunchPCs, ShutdownPCs
<1>4. OwnerInv'
  <2>1. \A r \in Requests : pc'[r] = pc[r]
    BY TaskNames DEF TypeOK
  <2>2. owners \subseteq Requests /\ Entries' = Entries /\ owners' = owners
    BY DEF TypeOK, QueueTypeOK, Entries
  <2> QED
    BY <1>1, <2>1, <2>2, WaitersFacts DEF OwnerInv, Launching
<1>5. RefInv'
  BY DEF TypeOK, RefInv, NameInv, ClonesInv, TargetInv, OpInv, Referenced,
     Holds, Entries, Launching, LaunchPCs, HoldingPCs, ClientPCs, ShutdownPCs
<1>6. BrowserInv' /\ ListedSessionsLive'
  BY DEF TypeOK, BrowserInv, ListedSessionsLive, ShutdownInv, NameInv, Alive,
     Entries, Launching, LaunchPCs, ShutdownPCs
<1>7. ShutdownInv'
  BY DEF TypeOK, ShutdownInv, ListedSessionsLive, RefInv, Referenced, Entries,
     ShutdownPCs
<1> QED
  BY <1>1, <1>2, <1>3, <1>4, <1>5, <1>6, <1>7

(* The handle refers to an entry that is listed.                           *)
LEMMA ConnectExistingInv ==
  ASSUME Inv, NEW r \in Requests, NEW s \in Requests, ConnectExisting(r, s)
  PROVE  Inv'
<1> USE TaskNames DEF Tasks, Inv, ConnectExisting, Start, Goto, queueVars,
      entryVars, fieldVars, launchVars
<1>1. QueueInv' /\ QueueTypeOK' /\ Waiters' = Waiters
  BY QueueFrame
<1>2. TypeOK' /\ OpInv' /\ TargetInv'
  BY <1>1 DEF TypeOK, OpInv, TargetInv, RefInv, Referenced, Entries,
     TerminatingOps, LaunchPCs, HoldingPCs, ClientPCs, ShutdownPCs, PoolOps,
     CreateOps, RecycleReasons, KillReasons, ProcStates, PCs
<1>3. NameInv' /\ ClonesInv'
  BY DEF TypeOK, NameInv, ClonesInv, RefInv, Referenced, Entries, Launching,
     LaunchPCs, ShutdownPCs
<1>4. OwnerInv'
  BY <1>1, WaitersFacts DEF TypeOK, OwnerInv, RefInv, Referenced, Holds,
     Entries, Launching, LaunchPCs, HoldingPCs, ClientPCs, ShutdownPCs
<1>5. RefInv'
  BY DEF TypeOK, RefInv, NameInv, ClonesInv, TargetInv, OpInv, Referenced,
     Holds, Entries, Launching, LaunchPCs, HoldingPCs, ClientPCs, ShutdownPCs
<1>6. BrowserInv' /\ ListedSessionsLive'
  BY DEF TypeOK, BrowserInv, ListedSessionsLive, ShutdownInv, NameInv, Alive,
     Entries, Launching, LaunchPCs, ShutdownPCs
<1>7. ShutdownInv'
  BY DEF TypeOK, ShutdownInv, ListedSessionsLive, RefInv, Referenced, Entries,
     ShutdownPCs
<1> QED
  BY <1>1, <1>2, <1>3, <1>4, <1>5, <1>6, <1>7

(* The id of an entry that is not being launched is known.                 *)
LEMMA DeleteSessionInv ==
  ASSUME Inv, NEW r \in Requests, NEW s \in Requests, DeleteSession(r, s)
  PROVE  Inv'
<1> USE TaskNames DEF Tasks, Inv, DeleteSession, Start, Goto, queueVars,
      entryVars, fieldVars, launchVars
<1>1. QueueInv' /\ QueueTypeOK' /\ Waiters' = Waiters
  BY QueueFrame
<1>2. TypeOK' /\ OpInv' /\ TargetInv'
  BY <1>1 DEF TypeOK, OpInv, TargetInv, RefInv, Referenced, Entries,
     TerminatingOps, LaunchPCs, HoldingPCs, ClientPCs, ShutdownPCs, PoolOps,
     CreateOps, RecycleReasons, KillReasons, ProcStates, PCs
<1>3. NameInv' /\ ClonesInv'
  BY DEF TypeOK, NameInv, ClonesInv, RefInv, Referenced, Entries, Launching,
     LaunchPCs, ShutdownPCs
<1>4. OwnerInv'
  BY <1>1, WaitersFacts DEF TypeOK, OwnerInv, RefInv, Referenced, Holds,
     Entries, Launching, LaunchPCs, HoldingPCs, ClientPCs, ShutdownPCs
<1>5. RefInv'
  BY DEF TypeOK, RefInv, NameInv, ClonesInv, TargetInv, OpInv, Referenced,
     Holds, Entries, Launching, LaunchPCs, HoldingPCs, ClientPCs, ShutdownPCs
<1>6. BrowserInv' /\ ListedSessionsLive'
  BY DEF TypeOK, BrowserInv, ListedSessionsLive, ShutdownInv, NameInv, Alive,
     Entries, Launching, LaunchPCs, ShutdownPCs
<1>7. ShutdownInv'
  BY DEF TypeOK, ShutdownInv, ListedSessionsLive, RefInv, Referenced, Entries,
     ShutdownPCs
<1> QED
  BY <1>1, <1>2, <1>3, <1>4, <1>5, <1>6, <1>7

(* The request clones listed entries.                                      *)
LEMMA ListSessionsInv ==
  ASSUME Inv, NEW r \in Requests, ListSessions(r)
  PROVE  Inv'
<1> USE TaskNames DEF Tasks, Inv, ListSessions, Start, Goto, queueVars,
      entryVars, fieldVars, launchVars
<1>1. QueueInv' /\ QueueTypeOK' /\ Waiters' = Waiters
  BY QueueFrame
<1>2. TypeOK' /\ OpInv' /\ TargetInv'
  BY <1>1 DEF TypeOK, OpInv, TargetInv, RefInv, Referenced, Entries,
     TerminatingOps, LaunchPCs, HoldingPCs, ClientPCs, ShutdownPCs, PoolOps,
     CreateOps, RecycleReasons, KillReasons, ProcStates, PCs
<1>3. NameInv' /\ ClonesInv'
  BY DEF TypeOK, NameInv, ClonesInv, RefInv, Referenced, Entries, Launching,
     LaunchPCs, ShutdownPCs
<1>4. OwnerInv'
  BY <1>1, WaitersFacts DEF TypeOK, OwnerInv, RefInv, Referenced, Holds,
     Entries, Launching, LaunchPCs, HoldingPCs, ClientPCs, ShutdownPCs
<1>5. RefInv'
  BY DEF TypeOK, RefInv, NameInv, ClonesInv, TargetInv, OpInv, Referenced,
     Holds, Entries, Launching, LaunchPCs, HoldingPCs, ClientPCs, ShutdownPCs
<1>6. BrowserInv' /\ ListedSessionsLive'
  BY DEF TypeOK, BrowserInv, ListedSessionsLive, ShutdownInv, NameInv, Alive,
     Entries, Launching, LaunchPCs, ShutdownPCs
<1>7. ShutdownInv'
  BY DEF TypeOK, ShutdownInv, ListedSessionsLive, RefInv, Referenced, Entries,
     ShutdownPCs
<1> QED
  BY <1>1, <1>2, <1>3, <1>4, <1>5, <1>6, <1>7

(* The handle moves on into the upgraded connection.                       *)
LEMMA UpgradeSucceedsInv ==
  ASSUME Inv, NEW r \in Requests, UpgradeSucceeds(r)
  PROVE  Inv'
<1> USE TaskNames DEF Tasks, Inv, UpgradeSucceeds, Goto, queueVars, entryVars,
      fieldVars, launchVars
<1>1. QueueInv' /\ QueueTypeOK' /\ Waiters' = Waiters
  BY QueueFrame
<1>2. TypeOK' /\ OpInv' /\ TargetInv'
  BY <1>1 DEF TypeOK, OpInv, TargetInv, RefInv, Referenced, Entries,
     TerminatingOps, LaunchPCs, HoldingPCs, ClientPCs, ShutdownPCs, PoolOps,
     CreateOps, RecycleReasons, KillReasons, ProcStates, PCs
<1>3. NameInv' /\ ClonesInv'
  BY DEF TypeOK, NameInv, ClonesInv, RefInv, Referenced, Entries, Launching,
     LaunchPCs, ShutdownPCs
<1>4. OwnerInv'
  BY <1>1, WaitersFacts DEF TypeOK, OwnerInv, RefInv, Referenced, Holds,
     Entries, Launching, LaunchPCs, HoldingPCs, ClientPCs, ShutdownPCs
<1>5. RefInv'
  BY DEF TypeOK, RefInv, NameInv, ClonesInv, TargetInv, OpInv, Referenced,
     Holds, Entries, Launching, LaunchPCs, HoldingPCs, ClientPCs, ShutdownPCs
<1>6. BrowserInv' /\ ListedSessionsLive'
  BY DEF TypeOK, BrowserInv, ListedSessionsLive, ShutdownInv, NameInv, Alive,
     Entries, Launching, LaunchPCs, ShutdownPCs
<1>7. ShutdownInv'
  BY DEF TypeOK, ShutdownInv, ListedSessionsLive, RefInv, Referenced, Entries,
     ShutdownPCs
<1> QED
  BY <1>1, <1>2, <1>3, <1>4, <1>5, <1>6, <1>7

(* The handle is about to be dropped.                                      *)
LEMMA UpgradeFailsInv ==
  ASSUME Inv, NEW r \in Requests, UpgradeFails(r)
  PROVE  Inv'
<1> USE TaskNames DEF Tasks, Inv, UpgradeFails, Goto, queueVars, entryVars,
      fieldVars, launchVars
<1>1. QueueInv' /\ QueueTypeOK' /\ Waiters' = Waiters
  BY QueueFrame
<1>2. TypeOK' /\ OpInv' /\ TargetInv'
  BY <1>1 DEF TypeOK, OpInv, TargetInv, RefInv, Referenced, Entries,
     TerminatingOps, LaunchPCs, HoldingPCs, ClientPCs, ShutdownPCs, PoolOps,
     CreateOps, RecycleReasons, KillReasons, ProcStates, PCs
<1>3. NameInv' /\ ClonesInv'
  BY DEF TypeOK, NameInv, ClonesInv, RefInv, Referenced, Entries, Launching,
     LaunchPCs, ShutdownPCs
<1>4. OwnerInv'
  BY <1>1, WaitersFacts DEF TypeOK, OwnerInv, RefInv, Referenced, Holds,
     Entries, Launching, LaunchPCs, HoldingPCs, ClientPCs, ShutdownPCs
<1>5. RefInv'
  BY DEF TypeOK, RefInv, NameInv, ClonesInv, TargetInv, OpInv, Referenced,
     Holds, Entries, Launching, LaunchPCs, HoldingPCs, ClientPCs, ShutdownPCs
<1>6. BrowserInv' /\ ListedSessionsLive'
  BY DEF TypeOK, BrowserInv, ListedSessionsLive, ShutdownInv, NameInv, Alive,
     Entries, Launching, LaunchPCs, ShutdownPCs
<1>7. ShutdownInv'
  BY DEF TypeOK, ShutdownInv, ListedSessionsLive, RefInv, Referenced, Entries,
     ShutdownPCs
<1> QED
  BY <1>1, <1>2, <1>3, <1>4, <1>5, <1>6, <1>7

(* The handle is kept until terminate_session has removed the entry.       *)
LEMMA ProxyClosesInv ==
  ASSUME Inv, NEW r \in Requests, ProxyCloses(r)
  PROVE  Inv'
<1> USE TaskNames DEF Tasks, Inv, ProxyCloses, Goto, queueVars, entryVars,
      fieldVars, launchVars
<1>1. QueueInv' /\ QueueTypeOK' /\ Waiters' = Waiters
  BY QueueFrame
<1>2. TypeOK' /\ OpInv' /\ TargetInv'
  BY <1>1 DEF TypeOK, OpInv, TargetInv, RefInv, Referenced, Entries,
     TerminatingOps, LaunchPCs, HoldingPCs, ClientPCs, ShutdownPCs, PoolOps,
     CreateOps, RecycleReasons, KillReasons, ProcStates, PCs
<1>3. NameInv' /\ ClonesInv'
  BY DEF TypeOK, NameInv, ClonesInv, RefInv, Referenced, Entries, Launching,
     LaunchPCs, ShutdownPCs
<1>4. OwnerInv'
  BY <1>1, WaitersFacts DEF TypeOK, OwnerInv, RefInv, Referenced, Holds,
     Entries, Launching, LaunchPCs, HoldingPCs, ClientPCs, ShutdownPCs
<1>5. RefInv'
  BY DEF TypeOK, RefInv, NameInv, ClonesInv, TargetInv, OpInv, Referenced,
     Holds, Entries, Launching, LaunchPCs, HoldingPCs, ClientPCs, ShutdownPCs
<1>6. BrowserInv' /\ ListedSessionsLive'
  BY DEF TypeOK, BrowserInv, ListedSessionsLive, ShutdownInv, NameInv, Alive,
     Entries, Launching, LaunchPCs, ShutdownPCs
<1>7. ShutdownInv'
  BY DEF TypeOK, ShutdownInv, ListedSessionsLive, RefInv, Referenced, Entries,
     ShutdownPCs
<1> QED
  BY <1>1, <1>2, <1>3, <1>4, <1>5, <1>6, <1>7

(* The browser that a cancelled shutdown had taken is killed.              *)
LEMMA CancelHandlerInv ==
  ASSUME Inv, NEW r \in Requests, CancelHandler(r)
  PROVE  Inv'
<1> USE TaskNames DEF Tasks, Inv, CancelHandler, Goto, queueVars, fieldVars,
      launchVars, SuspendedPCs
<1>1. QueueInv' /\ QueueTypeOK' /\ Waiters' = Waiters
  BY QueueFrame
<1>2. TypeOK' /\ OpInv' /\ TargetInv'
  BY <1>1 DEF TypeOK, OpInv, TargetInv, RefInv, Referenced, Entries,
     TerminatingOps, LaunchPCs, HoldingPCs, ClientPCs, ShutdownPCs, PoolOps,
     CreateOps, RecycleReasons, KillReasons, ProcStates, PCs
<1>3. NameInv' /\ ClonesInv'
  BY DEF TypeOK, NameInv, ClonesInv, RefInv, Referenced, Entries, Launching,
     LaunchPCs, ShutdownPCs
<1>4. OwnerInv'
  BY <1>1, WaitersFacts DEF TypeOK, OwnerInv, RefInv, Referenced, Holds,
     Entries, Launching, LaunchPCs, HoldingPCs, ClientPCs, ShutdownPCs
<1>5. RefInv'
  BY DEF TypeOK, RefInv, NameInv, ClonesInv, TargetInv, OpInv, Referenced,
     Holds, Entries, Launching, LaunchPCs, HoldingPCs, ClientPCs, ShutdownPCs
<1>6. BrowserInv' /\ ListedSessionsLive'
  BY DEF TypeOK, BrowserInv, ListedSessionsLive, ShutdownInv, NameInv, Alive,
     Entries, Launching, LaunchPCs, ShutdownPCs
<1>7. ShutdownInv'
  BY DEF TypeOK, ShutdownInv, ListedSessionsLive, RefInv, Referenced, Entries,
     ShutdownPCs
<1> QED
  BY <1>1, <1>2, <1>3, <1>4, <1>5, <1>6, <1>7

(* A process that ends is not alive.                                       *)
LEMMA BrowserExitsInv ==
  ASSUME Inv, NEW s \in Requests, BrowserExits(s)
  PROVE  Inv'
<1> USE TaskNames DEF Tasks, Inv, BrowserExits, queueVars, taskVars,
      fieldVars, launchVars, Alive
<1>1. QueueInv' /\ QueueTypeOK' /\ Waiters' = Waiters
  BY QueueFrame
<1>2. TypeOK' /\ OpInv' /\ TargetInv'
  BY <1>1 DEF TypeOK, OpInv, TargetInv, RefInv, Referenced, Entries,
     TerminatingOps, LaunchPCs, HoldingPCs, ClientPCs, ShutdownPCs, PoolOps,
     CreateOps, RecycleReasons, KillReasons, ProcStates, PCs
<1>3. NameInv' /\ ClonesInv'
  BY DEF TypeOK, NameInv, ClonesInv, RefInv, Referenced, Entries, Launching,
     LaunchPCs, ShutdownPCs
<1>4. OwnerInv'
  BY <1>1, WaitersFacts DEF TypeOK, OwnerInv, RefInv, Referenced, Holds,
     Entries, Launching, LaunchPCs, HoldingPCs, ClientPCs, ShutdownPCs
<1>5. RefInv'
  BY DEF TypeOK, RefInv, NameInv, ClonesInv, TargetInv, OpInv, Referenced,
     Holds, Entries, Launching, LaunchPCs, HoldingPCs, ClientPCs, ShutdownPCs
<1>6. BrowserInv' /\ ListedSessionsLive'
  BY DEF TypeOK, BrowserInv, ListedSessionsLive, ShutdownInv, NameInv, Alive,
     Entries, Launching, LaunchPCs, ShutdownPCs
<1>7. ShutdownInv'
  BY DEF TypeOK, ShutdownInv, ListedSessionsLive, RefInv, Referenced, Entries,
     ShutdownPCs
<1> QED
  BY <1>1, <1>2, <1>3, <1>4, <1>5, <1>6, <1>7

(* A browser that hangs had been running.                                  *)
LEMMA BrowserHangsInv ==
  ASSUME Inv, NEW s \in Requests, BrowserHangs(s)
  PROVE  Inv'
<1> USE TaskNames DEF Tasks, Inv, BrowserHangs, queueVars, taskVars,
      fieldVars, launchVars
<1>1. QueueInv' /\ QueueTypeOK' /\ Waiters' = Waiters
  BY QueueFrame
<1>2. TypeOK' /\ OpInv' /\ TargetInv'
  BY <1>1 DEF TypeOK, OpInv, TargetInv, RefInv, Referenced, Entries,
     TerminatingOps, LaunchPCs, HoldingPCs, ClientPCs, ShutdownPCs, PoolOps,
     CreateOps, RecycleReasons, KillReasons, ProcStates, PCs
<1>3. NameInv' /\ ClonesInv'
  BY DEF TypeOK, NameInv, ClonesInv, RefInv, Referenced, Entries, Launching,
     LaunchPCs, ShutdownPCs
<1>4. OwnerInv'
  BY <1>1, WaitersFacts DEF TypeOK, OwnerInv, RefInv, Referenced, Holds,
     Entries, Launching, LaunchPCs, HoldingPCs, ClientPCs, ShutdownPCs
<1>5. RefInv'
  BY DEF TypeOK, RefInv, NameInv, ClonesInv, TargetInv, OpInv, Referenced,
     Holds, Entries, Launching, LaunchPCs, HoldingPCs, ClientPCs, ShutdownPCs
<1>6. BrowserInv' /\ ListedSessionsLive'
  BY DEF TypeOK, BrowserInv, ListedSessionsLive, ShutdownInv, NameInv, Alive,
     Entries, Launching, LaunchPCs, ShutdownPCs
<1>7. ShutdownInv'
  BY DEF TypeOK, ShutdownInv, ListedSessionsLive, RefInv, Referenced, Entries,
     ShutdownPCs
<1> QED
  BY <1>1, <1>2, <1>3, <1>4, <1>5, <1>6, <1>7

(* Only clocks move.                                                       *)
LEMMA IdleElapsesInv ==
  ASSUME Inv, NEW s \in Requests, IdleElapses(s)
  PROVE  Inv'
<1> USE TaskNames DEF Tasks, Inv, IdleElapses, queueVars, taskVars, launchVars
<1>1. QueueInv' /\ QueueTypeOK' /\ Waiters' = Waiters
  BY QueueFrame
<1>2. TypeOK' /\ OpInv' /\ TargetInv'
  BY <1>1 DEF TypeOK, OpInv, TargetInv, RefInv, Referenced, Entries,
     TerminatingOps, LaunchPCs, HoldingPCs, ClientPCs, ShutdownPCs, PoolOps,
     CreateOps, RecycleReasons, KillReasons, ProcStates, PCs, ClientReasons,
     Reason
<1>3. NameInv' /\ ClonesInv'
  BY DEF TypeOK, NameInv, ClonesInv, RefInv, Referenced, Entries, Launching,
     LaunchPCs, ShutdownPCs
<1>4. OwnerInv'
  BY <1>1, WaitersFacts DEF TypeOK, OwnerInv, RefInv, Referenced, Holds,
     Entries, Launching, LaunchPCs, HoldingPCs, ClientPCs, ShutdownPCs
<1>5. RefInv'
  BY DEF TypeOK, RefInv, NameInv, ClonesInv, TargetInv, OpInv, Referenced,
     Holds, Entries, Launching, LaunchPCs, HoldingPCs, ClientPCs, ShutdownPCs
<1>6. BrowserInv' /\ ListedSessionsLive'
  BY DEF TypeOK, BrowserInv, ListedSessionsLive, ShutdownInv, NameInv, Alive,
     Entries, Launching, LaunchPCs, ShutdownPCs
<1>7. ShutdownInv'
  BY DEF TypeOK, ShutdownInv, ListedSessionsLive, RefInv, Referenced, Entries,
     ShutdownPCs
<1> QED
  BY <1>1, <1>2, <1>3, <1>4, <1>5, <1>6, <1>7

(* Only clocks move.                                                       *)
LEMMA LifetimeElapsesInv ==
  ASSUME Inv, NEW s \in Requests, LifetimeElapses(s)
  PROVE  Inv'
<1> USE TaskNames DEF Tasks, Inv, LifetimeElapses, queueVars, taskVars,
      launchVars
<1>1. QueueInv' /\ QueueTypeOK' /\ Waiters' = Waiters
  BY QueueFrame
<1>2. TypeOK' /\ OpInv' /\ TargetInv'
  BY <1>1 DEF TypeOK, OpInv, TargetInv, RefInv, Referenced, Entries,
     TerminatingOps, LaunchPCs, HoldingPCs, ClientPCs, ShutdownPCs, PoolOps,
     CreateOps, RecycleReasons, KillReasons, ProcStates, PCs, ClientReasons,
     Reason
<1>3. NameInv' /\ ClonesInv'
  BY DEF TypeOK, NameInv, ClonesInv, RefInv, Referenced, Entries, Launching,
     LaunchPCs, ShutdownPCs
<1>4. OwnerInv'
  BY <1>1, WaitersFacts DEF TypeOK, OwnerInv, RefInv, Referenced, Holds,
     Entries, Launching, LaunchPCs, HoldingPCs, ClientPCs, ShutdownPCs
<1>5. RefInv'
  BY DEF TypeOK, RefInv, NameInv, ClonesInv, TargetInv, OpInv, Referenced,
     Holds, Entries, Launching, LaunchPCs, HoldingPCs, ClientPCs, ShutdownPCs
<1>6. BrowserInv' /\ ListedSessionsLive'
  BY DEF TypeOK, BrowserInv, ListedSessionsLive, ShutdownInv, NameInv, Alive,
     Entries, Launching, LaunchPCs, ShutdownPCs
<1>7. ShutdownInv'
  BY DEF TypeOK, ShutdownInv, ListedSessionsLive, RefInv, Referenced, Entries,
     ShutdownPCs
<1> QED
  BY <1>1, <1>2, <1>3, <1>4, <1>5, <1>6, <1>7

----------------------------------------------------------------------------
(* Steps that let go of a permit before there is an entry *)

(* A request that asks for a session owns no permit and does not wait.     *)
LEMMA CreateSessionInv ==
  ASSUME Inv, NEW r \in Requests, CreateSession(r)
  PROVE  Inv'
<1> USE TaskNames DEF Tasks, Inv, CreateSession, Start, Fresh, Goto,
      entryVars, fieldVars, launchVars
<1>1. r \notin owners /\ r \notin Waiters
  BY DEF OwnerInv, Launching, LaunchPCs, Entries
<1>2. /\ QueueInv' /\ QueueTypeOK'
      /\ owners \subseteq owners' /\ owners' \subseteq owners \cup {r}
      /\ Waiters' \subseteq Waiters \cup {r}
  BY <1>1, AcquireEffect DEF QueueInv
<1>3. TypeOK' /\ OpInv' /\ TargetInv'
  BY <1>2 DEF TypeOK, OpInv, TargetInv, TerminatingOps, LaunchPCs,
     HoldingPCs, ClientPCs, ShutdownPCs, PoolOps, CreateOps, PCs
<1>4. NameInv' /\ ClonesInv'
  BY DEF TypeOK, NameInv, ClonesInv, Entries, Launching, LaunchPCs
<1>5. OwnerInv'
  <2>1. /\ pc'[r] = "queued" /\ Entries' = Entries
        /\ \A u \in Requests \ {r} : pc'[u] = pc[u]
    BY DEF TypeOK, Entries
  <2>2. owners' \subseteq Requests /\ Waiters \subseteq Requests
    BY <1>2, WaitersFacts DEF QueueTypeOK
  <2> QED
    BY <1>2, <2>1, <2>2 DEF OwnerInv, Launching, LaunchPCs
<1>6. RefInv'
  BY DEF TypeOK, RefInv, Referenced, Holds, HoldingPCs, ClientPCs,
     ShutdownPCs, Entries
<1>7. BrowserInv' /\ ListedSessionsLive'
  BY DEF TypeOK, BrowserInv, ListedSessionsLive, Alive, Entries
<1>8. ShutdownInv'
  BY DEF TypeOK, ShutdownInv, ShutdownPCs, Entries
<1> QED
  BY <1>2, <1>3, <1>4, <1>5, <1>6, <1>7, <1>8

(* A request that stops launching gives its permit up: no session of its   *)
(* name exists, and its process is gone or an orphan.                      *)
LEMMA LaunchEndsInv ==
  ASSUME Inv, NEW r \in Requests, Launching(r), Return(r),
         QueueInv', Waiters' \subseteq Waiters \ {r},
         owners \ {r} \subseteq owners',
         owners' \subseteq (owners \cup Waiters) \ {r},
         UNCHANGED <<clones, sessions, fieldVars, browser, launchReady>>,
         launchError' \in BOOLEAN,
         proc' \in [Requests -> ProcStates],
         \A s \in Requests \ {r} : proc'[s] = proc[s],
         Alive(r)' => Alive(r) /\ pc[r] \notin {"launching", "launched"}
  PROVE  Inv'
<1> USE TaskNames DEF Tasks, Inv, Return, Goto, fieldVars
<1>1. QueueTypeOK' /\ Waiters \subseteq Requests
  BY WaitersFacts DEF QueueInv
<1>2. TypeOK' /\ OpInv' /\ TargetInv'
  BY <1>1 DEF TypeOK, OpInv, TargetInv, LaunchPCs, HoldingPCs, ClientPCs,
     ShutdownPCs, PCs
<1>3. NameInv' /\ ClonesInv'
  BY DEF TypeOK, NameInv, ClonesInv, Entries, Launching, LaunchPCs
<1>4. OwnerInv'
  <2>1. /\ pc'[r] = "idle" /\ Entries' = Entries /\ r \notin Entries
        /\ \A u \in Requests \ {r} : pc'[u] = pc[u]
    BY DEF TypeOK, NameInv, Entries
  <2>2. owners' \subseteq Requests
    BY <1>1 DEF QueueTypeOK
  <2> QED
    BY <1>1, <2>1, <2>2 DEF OwnerInv, Launching, LaunchPCs
<1>5. RefInv'
  BY DEF TypeOK, RefInv, Referenced, Holds, Launching, LaunchPCs, HoldingPCs,
     ClientPCs, ShutdownPCs, Entries
<1>6. BrowserInv' /\ ListedSessionsLive'
  <2>1. \A s \in Requests : Alive(s)' => Alive(s)
    BY DEF Alive, TypeOK
  <2> QED
    BY <2>1 DEF TypeOK, BrowserInv, ListedSessionsLive, Entries, Launching,
       LaunchPCs, Alive
<1>7. ShutdownInv'
  BY DEF TypeOK, ShutdownInv, ShutdownPCs, Entries
<1> QED
  BY <1>2, <1>3, <1>4, <1>5, <1>6, <1>7

(* The wait for a permit ends without a launch.                            *)
LEMMA QueueTimeoutInv ==
  ASSUME Inv, NEW r \in Requests, QueueTimeout(r)
  PROVE  Inv'
<1> USE DEF Inv, QueueTimeout
<1>1. /\ QueueInv' /\ Waiters' \subseteq Waiters \ {r}
      /\ owners \ {r} \subseteq owners'
      /\ owners' \subseteq (owners \cup Waiters) \ {r}
  BY AbandonEffect
<1> QED
  BY <1>1, LaunchEndsInv DEF TypeOK, Launching, Alive, entryVars, launchVars

(* Every other end of a launch drops the permit it owns.                   *)
LEMMA LaunchReleases ==
  ASSUME Inv, NEW r \in Requests, pc[r] \in LaunchPCs, Release(r)
  PROVE  /\ Launching(r)
         /\ QueueInv' /\ Waiters' \subseteq Waiters \ {r}
         /\ owners \ {r} \subseteq owners'
         /\ owners' \subseteq (owners \cup Waiters) \ {r}
BY ReleaseEffect DEF Inv, OwnerInv, Launching

(* No process was spawned for a profile that was refused.                  *)
LEMMA RejectProfileInv ==
  ASSUME Inv, NEW r \in Requests, RejectProfile(r)
  PROVE  Inv'
BY LaunchReleases, LaunchEndsInv
DEF Inv, RejectProfile, TypeOK, LaunchPCs, Alive, entryVars, launchVars

(* The process of a failed launch is gone already.                         *)
LEMMA ReportLaunchErrorInv ==
  ASSUME Inv, NEW r \in Requests, ReportLaunchError(r)
  PROVE  Inv'
BY LaunchReleases, LaunchEndsInv
DEF Inv, ReportLaunchError, TypeOK, LaunchPCs, Alive, entryVars

(* The process of a cancelled launch is killed or left behind.             *)
LEMMA CancelLaunchInv ==
  ASSUME Inv, NEW r \in Requests, CancelLaunch(r)
  PROVE  Inv'
<1> USE DEF Inv, CancelLaunch
<1>1. PICK left \in {"orphan", "none"} : proc' = [proc EXCEPT ![r] = left]
  OBVIOUS
<1>2. /\ proc' \in [Requests -> ProcStates]
      /\ \A s \in Requests \ {r} : proc'[s] = proc[s]
      /\ ~Alive(r)'
  BY <1>1 DEF TypeOK, ProcStates, Alive
<1> QED
  BY <1>2, LaunchReleases, LaunchEndsInv DEF TypeOK, launchVars

----------------------------------------------------------------------------
(* Steps that let go of a reference *)

(* Either the entry is still referenced, or its browser and its permit go. *)
LEMMA DropEffect ==
  ASSUME Inv, NEW s \in Requests, DropEntry(s)
  PROVE  /\ QueueInv' /\ QueueTypeOK'
         /\ Waiters' \subseteq Waiters /\ Waiters \subseteq Requests
         /\ \/ /\ Referenced(s) => StillReferenced(s)
               /\ UNCHANGED <<entryVars, owners>>
            \/ /\ Referenced(s) /\ ~StillReferenced(s)
               /\ FreeEntry(s)
               /\ owners \ {s} \subseteq owners'
               /\ owners' \subseteq (owners \cup Waiters) \ {s}
<1> USE DEF Inv, DropEntry, LastReference
<1>1. CASE LastReference(s)
  <2>1. s \in owners
    BY <1>1 DEF RefInv, OwnerInv
  <2> QED
    BY <1>1, <2>1, ReleaseEffect, WaitersFacts DEF QueueInv
<1>2. CASE ~LastReference(s)
  BY <1>2, QueueFrame, WaitersFacts DEF queueVars
<1> QED
  BY <1>1, <1>2

(* The entry that a task drops is freed with its fields, and nothing else. *)
LEMMA FreeEffect ==
  ASSUME Inv, NEW s \in Requests, FreeEntry(s)
  PROVE  /\ Entries' = Entries \ {s}
         /\ browser' = browser \ {s}
         /\ state' \in [Requests -> {"absent", "Ready", "InUse", "Killing",
                                     "Dead"}]
         /\ killReason' \in [Requests -> KillReasons \cup {"none"}]
         /\ idle' \subseteq Requests /\ expired' \subseteq Requests
         /\ proc' \in [Requests -> ProcStates]
         /\ \A x \in Requests : Alive(x)' => Alive(x)
         /\ Alive(s)' => s \notin browser
         /\ killReason'[s] = "none"
         /\ \A x \in Requests \ {s} :
              state'[x] = state[x] /\ killReason'[x] = killReason[x]
BY DEF Inv, FreeEntry, ForgetFields, TypeOK, Entries, Alive, ProcStates

(* What a step leaves of an entry it drops a reference to satisfies the    *)
(* invariant, if the step is otherwise a quiet one: no task is left with a *)
(* new reference, and whoever launches, waits, shuts down or marks goes on *)
(* as before.                                                              *)
LEMMA QuietDropInv ==
  ASSUME Inv, NEW s \in Requests, DropEntry(s),
         UNCHANGED <<sessions, launchVars>>,
         pc' \in [Tasks -> PCs],
         op' \in [Tasks -> PoolOps \cup RecycleReasons \cup {"none"}],
         target' \in [Tasks -> Requests \cup {NoSession}],
         clones' \in [Tasks -> SUBSET Requests],
         OpInv', TargetInv', ClonesInv',
         \A r \in Requests : Launching(r) <=> Launching(r)',
         \A r \in Requests : Launching(r) => pc'[r] = pc[r],
         \A t \in Tasks : pc[t] \in ShutdownPCs \/ pc'[t] \in ShutdownPCs =>
                            pc'[t] = pc[t] /\ target'[t] = target[t],
         \A t \in Tasks : target'[t] \in {target[t], NoSession},
         \A x \in Requests \ {s} : Referenced(x) <=> StillReferenced(x),
         StillReferenced(s) => Referenced(s)
  PROVE  Inv'
<1> USE TaskNames DEF Inv
<1>1. /\ QueueInv' /\ QueueTypeOK'
      /\ Waiters' \subseteq Waiters /\ Waiters \subseteq Requests
  BY DropEffect
<1>2. \A x \in Requests : Referenced(x)' <=> StillReferenced(x)
  BY DEF Referenced, StillReferenced
<1>3. \A r \in Requests : Launching(r) => r # s \/ ~Referenced(s)
  BY DEF NameInv, RefInv
<1>4. CASE /\ Referenced(s) => StillReferenced(s)
           /\ UNCHANGED <<entryVars, owners>>
  <2> USE <1>4 DEF entryVars, fieldVars
  <2>1. Entries' = Entries
    BY DEF Entries
  <2>2. TypeOK'
    BY <1>1 DEF TypeOK, launchVars
  <2>3. NameInv'
    BY <2>1 DEF NameInv
  <2>4. OwnerInv'
    BY <1>1, <2>1 DEF OwnerInv, Launching, QueueTypeOK, TypeOK
  <2>5. RefInv'
    BY <1>2, <2>1 DEF RefInv
  <2>6. BrowserInv' /\ ListedSessionsLive'
    BY <2>1 DEF BrowserInv, ListedSessionsLive, Alive, Launching, LaunchPCs,
       ShutdownPCs
  <2>7. ShutdownInv'
    BY <2>1 DEF ShutdownInv, ShutdownPCs
  <2> QED
    BY <1>1, <2>2, <2>3, <2>4, <2>5, <2>6, <2>7
<1>5. CASE /\ Referenced(s) /\ ~StillReferenced(s)
           /\ FreeEntry(s)
           /\ owners \ {s} \subseteq owners'
           /\ owners' \subseteq (owners \cup Waiters) \ {s}
  <2> USE <1>5
  <2>1. /\ Entries' = Entries \ {s}
        /\ browser' = browser \ {s}
        /\ \A x \in Requests : Alive(x)' => Alive(x)
        /\ Alive(s)' => s \notin browser
        /\ killReason'[s] = "none"
        /\ \A x \in Requests \ {s} :
             state'[x] = state[x] /\ killReason'[x] = killReason[x]
    BY FreeEffect
  <2>2. TypeOK'
    BY <1>1, FreeEffect DEF TypeOK, launchVars
  <2>3. NameInv'
    BY <2>1 DEF NameInv
  <2>4. OwnerInv'
    BY <1>1, <1>3, <2>1 DEF OwnerInv, Launching, LaunchPCs, QueueTypeOK, Entries
  <2>5. RefInv'
    BY <1>2, <2>1 DEF RefInv, Entries
  <2>6. BrowserInv'
    <3>1. ASSUME NEW x \in Requests, Alive(x)'
          PROVE  \/ pc'[x] \in {"launching", "launched"}
                 \/ x \in browser'
                 \/ \E t \in Tasks : target'[t] = x /\ pc'[t] = "shutting"
      <4>1. CASE pc[x] \in {"launching", "launched"}
        BY <4>1 DEF Launching, LaunchPCs
      <4>2. CASE x \in browser
        BY <2>1, <3>1, <4>2
      <4>3. CASE \E t \in Tasks : target[t] = x /\ pc[t] = "shutting"
        BY <4>3 DEF ShutdownPCs
      <4> QED
        BY <2>1, <3>1, <4>1, <4>2, <4>3 DEF BrowserInv
    <3> QED
      BY <2>1, <3>1 DEF BrowserInv
  <2>7. ListedSessionsLive'
    BY <2>1 DEF ListedSessionsLive, StillReferenced, TypeOK
  <2>8. ShutdownInv'
    BY <2>1 DEF ShutdownInv, ShutdownPCs, TargetInv, HoldingPCs, Entries
  <2> QED
    BY <1>1, <2>2, <2>3, <2>4, <2>5, <2>6, <2>7, <2>8
<1> QED
  BY <1>4, <1>5, DropEffect

(* A task that returns lets go of its target.                              *)
LEMMA ReturnInv ==
  ASSUME Inv, NEW t \in Tasks,
         pc[t] \in {"claim", "terminate", "respond", "leave", "sample",
                    "health"},
         Return(t), DropEntry(target[t]),
         UNCHANGED <<clones, sessions, launchVars>>
  PROVE  Inv'
<1> USE TaskNames DEF Tasks, Inv, Return, Goto
<1>1. PICK s \in Requests : s = target[t]
  BY DEF TargetInv, HoldingPCs
<1>2. /\ pc' \in [Tasks -> PCs]
      /\ op' \in [Tasks -> PoolOps \cup RecycleReasons \cup {"none"}]
      /\ target' \in [Tasks -> Requests \cup {NoSession}]
      /\ clones' \in [Tasks -> SUBSET Requests]
      /\ OpInv' /\ TargetInv' /\ ClonesInv'
  BY DEF TypeOK, OpInv, TargetInv, ClonesInv, PCs, LaunchPCs, HoldingPCs,
     ClientPCs, ShutdownPCs
<1>3. \A r \in Requests : /\ Launching(r) <=> Launching(r)'
                          /\ Launching(r) => pc'[r] = pc[r]
  BY DEF TypeOK, Launching, LaunchPCs
<1>4. \A u \in Tasks : /\ pc[u] \in ShutdownPCs \/ pc'[u] \in ShutdownPCs =>
                            pc'[u] = pc[u] /\ target'[u] = target[u]
                       /\ target'[u] \in {target[u], NoSession}
  BY DEF TypeOK, ShutdownPCs
<1>5. \A u \in Tasks \ {t} : /\ Holds(u)' <=> Holds(u)
                             /\ target'[u] = target[u]
  BY DEF TypeOK, Holds
<1>6. /\ \A x \in Requests \ {s} : Referenced(x) <=> StillReferenced(x)
      /\ StillReferenced(s) => Referenced(s)
  BY <1>1, <1>5 DEF TypeOK, Referenced, StillReferenced
<1> QED
  BY <1>1, <1>2, <1>3, <1>4, <1>6, QuietDropInv

(* The iteration of a task lets go of one of its clones.                   *)
LEMMA CloneInv ==
  ASSUME Inv, NEW t \in Tasks, NEW s \in clones[t],
         clones' = [clones EXCEPT ![t] = @ \ {s}], DropEntry(s),
         UNCHANGED <<pc, op, target, sessions, launchVars>>
  PROVE  Inv'
<1> USE DEF Inv
<1>1. s \in Requests
  BY DEF TypeOK
<1>2. /\ clones' \in [Tasks -> SUBSET Requests]
      /\ OpInv' /\ TargetInv' /\ ClonesInv'
  BY DEF Tasks, TypeOK, OpInv, TargetInv, ClonesInv
<1>3. \A u \in Tasks : Holds(u)' <=> Holds(u)
  BY DEF Holds
<1>4. /\ \A x \in Requests \ {s} : Referenced(x) <=> StillReferenced(x)
      /\ StillReferenced(s) => Referenced(s)
  BY <1>3 DEF TypeOK, Referenced, StillReferenced
<1> QED
  BY <1>1, <1>2, <1>4, QuietDropInv DEF TypeOK, Launching

(* A session that cannot be connected to is let go of.                     *)
LEMMA ClaimSessionInv ==
  ASSUME Inv, NEW r \in Requests, ClaimSession(r)
  PROVE  Inv'
<1> USE TaskNames DEF Tasks, Inv, ClaimSession
<1>1. CASE ~Connectable(target[r])
  BY <1>1, ReturnInv
<1>2. CASE Connectable(target[r])
  <2> USE <1>2 DEF Connectable, Goto, queueVars, launchVars
  <2>1. QueueInv' /\ QueueTypeOK' /\ Waiters' = Waiters
    BY QueueFrame
  <2>2. TypeOK' /\ OpInv' /\ TargetInv'
    BY <2>1 DEF TypeOK, OpInv, TargetInv, TerminatingOps, LaunchPCs,
       HoldingPCs, ClientPCs, ShutdownPCs, PCs
  <2>3. NameInv' /\ ClonesInv'
    BY DEF TypeOK, NameInv, ClonesInv, Entries, Launching, LaunchPCs
  <2>4. OwnerInv'
    <3>1. /\ \A q \in Requests : Launching(q)' <=> Launching(q)
          /\ \A q \in Requests : Launching(q) => pc'[q] = pc[q]
          /\ Entries' = Entries /\ owners \subseteq Requests
      BY DEF TypeOK, QueueTypeOK, Entries, Launching, LaunchPCs
    <3> QED
      BY <2>1, <3>1, WaitersFacts DEF OwnerInv, Launching, LaunchPCs
  <2>5. RefInv'
    BY DEF TypeOK, RefInv, TargetInv, Referenced, Holds, HoldingPCs,
       ClientPCs, ShutdownPCs, Entries
  <2>6. BrowserInv' /\ ListedSessionsLive'
    BY DEF TypeOK, BrowserInv, ListedSessionsLive, Alive, Entries
  <2>7. ShutdownInv'
    BY DEF TypeOK, ShutdownInv, ShutdownPCs, Entries
  <2> QED
    BY <2>1, <2>2, <2>3, <2>4, <2>5, <2>6, <2>7
<1> QED
  BY <1>1, <1>2

(* Only the task that takes the session off the list goes on to shut it    *)
(* down.                                                                   *)
LEMMA TerminateSessionInv ==
  ASSUME Inv, NEW t \in Tasks, TerminateSession(t)
  PROVE  Inv'
<1> USE TaskNames DEF Tasks, Inv, TerminateSession
<1>1. CASE ~Terminable(target[t])
  BY <1>1, ReturnInv
<1>2. CASE Terminable(target[t])
  <2> USE <1>2 DEF Terminable, Unlist, Goto, queueVars, entryVars, fieldVars,
        launchVars
  <2>1. QueueInv' /\ QueueTypeOK' /\ Waiters' = Waiters
    BY QueueFrame
  <2>2. TypeOK' /\ OpInv' /\ TargetInv'
    BY <2>1 DEF TypeOK, OpInv, TargetInv, LaunchPCs, HoldingPCs, ClientPCs,
       ShutdownPCs, PCs
  <2>3. NameInv' /\ ClonesInv'
    BY DEF TypeOK, NameInv, ClonesInv, Entries, Launching, LaunchPCs
  <2>4. OwnerInv'
    <3>1. /\ \A r \in Requests : Launching(r)' <=> Launching(r)
          /\ \A r \in Requests : Launching(r) => pc'[r] = pc[r]
          /\ Entries' = Entries /\ owners \subseteq Requests
      BY DEF TypeOK, QueueTypeOK, Entries, Launching, LaunchPCs
    <3> QED
      BY <2>1, <3>1, WaitersFacts DEF OwnerInv, Launching, LaunchPCs
  <2>5. RefInv'
    <3>1. \A u \in Tasks \ {t} : Holds(u)' <=> Holds(u)
      BY DEF TypeOK, Holds
    <3>2. Holds(t)'
      BY DEF TypeOK, Holds, HoldingPCs, ShutdownPCs
    <3>3. \A x \in Requests : Referenced(x)' <=> Referenced(x)
      BY <3>1, <3>2 DEF Referenced
    <3> QED
      BY <3>3 DEF RefInv, Entries
  <2>6. BrowserInv' /\ ListedSessionsLive'
    BY DEF TypeOK, BrowserInv, ListedSessionsLive, Alive, Entries
  <2>7. ShutdownInv'
    BY DEF TypeOK, ShutdownInv, ListedSessionsLive, ShutdownPCs, Entries
  <2> QED
    BY <2>1, <2>2, <2>3, <2>4, <2>5, <2>6, <2>7
<1> QED
  BY <1>1, <1>2

(* The operation of a REST request has dropped its handle.                 *)
LEMMA RestCompletesInv ==
  ASSUME Inv, NEW r \in Requests, RestCompletes(r)
  PROVE  Inv'
<1> USE TaskNames DEF Tasks, Inv, RestCompletes, Goto
<1>1. PICK s \in Requests : s = target[r]
  BY DEF TargetInv, HoldingPCs, ClientPCs
<1>2. /\ pc' \in [Tasks -> PCs]
      /\ OpInv' /\ TargetInv' /\ ClonesInv'
  BY DEF TypeOK, OpInv, TargetInv, ClonesInv, TerminatingOps, PCs, LaunchPCs,
     HoldingPCs, ClientPCs, ShutdownPCs
<1>3. \A q \in Requests : /\ Launching(q) <=> Launching(q)'
                          /\ Launching(q) => pc'[q] = pc[q]
  BY DEF TypeOK, Launching, LaunchPCs
<1>4. \A u \in Tasks : pc[u] \in ShutdownPCs \/ pc'[u] \in ShutdownPCs =>
                         pc'[u] = pc[u]
  BY DEF TypeOK, ShutdownPCs
<1>5. /\ \A u \in Tasks \ {r} : Holds(u)' <=> Holds(u)
      /\ Holds(r)
  BY DEF TypeOK, Holds, HoldingPCs, ClientPCs
<1>6. ~Holds(r)'
  BY DEF TypeOK, Holds, HoldingPCs, ClientPCs, ShutdownPCs
<1>7. /\ \A x \in Requests \ {s} : Referenced(x) <=> StillReferenced(x)
      /\ StillReferenced(s) => Referenced(s)
  BY <1>1, <1>5, <1>6 DEF Referenced, StillReferenced
<1> QED
  BY <1>1, <1>2, <1>3, <1>4, <1>7, QuietDropInv DEF TypeOK

----------------------------------------------------------------------------
(* The invariant *)

(* No session exists yet, and every permit is free.                        *)
LEMMA InitInv == PoolInit => Inv
<1> SUFFICES ASSUME PoolInit PROVE Inv
  OBVIOUS
<1> USE TaskNames DEF PoolInit, Tasks
<1>1. QueueInv /\ QueueTypeOK /\ Waiters = {} /\ owners = {}
  BY QueueInitially DEF QueueInv
<1>2. TypeOK
  BY <1>1 DEF TypeOK, PCs, ProcStates
<1>3. OpInv /\ TargetInv
  BY DEF OpInv, TargetInv, LaunchPCs, HoldingPCs, ClientPCs, ShutdownPCs
<1>4. NameInv /\ ClonesInv /\ OwnerInv
  BY <1>1 DEF NameInv, ClonesInv, OwnerInv, Launching, LaunchPCs, Entries
<1>5. RefInv
  BY DEF RefInv, Referenced, Entries
<1>6. BrowserInv /\ ListedSessionsLive /\ ShutdownInv
  BY DEF BrowserInv, ListedSessionsLive, ShutdownInv, Alive, Entries,
     ShutdownPCs
<1> QED
  BY <1>1, <1>2, <1>3, <1>4, <1>5, <1>6 DEF Inv

(* A step of a request, of its browser or of its session.                  *)
LEMMA RequestStepInv ==
  ASSUME Inv, NEW r \in Requests,
         \/ Arrive(r) \/ Launch(r) \/ Serve(r) \/ Finish(r)
         \/ Disconnect(r) \/ Environment(r)
  PROVE  Inv'
<1>1. CASE Arrive(r)
  BY <1>1, CreateSessionInv, ConnectExistingInv, DeleteSessionInv,
     ListSessionsInv DEF Arrive
<1>2. CASE Launch(r)
  BY <1>2, QueueGrantedInv, QueueTimeoutInv, RejectProfileInv,
     SpawnChromeInv, LaunchFailsInv, ReportLaunchErrorInv,
     LaunchSucceedsInv, PublishSessionInv DEF Launch
<1>3. CASE Serve(r)
  <2>1. ASSUME NEW s \in Requests, SessionInfo(r, s) PROVE Inv'
    BY <2>1, CloneInv DEF SessionInfo, Tasks
  <2> QED
    BY <1>3, <2>1, ClaimSessionInv, TouchInv, UpgradeSucceedsInv,
       UpgradeFailsInv, MarkInUseInv, ListReturnsInv DEF Serve
<1>4. CASE Finish(r)
  BY <1>4, ProxyClosesInv, RestCompletesInv DEF Finish
<1>5. CASE Disconnect(r)
  BY <1>5, CancelLaunchInv, CancelHandlerInv DEF Disconnect
<1>6. CASE Environment(r)
  BY <1>6, BrowserExitsInv, BrowserHangsInv, IdleElapsesInv,
     LifetimeElapsesInv DEF Environment
<1> QED
  BY <1>1, <1>2, <1>3, <1>4, <1>5, <1>6

(* A step of terminate_session, of whoever calls it.                       *)
LEMMA TerminateInv ==
  ASSUME Inv, NEW t \in Tasks, Terminate(t)
  PROVE  Inv'
<1>1. CASE LeaveSession(t)
  BY <1>1, ReturnInv DEF LeaveSession
<1> QED
  BY <1>1, TerminateSessionInv, BeginShutdownInv, TakeBrowserInv,
     ShutdownBrowserInv, MarkDeadInv DEF Terminate

(* A step of a maintenance pass.                                           *)
LEMMA MaintenanceInv ==
  ASSUME Inv, MaintenanceNext
  PROVE  Inv'
<1>1. ASSUME NEW s \in Requests, SkipEntry(s) PROVE Inv'
  BY <1>1, CloneInv DEF SkipEntry, Tasks
<1>2. CASE KeepSession
  BY <1>2, ReturnInv DEF KeepSession, visited, Tasks
<1> QED
  BY <1>1, <1>2, PassBeginsInv, PassEndsInv, VisitEntryInv, CheckIdleInv,
     SampleFailsInv, BeginHealthCheckInv, HealthFailsInv, HealthTimesOutInv
  DEF MaintenanceNext, MaintenanceStep

(* A step that changes nothing changes nothing that Inv is about.          *)
LEMMA StutterInv == Inv /\ UNCHANGED vars => Inv'
<1> SUFFICES ASSUME Inv, UNCHANGED vars PROVE Inv'
  OBVIOUS
<1> USE DEF Inv, vars, taskVars, entryVars, fieldVars, launchVars
<1>1. QueueInv' /\ QueueTypeOK' /\ Waiters' = Waiters
  BY QueueFrame
<1>2. owners' = owners
  BY DEF queueVars
<1>3. TypeOK' /\ OpInv' /\ TargetInv' /\ ClonesInv'
  BY <1>1 DEF TypeOK, OpInv, TargetInv, ClonesInv
<1>4. NameInv' /\ OwnerInv' /\ RefInv'
  BY <1>1, <1>2 DEF NameInv, OwnerInv, RefInv, Referenced, Holds, Entries,
     Launching
<1>5. BrowserInv' /\ ListedSessionsLive' /\ ShutdownInv'
  BY DEF BrowserInv, ListedSessionsLive, ShutdownInv, Alive, Entries
<1> QED
  BY <1>1, <1>3, <1>4, <1>5

(* The invariant holds in every reachable state, whatever the requests,    *)
(* the capacity, and the failures allowed.                                 *)
THEOREM Invariance == Spec => []Inv
<1>1. Inv /\ [Next]_vars => Inv'
  BY StutterInv, RequestStepInv, TerminateInv, MaintenanceInv DEF Next
<1> QED
  BY <1>1, InitInv, PTL DEF Spec

----------------------------------------------------------------------------
(* What follows *)

(* Every variable keeps its type.                                          *)
THEOREM TypeCorrect == Spec => []TypeOK
<1>1. Inv => TypeOK
  BY DEF Inv
<1> QED
  BY <1>1, Invariance, PTL

(* Live browsers never outnumber EIGER_MAX_CONCURRENT_SESSIONS: each one   *)
(* is launched by the owner of a permit, or belongs to an entry that holds *)
(* one, or is being shut down by a task that keeps such an entry.          *)
THEOREM Capacity == Spec => []BrowsersWithinCapacity
<1>1. ASSUME Inv PROVE BrowsersWithinCapacity
  <2> USE <1>1 DEF Inv
  <2>1. {s \in Requests : Alive(s)} \subseteq owners
    <3> SUFFICES ASSUME NEW s \in Requests, Alive(s) PROVE s \in owners
      OBVIOUS
    <3>1. CASE pc[s] \in {"launching", "launched"}
      BY <3>1 DEF OwnerInv, LaunchPCs
    <3>2. CASE s \in browser
      BY <3>2 DEF BrowserInv, OwnerInv
    <3>3. CASE \E t \in Tasks : target[t] = s /\ pc[t] = "shutting"
      BY <3>3 DEF RefInv, Referenced, Holds, HoldingPCs, ShutdownPCs, OwnerInv
    <3> QED
      BY <3>1, <3>2, <3>3 DEF BrowserInv
  <2>2. IsFiniteSet(owners) /\ Cardinality(owners) \in Nat
    BY OwnersFinite DEF QueueInv
  <2>3. /\ Cardinality({s \in Requests : Alive(s)}) \in Nat
        /\ Cardinality({s \in Requests : Alive(s)}) <= Cardinality(owners)
    BY <2>1, <2>2, FS_Subset, FS_CardinalityType
  <2>4. permits \in Nat /\ permits + Cardinality(owners) = MaxConcurrentSessions
    BY DEF QueueInv, QueueTypeOK
  <2> QED
    BY <2>2, <2>3, <2>4, CapacityAssumption DEF BrowsersWithinCapacity
<1> QED
  BY <1>1, Invariance, PTL

(* Permits are neither lost nor doubled by timeouts and cancellations, and *)
(* none is held but by a launch or by an entry something refers to.        *)
THEOREM Permits == Spec => []PermitsAccounted
<1>1. ASSUME Inv PROVE PermitsAccounted
  <2>1. owners \subseteq Requests
    BY <1>1 DEF Inv, QueueInv, QueueTypeOK
  <2> QED
    BY <1>1, <2>1 DEF Inv, QueueInv, OwnerInv, RefInv, Launching, Entries,
       PermitsAccounted
<1> QED
  BY <1>1, Invariance, PTL

(* No live browser is out of reach of the code that kills it.              *)
THEOREM Owned == Spec => []LiveBrowserOwned
<1>1. ASSUME Inv PROVE LiveBrowserOwned
  BY <1>1 DEF Inv, BrowserInv, RefInv, Entries, LiveBrowserOwned
<1> QED
  BY <1>1, Invariance, PTL

(* A listed session is connected to a browser that nobody has killed.      *)
THEOREM Listed == Spec => []ListedSessionsLive
<1>1. Inv => ListedSessionsLive
  BY DEF Inv
<1> QED
  BY <1>1, Invariance, PTL

(* What a step that is not the start of a shutdown does to kill reasons.   *)
ReasonKept ==
  \A s \in Requests : killReason[s] # "none" =>
    killReason'[s] = killReason[s] \/ state'[s] = "absent"

(* Dropping an entry forgets its own reason only.                          *)
LEMMA DropKeepsReasons ==
  ASSUME Inv, NEW s \in Requests, DropEntry(s)
  PROVE  ReasonKept
BY DropEffect, FreeEffect
DEF FreeEntry, ForgetFields, ReasonKept, Inv, TypeOK, entryVars, fieldVars

(* Of all that race to end a session one shuts it down, and the reason it  *)
(* gave is never overwritten: whoever begins a shutdown removed the entry  *)
(* from the map, alone, and found no reason in it.                         *)
THEOREM OneShutdown == Spec => ShutdownOnce
<1>1. ASSUME Inv, Next PROVE ReasonKept
  <2> USE DEF Inv
  <2>1. ASSUME NEW t \in Tasks, pc[t] \in HoldingPCs \cup {"terminate"},
               DropEntry(target[t])
        PROVE  ReasonKept
    BY <1>1, <2>1, DropKeepsReasons DEF TargetInv
  <2>2. CASE UNCHANGED killReason
    BY <2>2 DEF ReasonKept
  <2>3. ASSUME NEW t \in Tasks, NEW s \in clones[t], DropEntry(s)
        PROVE  ReasonKept
    BY <1>1, <2>3, DropKeepsReasons DEF TypeOK
  <2>4. ASSUME NEW r \in Requests, Arrive(r) \/ Launch(r)
        PROVE  UNCHANGED killReason
    BY <2>4 DEF Arrive, CreateSession, ConnectExisting, DeleteSession,
       ListSessions, Launch, QueueGranted, QueueTimeout, RejectProfile,
       SpawnChrome, LaunchFails, ReportLaunchError, LaunchSucceeds,
       PublishSession, entryVars, fieldVars
  <2>5. ASSUME NEW r \in Requests, Serve(r)
        PROVE  ReasonKept
    <3>1. CASE ClaimSession(r)
      BY <2>1, <2>2, <3>1 DEF ClaimSession, Tasks, HoldingPCs
    <3>2. CASE \E s \in Requests : SessionInfo(r, s)
      BY <2>3, <3>2 DEF SessionInfo, Tasks
    <3> QED
      BY <2>2, <2>5, <3>1, <3>2 DEF Serve, Touch, UpgradeSucceeds,
         UpgradeFails, MarkInUse, ListReturns, entryVars, fieldVars
  <2>6. ASSUME NEW r \in Requests, Finish(r)
        PROVE  ReasonKept
    <3>1. CASE RestCompletes(r)
      BY <2>1, <3>1 DEF RestCompletes, Tasks, HoldingPCs, ClientPCs
    <3> QED
      BY <2>2, <2>6, <3>1 DEF Finish, ProxyCloses, entryVars, fieldVars
  <2>7. ASSUME NEW r \in Requests, Disconnect(r) \/ Environment(r)
        PROVE  UNCHANGED killReason
    BY <2>7 DEF Disconnect, CancelLaunch, CancelHandler, Environment,
       BrowserExits, BrowserHangs, IdleElapses, LifetimeElapses, fieldVars
  <2>8. ASSUME NEW t \in Tasks, Terminate(t)
        PROVE  ReasonKept
    <3>1. CASE TerminateSession(t)
      BY <2>1, <2>2, <3>1 DEF TerminateSession, entryVars, fieldVars
    <3>2. CASE BeginShutdown(t)
      BY <1>1, <3>2 DEF BeginShutdown, ShutdownInv, ReasonKept, TypeOK
    <3>3. CASE LeaveSession(t)
      BY <2>1, <3>3 DEF LeaveSession, HoldingPCs
    <3> QED
      BY <2>2, <2>8, <3>1, <3>2, <3>3 DEF Terminate, TakeBrowser,
         ShutdownBrowser, MarkDead, fieldVars
  <2>9. ASSUME MaintenanceNext
        PROVE  ReasonKept
    <3>1. CASE \E s \in Requests : SkipEntry(s)
      BY <2>3, <3>1 DEF SkipEntry, Tasks
    <3>2. CASE KeepSession
      BY <2>1, <3>2 DEF KeepSession, visited, Tasks, HoldingPCs
    <3> QED
      BY <2>2, <2>9, <3>1, <3>2 DEF MaintenanceNext, MaintenanceStep,
         PassBegins, PassEnds, VisitEntry, CheckIdle, SampleFails,
         BeginHealthCheck, HealthFails, HealthTimesOut, entryVars, fieldVars
  <2> QED
    BY <1>1, <2>2, <2>4, <2>5, <2>6, <2>7, <2>8, <2>9 DEF Next
<1>2. Inv /\ [Next]_vars =>
        [\A s \in Requests : killReason[s] # "none" =>
           killReason'[s] = killReason[s] \/ state'[s] = "absent"]_vars
  BY <1>1 DEF ReasonKept
<1> QED
  BY <1>2, Invariance, PTL DEF Spec, ShutdownOnce

----------------------------------------------------------------------------
(* Who is given a permit *)

(* Dropping a reference releases a permit or none.                         *)
LEMMA DropInTurn ==
  ASSUME Inv, NoIdlePermit, NEW s \in Requests, DropEntry(s)
  PROVE  NoIdlePermit' /\ InTurn
BY ReleaseInTurn, OrderFrame DEF Inv, DropEntry

(* Requests ask for a permit once, and release it or leave.                *)
LEMMA RequestInTurn ==
  ASSUME Inv, NoIdlePermit, NEW r \in Requests,
         \/ Arrive(r) \/ Launch(r) \/ Serve(r) \/ Finish(r)
         \/ Disconnect(r) \/ Environment(r)
  PROVE  NoIdlePermit' /\ InTurn
<1> USE DEF Inv
<1>1. CASE CreateSession(r)
  <2>1. r \notin Waiters
    BY <1>1 DEF CreateSession, Start, OwnerInv
  <2> QED
    BY <1>1, <2>1, AcquireInTurn DEF CreateSession
<1>2. CASE QueueTimeout(r)
  BY <1>2, AbandonInTurn DEF QueueTimeout
<1>3. CASE RejectProfile(r) \/ ReportLaunchError(r) \/ CancelLaunch(r)
  BY <1>3, ReleaseInTurn DEF RejectProfile, ReportLaunchError, CancelLaunch
<1>4. CASE ClaimSession(r) \/ RestCompletes(r)
  <2>1. target[r] \in Requests
    BY <1>4 DEF ClaimSession, RestCompletes, TargetInv, HoldingPCs, ClientPCs,
       Tasks
  <2> QED
    BY <1>4, <2>1, DropInTurn, OrderFrame DEF ClaimSession, RestCompletes
<1>5. ASSUME NEW s \in Requests, SessionInfo(r, s)
      PROVE  NoIdlePermit' /\ InTurn
  BY <1>5, DropInTurn DEF SessionInfo
<1>6. \/ UNCHANGED queueVars
      \/ CreateSession(r) \/ QueueTimeout(r) \/ RejectProfile(r)
      \/ ReportLaunchError(r) \/ CancelLaunch(r) \/ ClaimSession(r)
      \/ RestCompletes(r) \/ \E s \in Requests : SessionInfo(r, s)
  BY DEF Arrive, ConnectExisting, DeleteSession, ListSessions, Launch,
     QueueGranted, SpawnChrome, LaunchFails, LaunchSucceeds, PublishSession,
     Serve, Touch, UpgradeSucceeds, UpgradeFails, MarkInUse, ListReturns,
     Finish, ProxyCloses, Disconnect, CancelHandler, Environment,
     BrowserExits, BrowserHangs, IdleElapses, LifetimeElapses
<1> QED
  BY <1>1, <1>2, <1>3, <1>4, <1>5, <1>6, OrderFrame

(* Whoever terminates a session, and maintenance, only lets go of entries. *)
LEMMA TaskInTurn ==
  ASSUME Inv, NoIdlePermit,
         (\E t \in Tasks : Terminate(t)) \/ MaintenanceNext
  PROVE  NoIdlePermit' /\ InTurn
<1> USE DEF Inv
<1>1. ASSUME NEW t \in Tasks, Terminate(t)
      PROVE  NoIdlePermit' /\ InTurn
  <2>1. CASE TerminateSession(t) \/ LeaveSession(t)
    <3>1. target[t] \in Requests
      BY <2>1 DEF TerminateSession, LeaveSession, TargetInv, HoldingPCs
    <3> QED
      BY <2>1, <3>1, DropInTurn, OrderFrame DEF TerminateSession, LeaveSession
  <2>2. \/ UNCHANGED queueVars
        \/ TerminateSession(t) \/ LeaveSession(t)
    BY <1>1 DEF Terminate, BeginShutdown, TakeBrowser, ShutdownBrowser,
       MarkDead
  <2> QED
    BY <2>1, <2>2, OrderFrame
<1>2. ASSUME NEW s \in Requests, SkipEntry(s)
      PROVE  NoIdlePermit' /\ InTurn
  BY <1>2, DropInTurn DEF SkipEntry
<1>3. CASE KeepSession
  <2>1. visited \in Requests
    BY <1>3 DEF KeepSession, visited, TargetInv, HoldingPCs, Tasks
  <2> QED
    BY <1>3, <2>1, DropInTurn DEF KeepSession
<1>4. CASE MaintenanceNext
  <2>1. \/ UNCHANGED queueVars
        \/ KeepSession \/ \E s \in Requests : SkipEntry(s)
    BY <1>4 DEF MaintenanceNext, MaintenanceStep, PassBegins, PassEnds,
       VisitEntry, CheckIdle, SampleFails, BeginHealthCheck, HealthFails,
       HealthTimesOut
  <2> QED
    BY <2>1, <1>2, <1>3, OrderFrame
<1> QED
  BY <1>1, <1>4

(* Every step does.                                                        *)
LEMMA InTurnStep ==
  ASSUME Inv, NoIdlePermit, [Next]_vars
  PROVE  NoIdlePermit' /\ InTurn
<1>1. CASE UNCHANGED vars
  BY <1>1, OrderFrame DEF vars, Inv
<1> QED
  BY <1>1, RequestInTurn, TaskInTurn DEF Next

(* Whatever times out, is cancelled or shared, no permit lies idle while a *)
(* request waits in launch_queue for one.                                  *)
THEOREM PermitsNotIdle == Spec => []NoIdlePermit
<1>1. PoolInit => NoIdlePermit
  BY DEF PoolInit, QueueInit, NoIdlePermit
<1>2. Inv /\ NoIdlePermit /\ [Next]_vars => NoIdlePermit'
  BY InTurnStep
<1> QED
  BY <1>1, <1>2, Invariance, PTL DEF Spec

(* Requests are served in the order in which create_session was called:    *)
(* the permit of a session that ends goes to the oldest waiter, nobody     *)
(* that comes later takes it first, and no waiter is overtaken.            *)
THEOREM ServedInTurn == Spec => [][InTurn]_vars
<1>1. Inv /\ NoIdlePermit /\ [Next]_vars => InTurn
  BY InTurnStep
<1> QED
  BY <1>1, Invariance, PermitsNotIdle, PTL DEF Spec

=============================================================================
