---------------------- MODULE SessionRefinementProofs ----------------------
(***************************************************************************)
(* That SessionServer implements SessionLifecycle and ProcessLifecycle,    *)
(* and what else follows from its invariant: one client connects to a      *)
(* session, no session is recycled because its process has exited, and     *)
(* what documents say of all clients holds of those that do not leave and  *)
(* do not connect to the sessions of others.                               *)
(***************************************************************************)
EXTENDS SessionServerProofs

----------------------------------------------------------------------------
(* Connecting to a session *)

Connected ==
  {r \in Requests : pc[r] \in ClientPCs /\ op[r] = "connect_existing"}

(* Whoever is connected to a session has found it Ready and left it InUse, *)
(* and no session becomes Ready again.                                     *)
ConnectedInv ==
  \A r \in Connected :
    /\ state[target[r]] # "Ready"
    /\ \A q \in Connected : target[q] = target[r] => q = r

(* No client connects and no session becomes Ready.                        *)
NobodyConnects ==
  /\ Connected' \subseteq Connected
  /\ \A r \in Connected' : target'[r] = target[r]
  /\ \A s \in Requests : state'[s] = "Ready" => state[s] = "Ready"

(* A client that is connected has a session.                               *)
LEMMA ConnectedTargets ==
  ASSUME Inv PROVE \A r \in Connected : r \in Requests /\ target[r] \in Requests
BY DEF Inv, Connected, TargetInv, HoldingPCs, Tasks

(* Then ConnectedInv is kept.                                              *)
LEMMA NobodyConnectsInv ==
  ASSUME Inv, ConnectedInv, NobodyConnects
  PROVE  ConnectedInv'
BY ConnectedTargets DEF ConnectedInv, NobodyConnects

(* Dropping a reference makes no session Ready.                            *)
LEMMA DropState ==
  ASSUME Inv, NEW s \in Requests, DropEntry(s)
  PROVE  \A x \in Requests : state'[x] = "Ready" => state[x] = "Ready"
BY DropEffect, FreeEffect
DEF FreeEntry, ForgetFields, Inv, TypeOK, entryVars, fieldVars

(* Requests that arrive or launch are not connected to a session yet.      *)
LEMMA ArriveConnected ==
  ASSUME Inv, ConnectedInv, NEW r \in Requests, Arrive(r) \/ Launch(r)
  PROVE  ConnectedInv'
<1> USE TaskNames DEF Inv, TypeOK, Tasks, Goto, Return, entryVars, fieldVars
<1>1. CASE Arrive(r)
  <2>1. NobodyConnects
    BY <1>1 DEF Arrive, CreateSession, ConnectExisting, DeleteSession,
       ListSessions, Start, NobodyConnects, Connected, ClientPCs
  <2> QED
    BY <2>1, NobodyConnectsInv
<1>2. CASE Launch(r) /\ ~PublishSession(r)
  <2>1. NobodyConnects
    BY <1>2 DEF Launch, QueueGranted, QueueTimeout, RejectProfile,
       SpawnChrome, LaunchFails, ReportLaunchError, LaunchSucceeds,
       NobodyConnects, Connected, ClientPCs
  <2> QED
    BY <2>1, NobodyConnectsInv
<1>3. CASE PublishSession(r)
  <2>1. /\ op[r] # "connect_existing" /\ UNCHANGED op
        /\ \A t \in Tasks : target[t] # r
    BY <1>3 DEF PublishSession, OpInv, NameInv, CreateOps, LaunchPCs, Launching
  <2>2. /\ Connected' = Connected /\ r \notin Connected
        /\ \A q \in Connected : target'[q] = target[q] /\ target[q] # r
        /\ \A s \in Requests \ {r} : state'[s] = state[s]
    BY <1>3, <2>1 DEF PublishSession, Connected, ClientPCs
  <2> QED
    BY <2>2, ConnectedTargets DEF ConnectedInv
<1> QED
  BY <1>1, <1>2, <1>3 DEF Launch

(* Only a session that is Ready, with nobody connected, is claimed.        *)
LEMMA ServeConnected ==
  ASSUME Inv, ConnectedInv, NEW r \in Requests, Serve(r)
  PROVE  ConnectedInv'
<1> USE TaskNames DEF Inv, TypeOK, Tasks, Goto, entryVars, fieldVars
<1>1. CASE ClaimSession(r)
  <2> USE <1>1 DEF ClaimSession, Connectable
  <2>1. target[r] \in Requests /\ r \notin Connected
    BY DEF TargetInv, HoldingPCs, Connected, ClientPCs
  <2>2. CASE state[target[r]] # "Ready"
    <3>1. \A s \in Requests : state'[s] = "Ready" => state[s] = "Ready"
      BY <2>1, <2>2, DropState
    <3>2. Connected' \subseteq Connected /\ \A q \in Connected' : target'[q] = target[q]
      BY <2>2 DEF Return, Connected, ClientPCs
    <3> QED
      BY <3>1, <3>2, NobodyConnectsInv DEF NobodyConnects
  <2>3. CASE state[target[r]] = "Ready"
    <3>1. /\ Connected' \subseteq Connected \cup {r} /\ UNCHANGED target
          /\ state' = [state EXCEPT ![target[r]] = "InUse"]
      BY <2>3 DEF Connected, ClientPCs
    <3>2. \A q \in Connected : target[q] # target[r]
      BY <2>3 DEF ConnectedInv
    <3> QED
      BY <2>1, <3>1, <3>2, ConnectedTargets DEF ConnectedInv
  <2> QED
    BY <2>2, <2>3
<1>2. ASSUME NEW s \in Requests, SessionInfo(r, s)
      PROVE  ConnectedInv'
  <2>1. NobodyConnects
    BY <1>2, DropState DEF SessionInfo, NobodyConnects, Connected
  <2> QED
    BY <2>1, NobodyConnectsInv
<1>3. CASE Touch(r) \/ UpgradeSucceeds(r) \/ UpgradeFails(r) \/ MarkInUse(r)
           \/ ListReturns(r)
  <2>1. NobodyConnects
    BY <1>3 DEF Touch, UpgradeSucceeds, UpgradeFails, MarkInUse, ListReturns,
       Return, NobodyConnects, Connected, ClientPCs
  <2> QED
    BY <2>1, NobodyConnectsInv
<1> QED
  BY <1>1, <1>2, <1>3 DEF Serve

(* No other step connects a client.                                        *)
LEMMA OtherConnected ==
  ASSUME Inv, ConnectedInv,
         \/ \E r \in Requests : Finish(r) \/ Disconnect(r) \/ Environment(r)
         \/ \E t \in Tasks : Terminate(t)
         \/ MaintenanceNext
  PROVE  ConnectedInv'
<1> USE TaskNames DEF Inv, TypeOK, Tasks, Goto
<1> SUFFICES NobodyConnects
  BY NobodyConnectsInv
<1>1. ASSUME NEW r \in Requests, Finish(r) PROVE NobodyConnects
  <2>1. CASE RestCompletes(r)
    <3>1. target[r] \in Requests
      BY <2>1 DEF RestCompletes, TargetInv, HoldingPCs, ClientPCs
    <3> QED
      BY <2>1, <3>1, DropState
      DEF RestCompletes, NobodyConnects, Connected, ClientPCs
  <2> QED
    BY <1>1, <2>1 DEF Finish, ProxyCloses, NobodyConnects, Connected,
       ClientPCs, entryVars, fieldVars
<1>2. ASSUME NEW r \in Requests, Disconnect(r) \/ Environment(r)
      PROVE  NobodyConnects
  BY <1>2 DEF Disconnect, CancelLaunch, CancelHandler, Environment, Return,
     BrowserExits, BrowserHangs, IdleElapses, LifetimeElapses, NobodyConnects,
     Connected, ClientPCs, LaunchPCs, fieldVars, taskVars
<1>3. ASSUME NEW t \in Tasks, Terminate(t) PROVE NobodyConnects
  <2>1. CASE LeaveSession(t) \/ (TerminateSession(t) /\ ~Terminable(target[t]))
    <3>1. target[t] \in Requests
      BY <2>1 DEF LeaveSession, TerminateSession, TargetInv, HoldingPCs
    <3>2. \A s \in Requests : state'[s] = "Ready" => state[s] = "Ready"
      BY <2>1, <3>1, DropState DEF LeaveSession, TerminateSession
    <3> QED
      BY <2>1, <3>2 DEF LeaveSession, TerminateSession, Return,
         NobodyConnects, Connected, ClientPCs
  <2>2. CASE TerminateSession(t) /\ Terminable(target[t])
    BY <2>2 DEF TerminateSession, NobodyConnects, Connected, ClientPCs,
       entryVars, fieldVars
  <2>3. CASE BeginShutdown(t) \/ MarkDead(t)
    BY <2>3 DEF BeginShutdown, MarkDead, NobodyConnects, Connected, ClientPCs
  <2>4. CASE TakeBrowser(t) \/ ShutdownBrowser(t)
    BY <2>4 DEF TakeBrowser, ShutdownBrowser, NobodyConnects, Connected,
       ClientPCs, fieldVars
  <2>5. BeginShutdown(t) \/ MarkDead(t) \/ TakeBrowser(t) \/ ShutdownBrowser(t)
          \/ LeaveSession(t) \/ TerminateSession(t)
    BY <1>3 DEF Terminate
  <2> QED
    BY <2>1, <2>2, <2>3, <2>4, <2>5
<1>4. ASSUME MaintenanceNext PROVE NobodyConnects
  <2>1. ASSUME NEW s \in Requests, SkipEntry(s) PROVE NobodyConnects
    BY <2>1, DropState DEF SkipEntry, NobodyConnects, Connected
  <2>2. CASE KeepSession
    <3>1. visited \in Requests
      BY <2>2 DEF KeepSession, visited, TargetInv, HoldingPCs
    <3>2. \A s \in Requests : state'[s] = "Ready" => state[s] = "Ready"
      BY <2>2, <3>1, DropState DEF KeepSession
    <3> QED
      BY <2>2, <3>2 DEF KeepSession, Return, NobodyConnects, Connected
  <2> QED
    BY <1>4, <2>1, <2>2 DEF MaintenanceNext, MaintenanceStep, PassBegins,
       PassEnds, VisitEntry, CheckIdle, SampleFails, BeginHealthCheck,
       HealthFails, HealthTimesOut, Proceed, Recycle, visited,
       NobodyConnects, Connected, entryVars, fieldVars
<1> QED
  BY <1>1, <1>2, <1>3, <1>4

(* Of two clients that race for a session the second is refused, for any   *)
(* number of them: connect_session claims a Ready session under its lock.  *)
THEOREM OneClient == Spec => []OneClientConnects
<1>1. PoolInit => ConnectedInv
  BY TaskNames DEF PoolInit, ConnectedInv, Connected, ClientPCs, Tasks
<1>2. Inv /\ ConnectedInv /\ [Next]_vars => ConnectedInv'
  <2> SUFFICES ASSUME Inv, ConnectedInv, [Next]_vars PROVE ConnectedInv'
    OBVIOUS
  <2>1. CASE UNCHANGED vars
    BY <2>1 DEF vars, taskVars, entryVars, fieldVars, ConnectedInv, Connected
  <2> QED
    BY <2>1, ArriveConnected, ServeConnected, OtherConnected DEF Next
<1>3. Inv /\ ConnectedInv => OneClientConnects
  <2> SUFFICES ASSUME Inv, ConnectedInv, NEW s \in Requests
               PROVE  Cardinality({r \in Attached(s) :
                                     op[r] = "connect_existing"}) <= 1
    BY DEF OneClientConnects
  <2> DEFINE C == {r \in Attached(s) : op[r] = "connect_existing"}
  <2>1. \A q, r \in C : q = r
    BY DEF Attached, ConnectedInv, Connected
  <2>2. CASE C = {}
    BY <2>2, FS_EmptySet
  <2>3. ASSUME NEW r \in C PROVE Cardinality(C) <= 1
    <3>1. C = {r}
      BY <2>1
    <3>2. Cardinality({r}) = 1
      BY FS_Singleton
    <3> QED
      BY <3>1, <3>2
  <2> QED
    BY <2>2, <2>3
<1> QED
  BY <1>1, <1>2, <1>3, Invariance, PTL DEF Spec

----------------------------------------------------------------------------
(* The process of a session *)

(* What tasks do about processes.                                          *)
Starting == {s \in Requests : pc[s] \in {"queued", "launch", "launch_failed"}}
Spawned == {s \in Requests : pc[s] = "launching"}
HandedOut == {s \in Requests : pc[s] = "launched"}
Shut == {s \in Requests : \E t \in Tasks : target[t] = s /\ pc[t] = "shutting"}

processView == <<Starting, Spawned, HandedOut, Shut, browser, proc>>

HasProcess(status) == status \in {"running", "hung", "zombie"}

(* A session has a process as long as somebody works with it.              *)
ProcInv ==
  /\ \A s \in Starting : proc[s] = "none"
  /\ \A s \in Requests :
       HasProcess(proc[s]) <=> \/ s \in Spawned \/ s \in HandedOut
                               \/ s \in browser \/ s \in Shut
  /\ \A s \in browser : s \notin Shut

(* The launch of a session is over when it has an entry.                   *)
LEMMA ViewApart ==
  ASSUME Inv
  PROVE  \A s \in Requests :
           s \in Starting \/ s \in Spawned \/ s \in HandedOut =>
             s \notin browser /\ s \notin Shut
BY DEF Inv, NameInv, BrowserInv, Launching, LaunchPCs, Starting, Spawned,
   HandedOut, Shut, TypeOK

(* Where a task that works on a process or launches one may be.            *)
WatchedPCs ==
  {"queued", "launch", "launch_failed", "launching", "launched", "shutting"}

(* A step of tasks that do something else, or nothing.                     *)
ElsewhereTasks ==
  \A t \in Tasks :
    \/ pc[t] \notin WatchedPCs /\ pc'[t] \notin WatchedPCs
    \/ pc'[t] = pc[t] /\ target'[t] = target[t]

(* Such a step changes no set of the view but browser.                     *)
LEMMA ElsewhereView ==
  ASSUME ElsewhereTasks
  PROVE  /\ Starting' = Starting /\ Spawned' = Spawned
         /\ HandedOut' = HandedOut /\ Shut' = Shut
<1> USE DEF ElsewhereTasks, WatchedPCs, Tasks
<1>1. UNCHANGED <<Starting, Spawned, HandedOut>>
  BY DEF Starting, Spawned, HandedOut
<1>2. Shut' = Shut
  BY DEF Shut
<1> QED
  BY <1>1, <1>2

(* Without a change of the view nothing changes.                           *)
LEMMA ViewUnchanged ==
  ASSUME ProcInv, UNCHANGED processView
  PROVE  ProcInv' /\ UNCHANGED ProcessPhase
<1>1. \A s \in Requests :
        /\ pc'[s] = "launching" <=> pc[s] = "launching"
        /\ pc'[s] = "launched" <=> pc[s] = "launched"
        /\ (\E t \in Tasks : target'[t] = s /\ pc'[t] = "shutting")
             <=> \E t \in Tasks : target[t] = s /\ pc[t] = "shutting"
  BY DEF processView, Spawned, HandedOut, Shut
<1>2. ProcInv'
  BY DEF processView, ProcInv
<1>3. UNCHANGED ProcessPhase
  BY <1>1 DEF processView, ProcessPhase
<1> QED
  BY <1>2, <1>3

PhaseFor(status, spawned, handedOut, shut) ==
  IF status = "none" THEN "none"
  ELSE IF spawned THEN "launching"
  ELSE IF handedOut THEN "owned"
  ELSE IF status = "zombie" \/ shut THEN "ending" ELSE "orphan"

(* The phase of a session, by the sets of the view.                        *)
LEMMA PhaseByView ==
  \A s \in Requests :
    /\ ProcessPhase[s] =
         PhaseFor(proc[s], s \in Spawned, s \in HandedOut \/ s \in browser,
                  s \in Shut)
    /\ ProcessPhase'[s] =
         PhaseFor(proc'[s], s \in Spawned', s \in HandedOut' \/ s \in browser',
                  s \in Shut')
BY DEF ProcessPhase, PhaseFor, Spawned, HandedOut, Shut

(* The moves of ProcessLifecycle, and none.                                *)
Allowed(from, to) ==
  \/ from = to
  \/ from = "none" /\ to = "launching"
  \/ from = "launching" /\ to \in {"owned", "orphan"}
  \/ from \in {"launching", "owned", "orphan"} /\ to = "ending"
  \/ from \in {"launching", "owned", "orphan", "ending"} /\ to = "none"

(* An allowed change of one session's process is a step of it.             *)
LEMMA AllowedStep ==
  ASSUME NEW c \in Requests, Allowed(ProcessPhase[c], ProcessPhase'[c]),
         \A d \in Requests \ {c} : ProcessPhase'[d] = ProcessPhase[d]
  PROVE  [Process!Next]_ProcessPhase
<1>1. ProcessPhase = [d \in Requests |-> ProcessPhase[d]]
  BY DEF ProcessPhase
<1>2. ProcessPhase' = [d \in Requests |-> ProcessPhase'[d]]
  BY DEF ProcessPhase
<1>3. ProcessPhase' = [ProcessPhase EXCEPT ![c] = ProcessPhase'[c]]
  BY <1>1, <1>2
<1> QED
  BY <1>1, <1>2, <1>3
  DEF Allowed, Process!Next, Process!Launch, Process!HandOut, Process!Abandon,
      Process!End, Process!Vanish, Process!Move

ProcessStep == ProcInv' /\ [Process!Next]_ProcessPhase

(* A step that does nothing about processes is no step of ProcessLifecycle.*)
LEMMA ElsewhereStep ==
  ASSUME ProcInv, ElsewhereTasks, UNCHANGED <<browser, proc>>
  PROVE  ProcessStep
BY ElsewhereView, ViewUnchanged DEF processView, ProcessStep

(* The process goes with its entry, if that still has it.                  *)
LEMMA DropStep ==
  ASSUME Inv, ProcInv, NEW s \in Requests, DropEntry(s), ElsewhereTasks
  PROVE  ProcessStep
<1>1. CASE UNCHANGED entryVars
  BY <1>1, ElsewhereStep DEF entryVars
<1>2. CASE FreeEntry(s)
  <2>1. /\ Starting' = Starting /\ Spawned' = Spawned
        /\ HandedOut' = HandedOut /\ Shut' = Shut
    BY ElsewhereView
  <2>2. /\ browser' = browser \ {s}
        /\ \A x \in Requests \ {s} : proc'[x] = proc[x]
        /\ proc'[s] = IF s \in browser THEN "none" ELSE proc[s]
    BY <1>2 DEF FreeEntry, ForgetFields, Inv, TypeOK
  <2>3. ProcInv'
    <3>1. \A x \in Starting' : proc'[x] = "none"
      BY <2>1, <2>2 DEF ProcInv, Starting
    <3>2. ASSUME NEW x \in Requests
          PROVE  HasProcess(proc'[x]) <=> \/ x \in Spawned' \/ x \in HandedOut'
                                          \/ x \in browser' \/ x \in Shut'
      <4>1. CASE x = s
        BY <2>1, <2>2, <4>1, ViewApart DEF ProcInv, HasProcess
      <4>2. CASE x # s
        BY <2>1, <2>2, <4>2 DEF ProcInv, HasProcess
      <4> QED
        BY <4>1, <4>2
    <3>3. \A x \in browser' : x \notin Shut'
      BY <2>1, <2>2 DEF ProcInv
    <3> QED
      BY <3>1, <3>2, <3>3 DEF ProcInv
  <2>4. \A x \in Requests \ {s} : ProcessPhase'[x] = ProcessPhase[x]
    BY <2>1, <2>2, PhaseByView
  <2>5. Allowed(ProcessPhase[s], ProcessPhase'[s])
    BY <2>1, <2>2, PhaseByView, ViewApart DEF PhaseFor, Allowed, ProcInv,
       HasProcess
  <2> QED
    BY <2>3, <2>4, <2>5, AllowedStep DEF ProcessStep
<1> QED
  BY <1>1, <1>2, DropEffect

(* A step of a launch does not shut anything down.                         *)
LEMMA LaunchShut ==
  ASSUME Inv, NEW r \in Requests, NEW next, pc' = [pc EXCEPT ![r] = next],
         pc[r] # "shutting", next # "shutting",
         \A t \in Tasks \ {r} : target'[t] = target[t]
  PROVE  Shut' = Shut
BY DEF Shut, Inv, TypeOK

(* A step of a launch moves no other session.                              *)
LEMMA LaunchMoves ==
  ASSUME Inv, NEW r \in Requests, NEW next, pc' = [pc EXCEPT ![r] = next]
  PROVE  /\ \A s \in Requests \ {r} : /\ s \in Starting' <=> s \in Starting
                                      /\ s \in Spawned' <=> s \in Spawned
                                      /\ s \in HandedOut' <=> s \in HandedOut
         /\ r \in Starting' <=> next \in {"queued", "launch", "launch_failed"}
         /\ r \in Spawned' <=> next = "launching"
         /\ r \in HandedOut' <=> next = "launched"
BY DEF Starting, Spawned, HandedOut, Inv, TypeOK, Tasks

(* What is checked of a step of a launch.                                  *)
LEMMA LaunchStep ==
  ASSUME Inv, ProcInv, NEW r \in Requests, NEW next,
         pc' = [pc EXCEPT ![r] = next],
         pc[r] \in {"idle", "queued"} \cup LaunchPCs, next # "shutting",
         \A t \in Tasks \ {r} : target'[t] = target[t],
         r \notin browser, r \notin Shut,
         \A s \in Requests \ {r} :
           /\ proc'[s] = proc[s]
           /\ s \in browser' <=> s \in browser,
         next \in {"queued", "launch", "launch_failed"} => proc'[r] = "none",
         HasProcess(proc'[r]) <=>
           next \in {"launching", "launched"} \/ r \in browser',
         next \in {"launching", "launched"} => r \notin browser',
         Allowed(ProcessPhase[r],
                 PhaseFor(proc'[r], next = "launching",
                          next = "launched" \/ r \in browser', FALSE)),
         browser \subseteq Requests, browser' \subseteq Requests
  PROVE  ProcessStep
<1>1. Shut' = Shut
  BY LaunchShut DEF LaunchPCs
<1>2. \A s \in Requests \ {r} : /\ s \in Starting' <=> s \in Starting
                                /\ s \in Spawned' <=> s \in Spawned
                                /\ s \in HandedOut' <=> s \in HandedOut
  BY LaunchMoves
<1>3. /\ r \in Starting' <=> next \in {"queued", "launch", "launch_failed"}
      /\ r \in Spawned' <=> next = "launching"
      /\ r \in HandedOut' <=> next = "launched"
  BY LaunchMoves
<1>4. ProcInv'
  <2>1. ASSUME NEW s \in Starting' PROVE proc'[s] = "none"
    BY <1>2, <1>3, <2>1 DEF ProcInv, Starting
  <2>2. ASSUME NEW s \in Requests
        PROVE  HasProcess(proc'[s]) <=> \/ s \in Spawned' \/ s \in HandedOut'
                                        \/ s \in browser' \/ s \in Shut'
    <3>1. CASE s = r
      BY <1>1, <1>3, <3>1
    <3>2. CASE s # r
      <4>1. /\ s \in Spawned' <=> s \in Spawned
            /\ s \in HandedOut' <=> s \in HandedOut
            /\ s \in Shut' <=> s \in Shut
            /\ s \in browser' <=> s \in browser
            /\ proc'[s] = proc[s]
        BY <1>1, <1>2, <3>2
      <4> QED
        BY <4>1 DEF ProcInv, HasProcess
    <3> QED
      BY <3>1, <3>2
  <2>3. ASSUME NEW s \in browser' PROVE s \notin Shut'
    BY <1>1, <2>3 DEF ProcInv
  <2> QED
    BY <2>1, <2>2, <2>3 DEF ProcInv
<1>5. ASSUME NEW s \in Requests \ {r}
      PROVE  ProcessPhase'[s] = ProcessPhase[s]
  <2>1. /\ s \in Spawned' <=> s \in Spawned
        /\ s \in HandedOut' <=> s \in HandedOut
        /\ s \in Shut' <=> s \in Shut
        /\ s \in browser' <=> s \in browser
        /\ proc'[s] = proc[s]
    BY <1>1, <1>2
  <2> QED
    BY <2>1, PhaseByView DEF PhaseFor
<1>6. Allowed(ProcessPhase[r], ProcessPhase'[r])
  BY <1>1, <1>3, PhaseByView DEF PhaseFor
<1> QED
  BY <1>4, <1>5, <1>6, AllowedStep DEF ProcessStep

(* A launch has a process if it has spawned one, and no entry.             *)
LEMMA LaunchingView ==
  ASSUME Inv, ProcInv, NEW r \in Requests, pc[r] \in {"queued"} \cup LaunchPCs
  PROVE  /\ r \notin browser /\ r \notin Shut
         /\ pc[r] \in {"queued", "launch", "launch_failed"} => proc[r] = "none"
         /\ pc[r] \in {"launching", "launched"} <=> HasProcess(proc[r])
         /\ ProcessPhase[r] = IF pc[r] = "launching" THEN "launching"
                              ELSE IF pc[r] = "launched" THEN "owned" ELSE "none"
<1>1. r \in Starting \/ r \in Spawned \/ r \in HandedOut
  BY DEF Starting, Spawned, HandedOut, LaunchPCs
<1>2. r \notin browser /\ r \notin Shut
  BY <1>1, ViewApart
<1>3. pc[r] \in {"queued", "launch", "launch_failed"} => proc[r] = "none"
  BY DEF ProcInv, Starting
<1>4. pc[r] \in {"launching", "launched"} <=> HasProcess(proc[r])
  BY <1>2 DEF ProcInv, Spawned, HandedOut
<1> QED
  BY <1>2, <1>3, <1>4
  DEF ProcessPhase, HasProcess, LaunchPCs

(* A request that asks for a session has no process yet.                   *)
LEMMA CreateSessionStep ==
  ASSUME Inv, ProcInv, NEW r \in Requests, CreateSession(r)
  PROVE  ProcessStep
<1> USE DEF CreateSession, Start, Fresh, Goto, entryVars, Tasks
<1>1. r \notin browser /\ r \notin Shut /\ browser \subseteq Requests
  BY DEF Inv, BrowserInv, TypeOK, Entries, Shut
<1>2. /\ pc' = [pc EXCEPT ![r] = "queued"] /\ pc[r] = "idle"
      /\ proc' = proc /\ proc[r] = "none" /\ browser' = browser
      /\ target' = target
  OBVIOUS
<1>3. ProcessPhase[r] = "none"
  BY <1>2 DEF ProcessPhase
<1> HIDE DEF CreateSession
<1> QED
  BY <1>1, <1>2, <1>3, LaunchStep DEF HasProcess, Allowed, PhaseFor

(* A launch spawns a process, hands it out, or loses it on the way.        *)
LEMMA LaunchActionStep ==
  ASSUME Inv, ProcInv, NEW r \in Requests, Launch(r) \/ CancelLaunch(r)
  PROVE  ProcessStep
<1>1. /\ pc[r] \in {"queued"} \cup LaunchPCs
      /\ browser \subseteq Requests /\ proc \in [Requests -> ProcStates]
  BY DEF Launch, CancelLaunch, QueueGranted, QueueTimeout, RejectProfile,
     SpawnChrome, LaunchFails, ReportLaunchError, LaunchSucceeds,
     PublishSession, LaunchPCs, Inv, TypeOK
<1> USE <1>1, LaunchingView, LaunchStep
    DEF Goto, HasProcess, Allowed, PhaseFor
<1>2. CASE QueueGranted(r)
  BY <1>2 DEF QueueGranted, entryVars
<1>3. CASE QueueTimeout(r) \/ RejectProfile(r) \/ ReportLaunchError(r)
  <2>1. /\ pc' = [pc EXCEPT ![r] = "idle"]
        /\ target' = [target EXCEPT ![r] = NoSession]
        /\ proc' = proc /\ browser' = browser
        /\ pc[r] \in {"queued", "launch", "launch_failed"}
    BY <1>3, TaskNames DEF QueueTimeout, RejectProfile, ReportLaunchError,
       Return, entryVars
  <2> QED
    BY <2>1 DEF Inv, TypeOK
<1>4. CASE SpawnChrome(r)
  BY <1>4 DEF SpawnChrome
<1>5. CASE LaunchFails(r)
  BY <1>5 DEF LaunchFails
<1>6. CASE LaunchSucceeds(r)
  BY <1>6 DEF LaunchSucceeds, entryVars
<1>7. CASE PublishSession(r)
  <2>1. PICK next \in {"respond", "upgrade", "mark"} :
          pc' = [pc EXCEPT ![r] = next]
    BY <1>7 DEF PublishSession
  <2>2. /\ target' = [target EXCEPT ![r] = r] /\ proc' = proc
        /\ browser' = browser \cup {r} /\ pc[r] = "launched"
    BY <1>7 DEF PublishSession
  <2> QED
    BY <2>1, <2>2 DEF Inv, TypeOK
<1>8. CASE CancelLaunch(r)
  <2>1. PICK left \in IF pc[r] = "launching" /\ proc[r] = "running"
                      THEN {"orphan", "none"} ELSE {"none"} :
               proc' = [proc EXCEPT ![r] = left]
    BY <1>8 DEF CancelLaunch
  <2>2. /\ pc' = [pc EXCEPT ![r] = "idle"]
        /\ target' = [target EXCEPT ![r] = NoSession]
        /\ browser' = browser
    BY <1>8, TaskNames DEF CancelLaunch, Return
  <2> QED
    BY <2>1, <2>2 DEF Inv, TypeOK
<1> QED
  BY <1>2, <1>3, <1>4, <1>5, <1>6, <1>7, <1>8 DEF Launch

(* A step about the process of one session that is not being launched.     *)
LEMMA SessionStep ==
  ASSUME Inv, ProcInv, NEW s \in Requests,
         Starting' = Starting, Spawned' = Spawned, HandedOut' = HandedOut,
         \A x \in Requests \ {s} : /\ proc'[x] = proc[x]
                                   /\ x \in browser' <=> x \in browser
                                   /\ x \in Shut' <=> x \in Shut,
         s \in Starting => proc'[s] = "none",
         HasProcess(proc'[s]) <=> \/ s \in Spawned \/ s \in HandedOut
                                  \/ s \in browser' \/ s \in Shut',
         s \in browser' => s \notin Shut',
         Allowed(ProcessPhase[s],
                 PhaseFor(proc'[s], s \in Spawned,
                          s \in HandedOut \/ s \in browser', s \in Shut')),
         browser \subseteq Requests, browser' \subseteq Requests
  PROVE  ProcessStep
<1>1. ProcInv'
  <2>1. ASSUME NEW x \in Starting' PROVE proc'[x] = "none"
    BY <2>1 DEF ProcInv, Starting
  <2>2. ASSUME NEW x \in Requests
        PROVE  HasProcess(proc'[x]) <=> \/ x \in Spawned' \/ x \in HandedOut'
                                        \/ x \in browser' \/ x \in Shut'
    <3>1. CASE x = s
      BY <3>1
    <3>2. CASE x # s
      <4>1. /\ proc'[x] = proc[x]
            /\ x \in browser' <=> x \in browser
            /\ x \in Shut' <=> x \in Shut
        BY <3>2
      <4> QED
        BY <4>1 DEF ProcInv, HasProcess
    <3> QED
      BY <3>1, <3>2
  <2>3. ASSUME NEW x \in browser' PROVE x \notin Shut'
    BY <2>3 DEF ProcInv
  <2> QED
    BY <2>1, <2>2, <2>3 DEF ProcInv
<1>2. ASSUME NEW x \in Requests \ {s}
      PROVE  ProcessPhase'[x] = ProcessPhase[x]
  BY PhaseByView DEF PhaseFor
<1>3. Allowed(ProcessPhase[s], ProcessPhase'[s])
  BY PhaseByView DEF PhaseFor
<1> QED
  BY <1>1, <1>2, <1>3, AllowedStep DEF ProcessStep

(* The only task that shuts a session down stops doing so.                 *)
LEMMA ShutOne ==
  ASSUME Inv, NEW t \in Tasks, NEW next, pc[t] = "shutting",
         pc' = [pc EXCEPT ![t] = next], next \notin WatchedPCs,
         target' = target
  PROVE  /\ target[t] \in Requests /\ target[t] \in Shut
         /\ Starting' = Starting /\ Spawned' = Spawned
         /\ HandedOut' = HandedOut /\ Shut' = Shut \ {target[t]}
<1> USE DEF Inv, TypeOK, WatchedPCs
<1>1. target[t] \in Requests /\ target[t] \in Shut
  BY DEF TargetInv, HoldingPCs, ShutdownPCs, Shut
<1>2. Starting' = Starting /\ Spawned' = Spawned /\ HandedOut' = HandedOut
  BY DEF Starting, Spawned, HandedOut, Tasks
<1>3. \A u \in Tasks : pc[u] = "shutting" /\ target[u] = target[t] => u = t
  BY DEF ShutdownInv, ShutdownPCs
<1>4. Shut' = Shut \ {target[t]}
  BY <1>3 DEF Shut
<1> QED
  BY <1>1, <1>2, <1>4

(* A shutdown takes the browser of its session, and leaves no process.     *)
LEMMA ShutdownStep ==
  ASSUME Inv, ProcInv, NEW t \in Tasks,
         \/ TakeBrowser(t)
         \/ ShutdownBrowser(t)
         \/ CancelHandler(t)
  PROVE  ProcessStep
<1> USE DEF Inv, TypeOK, Goto
<1>1. browser \subseteq Requests /\ proc \in [Requests -> ProcStates]
  OBVIOUS
<1>2. CASE TakeBrowser(t) /\ target[t] \in browser
  <2> DEFINE s == target[t]
  <2>1. /\ pc[t] = "take" /\ pc' = [pc EXCEPT ![t] = "shutting"]
        /\ browser' = browser \ {s} /\ proc' = proc /\ target' = target
        /\ s \in browser /\ s \in Requests
    BY <1>2 DEF TakeBrowser
  <2>2. Starting' = Starting /\ Spawned' = Spawned /\ HandedOut' = HandedOut
    BY <2>1 DEF Starting, Spawned, HandedOut, Tasks
  <2>3. Shut' = Shut \cup {s}
    BY <2>1 DEF Shut
  <2>4. s \notin Starting /\ s \notin Spawned /\ s \notin HandedOut
    BY <2>1, ViewApart
  <2>5. HasProcess(proc[s])
    BY <2>1 DEF ProcInv
  <2>6. ProcessPhase[s] = "owned"
    BY <2>1, <2>4, <2>5, PhaseByView DEF PhaseFor, HasProcess
  <2> HIDE DEF s
  <2> QED
    BY <1>1, <2>1, <2>2, <2>3, <2>4, <2>5, <2>6, SessionStep
    DEF HasProcess, Allowed, PhaseFor
<1>3. CASE TakeBrowser(t) /\ target[t] \notin browser
  <2>1. ElsewhereTasks /\ UNCHANGED <<browser, proc>>
    BY <1>3 DEF TakeBrowser, ElsewhereTasks, WatchedPCs
  <2> QED
    BY <2>1, ElsewhereStep
<1>4. CASE pc[t] = "shutting" /\ (ShutdownBrowser(t) \/ CancelHandler(t))
  <2> DEFINE s == target[t]
  <2>1. PICK next \in {"mark_dead", "leave"} : pc' = [pc EXCEPT ![t] = next]
    BY <1>4 DEF ShutdownBrowser, CancelHandler
  <2>2. /\ proc' = [proc EXCEPT ![s] = "none"] /\ target' = target
        /\ browser' = browser
    BY <1>4 DEF ShutdownBrowser, CancelHandler
  <2>3. /\ s \in Requests /\ s \in Shut
        /\ Starting' = Starting /\ Spawned' = Spawned
        /\ HandedOut' = HandedOut /\ Shut' = Shut \ {s}
    BY <1>4, <2>1, <2>2, ShutOne DEF WatchedPCs
  <2>4. /\ s \notin Starting /\ s \notin Spawned /\ s \notin HandedOut
        /\ s \notin browser
    BY <2>3, ViewApart DEF ProcInv
  <2>5. HasProcess(proc[s])
    BY <2>3 DEF ProcInv
  <2>6. ProcessPhase[s] = "ending"
    BY <2>3, <2>4, <2>5, PhaseByView DEF PhaseFor, HasProcess
  <2> HIDE DEF s
  <2> QED
    BY <1>1, <2>2, <2>3, <2>4, <2>6, SessionStep
    DEF HasProcess, Allowed, PhaseFor
<1>5. CASE CancelHandler(t) /\ pc[t] # "shutting"
  <2>1. pc[t] \notin WatchedPCs
    BY <1>5 DEF CancelHandler, SuspendedPCs, ShutdownPCs, WatchedPCs
  <2>2. ElsewhereTasks /\ UNCHANGED <<browser, proc>>
    BY <1>5, <2>1 DEF CancelHandler, ElsewhereTasks, WatchedPCs
  <2> QED
    BY <2>2, ElsewhereStep
<1> QED
  BY <1>2, <1>3, <1>4, <1>5 DEF ShutdownBrowser

(* What Chrome does by itself.                                             *)
LEMMA ChromeStep ==
  ASSUME Inv, ProcInv, NEW s \in Requests, Environment(s)
  PROVE  ProcessStep
<1> USE DEF Inv, TypeOK
<1>1. /\ Starting' = Starting /\ Spawned' = Spawned
      /\ HandedOut' = HandedOut /\ Shut' = Shut /\ browser' = browser
  BY DEF Environment, BrowserExits, BrowserHangs, IdleElapses,
     LifetimeElapses, taskVars, Starting, Spawned, HandedOut, Shut
<1>2. CASE proc' = proc
  BY <1>1, <1>2, ViewUnchanged DEF processView, ProcessStep
<1>3. CASE BrowserExits(s) \/ BrowserHangs(s)
  <2>1. /\ \A x \in Requests \ {s} : proc'[x] = proc[x]
        /\ \/ HasProcess(proc[s]) /\ proc'[s] \in {"zombie", "hung"}
              /\ (proc'[s] = "hung" => s \in Entries)
           \/ proc[s] = "orphan" /\ proc'[s] = "none"
    BY <1>3 DEF BrowserExits, BrowserHangs, Alive, HasProcess
  <2>2. s \in Starting => proc[s] = "none"
    BY DEF ProcInv
  <2>3. HasProcess(proc'[s]) <=> HasProcess(proc[s])
    BY <2>1 DEF HasProcess
  <2>4. HasProcess(proc[s]) <=> \/ s \in Spawned \/ s \in HandedOut
                                \/ s \in browser \/ s \in Shut
    BY DEF ProcInv
  <2>5. Allowed(ProcessPhase[s],
                PhaseFor(proc'[s], s \in Spawned,
                         s \in HandedOut \/ s \in browser', s \in Shut'))
    BY <1>1, <2>1, <2>4, PhaseByView DEF PhaseFor, HasProcess, Allowed
  <2>6. s \in browser => s \notin Shut
    BY DEF ProcInv
  <2>7. s \in Starting => proc'[s] = "none"
    BY <2>1, <2>2 DEF HasProcess
  <2> QED
    BY <1>1, <2>1, <2>3, <2>4, <2>5, <2>6, <2>7, SessionStep
<1> QED
  BY <1>2, <1>3 DEF Environment, IdleElapses, LifetimeElapses

(* A request that asks for no session of its own does nothing about        *)
(* processes.                                                              *)
LEMMA ArriveStep ==
  ASSUME Inv, ProcInv, NEW r \in Requests, Arrive(r)
  PROVE  ProcessStep
<1>1. CASE CreateSession(r)
  BY <1>1, CreateSessionStep
<1>2. CASE ListSessions(r)
           \/ \E s \in Requests : ConnectExisting(r, s) \/ DeleteSession(r, s)
  <2>1. ElsewhereTasks /\ UNCHANGED <<browser, proc>>
    BY <1>2 DEF ConnectExisting, DeleteSession, ListSessions, Start, Goto,
       entryVars, ElsewhereTasks, WatchedPCs, Inv, TypeOK, Tasks
  <2> QED
    BY <2>1, ElsewhereStep
<1> QED
  BY <1>1, <1>2 DEF Arrive

(* Handlers that connect to, use or list sessions may let go of one.       *)
LEMMA ServeStep ==
  ASSUME Inv, ProcInv, NEW r \in Requests, Serve(r) \/ Finish(r)
  PROVE  ProcessStep
<1> USE DEF Inv, TypeOK, Tasks, Goto
<1>1. CASE ClaimSession(r)
  <2>1. target[r] \in Requests
    BY <1>1 DEF ClaimSession, TargetInv, HoldingPCs
  <2>2. ElsewhereTasks
    BY <1>1 DEF ClaimSession, Return, ElsewhereTasks, WatchedPCs
  <2>3. UNCHANGED <<browser, proc>> \/ DropEntry(target[r])
    BY <1>1 DEF ClaimSession
  <2> QED
    BY <2>1, <2>2, <2>3, ElsewhereStep, DropStep
<1>2. CASE RestCompletes(r)
  <2>1. target[r] \in Requests
    BY <1>2 DEF RestCompletes, TargetInv, HoldingPCs, ClientPCs
  <2>2. ElsewhereTasks /\ DropEntry(target[r])
    BY <1>2 DEF RestCompletes, ElsewhereTasks, WatchedPCs
  <2> QED
    BY <2>1, <2>2, DropStep
<1>3. ASSUME NEW s \in Requests, SessionInfo(r, s) PROVE ProcessStep
  <2>1. ElsewhereTasks /\ DropEntry(s)
    BY <1>3 DEF SessionInfo, ElsewhereTasks
  <2> QED
    BY <2>1, DropStep
<1>4. CASE Touch(r) \/ UpgradeSucceeds(r) \/ UpgradeFails(r) \/ MarkInUse(r)
           \/ ListReturns(r) \/ ProxyCloses(r)
  <2>1. ElsewhereTasks /\ UNCHANGED <<browser, proc>>
    BY <1>4, TaskNames DEF Touch, UpgradeSucceeds, UpgradeFails, MarkInUse,
       ListReturns, ProxyCloses, Return, entryVars, ElsewhereTasks, WatchedPCs
  <2> QED
    BY <2>1, ElsewhereStep
<1> QED
  BY <1>1, <1>2, <1>3, <1>4 DEF Serve, Finish

(* Ending a session does something about its process only where it takes   *)
(* the browser and shuts it down, and where its entry is dropped.          *)
LEMMA TerminateStep ==
  ASSUME Inv, ProcInv, NEW t \in Tasks, Terminate(t)
  PROVE  ProcessStep
<1> USE DEF Inv, TypeOK, Goto
<1>1. CASE TerminateSession(t) \/ LeaveSession(t)
  <2>1. target[t] \in Requests
    BY <1>1 DEF TerminateSession, LeaveSession, TargetInv, HoldingPCs
  <2>2. ElsewhereTasks
    BY <1>1 DEF TerminateSession, LeaveSession, Return, ElsewhereTasks,
       WatchedPCs
  <2>3. UNCHANGED <<browser, proc>> \/ DropEntry(target[t])
    BY <1>1 DEF TerminateSession, LeaveSession, entryVars
  <2> QED
    BY <2>1, <2>2, <2>3, ElsewhereStep, DropStep
<1>2. CASE BeginShutdown(t) \/ MarkDead(t)
  <2>1. ElsewhereTasks /\ UNCHANGED <<browser, proc>>
    BY <1>2 DEF BeginShutdown, MarkDead, ElsewhereTasks, WatchedPCs
  <2> QED
    BY <2>1, ElsewhereStep
<1> QED
  BY <1>1, <1>2, ShutdownStep DEF Terminate

(* Maintenance only looks at processes, and may let go of a session.       *)
LEMMA MaintenanceProcessStep ==
  ASSUME Inv, ProcInv, MaintenanceNext
  PROVE  ProcessStep
<1> USE DEF Inv, TypeOK, Tasks, Goto
<1>1. ASSUME NEW s \in Requests, SkipEntry(s) PROVE ProcessStep
  <2>1. ElsewhereTasks /\ DropEntry(s)
    BY <1>1 DEF SkipEntry, ElsewhereTasks
  <2> QED
    BY <2>1, DropStep
<1>2. CASE KeepSession
  <2>1. visited \in Requests
    BY <1>2 DEF KeepSession, visited, TargetInv, HoldingPCs
  <2>2. ElsewhereTasks /\ DropEntry(visited)
    BY <1>2 DEF KeepSession, Return, ElsewhereTasks, WatchedPCs
  <2> QED
    BY <2>1, <2>2, DropStep
<1>3. CASE ~KeepSession /\ ~\E s \in Requests : SkipEntry(s)
  <2>1. ElsewhereTasks /\ UNCHANGED <<browser, proc>>
    BY <1>3 DEF MaintenanceNext, MaintenanceStep, PassBegins, PassEnds,
       VisitEntry, CheckIdle, SampleFails, BeginHealthCheck, HealthFails,
       HealthTimesOut, Proceed, Recycle, entryVars, ElsewhereTasks, WatchedPCs
  <2> QED
    BY <2>1, ElsewhereStep
<1> QED
  BY <1>1, <1>2, <1>3

(* Every step is one of the process of at most one session.                *)
LEMMA EveryProcessStep ==
  ASSUME Inv, ProcInv, [Next]_vars
  PROVE  ProcessStep
<1>1. CASE UNCHANGED vars
  <2>1. ElsewhereTasks /\ UNCHANGED <<browser, proc>>
    BY <1>1 DEF vars, taskVars, entryVars, ElsewhereTasks
  <2> QED
    BY <2>1, ElsewhereStep
<1>2. ASSUME NEW r \in Requests, Disconnect(r) PROVE ProcessStep
  BY <1>2, LaunchActionStep, ShutdownStep DEF Disconnect, Tasks
<1> QED
  BY <1>1, <1>2, ArriveStep, LaunchActionStep, ServeStep, ChromeStep,
     TerminateStep, MaintenanceProcessStep DEF Next

LEMMA InitProcInv == PoolInit => ProcInv /\ Process!Init
BY TaskNames DEF PoolInit, ProcInv, Process!Init, Starting, Spawned, HandedOut,
   Shut, HasProcess, ProcessPhase, Tasks

(* A session has a process exactly as long as a launch, its entry or a     *)
(* shutdown works with it.                                                 *)
LEMMA ProcInvariance == Spec => []ProcInv
<1>1. Inv /\ ProcInv /\ [Next]_vars => ProcInv'
  BY EveryProcessStep DEF ProcessStep
<1> QED
  BY <1>1, InitProcInv, Invariance, PTL DEF Spec

(* The pool implements ProcessLifecycle: whatever is cancelled and whoever *)
(* races to end a session, a Chrome process that a launch has handed out   *)
(* has an owner until it is on its way out.                                *)
THEOREM ProcessRefinement == Spec => ImplementsProcess
<1>1. Inv /\ ProcInv /\ [Next]_vars => [Process!Next]_ProcessPhase
  BY EveryProcessStep DEF ProcessStep
<1> QED
  BY <1>1, InitProcInv, Invariance, ProcInvariance, PTL
  DEF Spec, ImplementsProcess, Process!Spec

----------------------------------------------------------------------------
(* Why sessions are recycled *)

(* The verdict "exited" is only ever reached of a session that somebody    *)
(* has taken off the list meanwhile.                                       *)
ExitInv ==
  /\ \A s \in Requests : killReason[s] # "exited"
  /\ \A r \in Requests : op[r] # "exited"
  /\ op[Maintenance] = "exited" =>
       pc[Maintenance] = "terminate" /\ visited \notin sessions

(* Dropping an entry gives no reason.                                      *)
LEMMA DropGivesNoReason ==
  ASSUME Inv, NEW s \in Requests, DropEntry(s),
         \A x \in Requests : killReason[x] # "exited"
  PROVE  \A x \in Requests : killReason'[x] # "exited"
BY DropEffect, FreeEffect DEF entryVars, fieldVars

(* Requests reach no verdicts.                                             *)
LEMMA RequestExit ==
  ASSUME Inv, ExitInv, NEW r \in Requests,
         \/ Arrive(r) \/ Launch(r) \/ Serve(r) \/ Finish(r)
         \/ Disconnect(r) \/ Environment(r)
  PROVE  ExitInv'
<1> USE TaskNames DEF Inv, TypeOK, Tasks, Goto, Return, visited, ExitInv
<1>1. CASE Arrive(r)
  BY <1>1 DEF Arrive, CreateSession, ConnectExisting, DeleteSession,
     ListSessions, Start, CreateOps, entryVars, fieldVars
<1>2. CASE Launch(r) /\ ~PublishSession(r)
  BY <1>2 DEF Launch, QueueGranted, QueueTimeout, RejectProfile, SpawnChrome,
     LaunchFails, ReportLaunchError, LaunchSucceeds, entryVars, fieldVars
<1>3. CASE PublishSession(r)
  <2>1. target[Maintenance] # r
    BY <1>3 DEF PublishSession, NameInv, Launching, LaunchPCs
  <2> QED
    BY <1>3, <2>1 DEF PublishSession
<1>4. CASE ClaimSession(r) \/ RestCompletes(r)
  <2>1. target[r] \in Requests
    BY <1>4 DEF ClaimSession, RestCompletes, TargetInv, HoldingPCs, ClientPCs
  <2>2. \A x \in Requests : killReason'[x] # "exited"
    BY <1>4, <2>1, DropGivesNoReason DEF ClaimSession, RestCompletes
  <2> QED
    BY <1>4, <2>2 DEF ClaimSession, RestCompletes
<1>5. ASSUME NEW s \in Requests, SessionInfo(r, s) PROVE ExitInv'
  BY <1>5, DropGivesNoReason DEF SessionInfo
<1>6. CASE Touch(r) \/ UpgradeSucceeds(r) \/ UpgradeFails(r) \/ MarkInUse(r)
           \/ ListReturns(r) \/ ProxyCloses(r)
  BY <1>6 DEF Touch, UpgradeSucceeds, UpgradeFails, MarkInUse, ListReturns,
     ProxyCloses, entryVars, fieldVars
<1>7. CASE Disconnect(r) \/ Environment(r)
  BY <1>7 DEF Disconnect, CancelLaunch, CancelHandler, Environment,
     BrowserExits, BrowserHangs, IdleElapses, LifetimeElapses, fieldVars,
     taskVars
<1> QED
  BY <1>1, <1>2, <1>3, <1>4, <1>5, <1>6, <1>7 DEF Launch, Serve, Finish

(* With the verdict "exited" maintenance finds the session gone.           *)
LEMMA TerminateExit ==
  ASSUME Inv, ExitInv, NEW t \in Tasks, Terminate(t)
  PROVE  ExitInv'
<1> USE TaskNames DEF Inv, TypeOK, Tasks, Goto, visited, ExitInv
<1>1. CASE LeaveSession(t) \/ (TerminateSession(t) /\ ~Terminable(target[t]))
  <2>1. target[t] \in Requests
    BY <1>1 DEF LeaveSession, TerminateSession, TargetInv, HoldingPCs
  <2>2. \A x \in Requests : killReason'[x] # "exited"
    BY <1>1, <2>1, DropGivesNoReason DEF LeaveSession, TerminateSession
  <2> QED
    BY <1>1, <2>2 DEF LeaveSession, TerminateSession, Return
<1>2. CASE TerminateSession(t) /\ Terminable(target[t])
  BY <1>2 DEF TerminateSession, Terminable, Unlist, entryVars, fieldVars
<1>3. CASE BeginShutdown(t)
  <2>1. op[t] # "exited"
    BY <1>3 DEF BeginShutdown
  <2>2. Reason(t) # "exited"
    BY <2>1 DEF Reason
  <2> QED
    BY <1>3, <2>2 DEF BeginShutdown
<1>4. CASE TakeBrowser(t) \/ ShutdownBrowser(t) \/ MarkDead(t)
  BY <1>4 DEF TakeBrowser, ShutdownBrowser, MarkDead, fieldVars
<1> QED
  BY <1>1, <1>2, <1>3, <1>4 DEF Terminate

(* A session without a process has none in the map, so with a ps that      *)
(* works the verdict "exited" comes too late.                              *)
LEMMA MaintenanceExit ==
  ASSUME Inv, ProcInv, ExitInv, ~PsMayFail, MaintenanceNext
  PROVE  ExitInv'
<1> USE TaskNames DEF Inv, TypeOK, Tasks, Goto, visited, ExitInv
<1>1. ASSUME NEW s \in Requests, SkipEntry(s) PROVE ExitInv'
  BY <1>1, DropGivesNoReason DEF SkipEntry
<1>2. CASE KeepSession
  <2>1. visited \in Requests
    BY <1>2 DEF KeepSession, TargetInv, HoldingPCs
  <2>2. \A x \in Requests : killReason'[x] # "exited"
    BY <1>2, <2>1, DropGivesNoReason DEF KeepSession
  <2> QED
    BY <1>2, <2>2 DEF KeepSession, Return
<1>3. CASE SampleFails
  <2>1. visited \in Requests
    BY <1>3 DEF SampleFails, TargetInv, HoldingPCs
  <2>2. proc[visited] = "none" => visited \notin sessions
    BY <2>1 DEF ProcInv, HasProcess, ListedSessionsLive
  <2> QED
    BY <1>3, <2>1, <2>2 DEF SampleFails, Recycle, InProcessTable, entryVars,
       fieldVars
<1>4. CASE PassBegins \/ PassEnds \/ CheckIdle \/ BeginHealthCheck
           \/ HealthFails \/ HealthTimesOut
  BY <1>4 DEF PassBegins, PassEnds, CheckIdle, BeginHealthCheck, HealthFails,
     HealthTimesOut, Proceed, Recycle, entryVars, fieldVars
<1>5. ASSUME NEW s \in Requests, VisitEntry(s) PROVE ExitInv'
  BY <1>5 DEF VisitEntry, Proceed, Recycle, entryVars, fieldVars
<1> QED
  BY <1>1, <1>2, <1>3, <1>4, <1>5 DEF MaintenanceNext, MaintenanceStep

(* While ps works no session is recycled as "browser process exited":      *)
(* a listed session owns a browser, whose process is in the table, exited  *)
(* or not, until a shutdown that follows its removal has waited for it.    *)
THEOREM ExitUnreported ==
  ASSUME ~PsMayFail
  PROVE  Spec => []ExitNeverTheReason
<1>1. PoolInit => ExitInv
  BY DEF PoolInit, ExitInv, Tasks
<1>2. Inv /\ ProcInv /\ ExitInv /\ [Next]_vars => ExitInv'
  <2> SUFFICES ASSUME Inv, ProcInv, ExitInv, [Next]_vars PROVE ExitInv'
    OBVIOUS
  <2>1. CASE UNCHANGED vars
    BY <2>1 DEF vars, taskVars, entryVars, fieldVars, ExitInv, visited
  <2> QED
    BY <2>1, RequestExit, TerminateExit, MaintenanceExit DEF Next
<1>3. ExitInv => ExitNeverTheReason
  BY DEF ExitInv, ExitNeverTheReason
<1> QED
  BY <1>1, <1>2, <1>3, Invariance, ProcInvariance, PTL DEF Spec

----------------------------------------------------------------------------
(* Slots and the list *)

(* Occupied, in SessionLifecycle, are the owners of permits.               *)
LEMMA PhaseOfSession ==
  \A s \in Requests :
    /\ SessionPhase[s] = IF s \notin owners THEN "free"
                         ELSE IF s \notin Entries THEN "starting"
                         ELSE IF s \in sessions THEN "listed" ELSE "retired"
    /\ SessionPhase'[s] = IF s \notin owners' THEN "free"
                          ELSE IF s \notin Entries' THEN "starting"
                          ELSE IF s \in sessions' THEN "listed" ELSE "retired"
BY DEF SessionPhase

(* What the invariant says of owners, entries and the map.                 *)
LEMMA SlotFacts ==
  ASSUME Inv
  PROVE  /\ Entries \subseteq owners /\ owners \subseteq Requests
         /\ sessions \subseteq Entries
BY DEF Inv, OwnerInv, RefInv, Referenced, QueueInv, QueueTypeOK, TypeOK

(* A change of the phase of one session is written as an EXCEPT.           *)
LEMMA OnePhase ==
  ASSUME NEW c \in Requests,
         \A d \in Requests \ {c} : SessionPhase'[d] = SessionPhase[d]
  PROVE  SessionPhase' = [SessionPhase EXCEPT ![c] = SessionPhase'[c]]
<1>1. SessionPhase = [d \in Requests |-> SessionPhase[d]]
  BY DEF SessionPhase
<1>2. SessionPhase' = [d \in Requests |-> SessionPhase'[d]]
  BY DEF SessionPhase
<1> QED
  BY <1>1, <1>2

(* A step about something else.                                            *)
LEMMA SlotsUnchanged ==
  ASSUME owners' = owners, Entries' = Entries, sessions' = sessions
  PROVE  [Lifecycle!Next]_SessionPhase
BY DEF SessionPhase

(* A free permit is one below the capacity.                                *)
LEMMA SlotFree ==
  ASSUME Inv, permits > 0
  PROVE  Cardinality({s \in Requests : SessionPhase[s] # "free"})
           < MaxConcurrentSessions
<1>1. {s \in Requests : SessionPhase[s] # "free"} = owners
  BY PhaseOfSession, SlotFacts
<1>2. /\ permits + Cardinality(owners) = MaxConcurrentSessions
      /\ permits \in Nat /\ Cardinality(owners) \in Nat
  BY OwnersFinite DEF Inv, QueueInv, QueueTypeOK
<1>3. Cardinality(owners) < MaxConcurrentSessions
  BY <1>2, CapacityAssumption
<1> QED
  BY <1>1, <1>3

(* A released permit is free, or is given to a request that waits.         *)
LEMMA ReleaseCases ==
  ASSUME Inv, NEW r \in owners, Release(r)
  PROVE  \/ owners' = owners \ {r}
         \/ \E w \in Requests \ owners : owners' = (owners \ {r}) \cup {w}
<1> USE DEF Inv, QueueInv, QueueTypeOK
<1>1. CASE queue = <<>>
  BY <1>1 DEF Release
<1>2. CASE queue # <<>>
  <2>1. Head(queue) = queue[1] /\ 1 \in 1..Len(queue)
    BY <1>2
  <2>2. Head(queue) \in Requests \ owners
    BY <1>2, <2>1
  <2>3. owners' = (owners \ {r}) \cup {Head(queue)}
    BY <1>2 DEF Release
  <2> QED
    BY <2>2, <2>3
<1> QED
  BY <1>1, <1>2

(* A session that is not listed gives its slot back.                       *)
LEMMA SlotEnds ==
  ASSUME Inv, NEW s \in owners, s \notin sessions, Release(s),
         Entries' = Entries \ {s}, sessions' = sessions
  PROVE  [Lifecycle!Next]_SessionPhase
<1>1. s \in Requests /\ SessionPhase[s] \in {"starting", "retired"}
  BY PhaseOfSession, SlotFacts
<1>2. CASE owners' = owners \ {s}
  <2>1. SessionPhase'[s] = "free"
    BY <1>1, <1>2, PhaseOfSession
  <2>2. \A d \in Requests \ {s} : SessionPhase'[d] = SessionPhase[d]
    BY <1>2, PhaseOfSession
  <2>3. SessionPhase' = [SessionPhase EXCEPT ![s] = "free"]
    BY <1>1, <2>1, <2>2, OnePhase
  <2> QED
    BY <1>1, <2>3 DEF Lifecycle!Next, Lifecycle!End, Lifecycle!Ended
<1>3. ASSUME NEW w \in Requests \ owners, owners' = (owners \ {s}) \cup {w}
      PROVE  [Lifecycle!Next]_SessionPhase
  <2>1. /\ SessionPhase[w] = "free" /\ SessionPhase'[s] = "free"
        /\ SessionPhase'[w] = "starting" /\ w # s
    BY <1>1, <1>3, PhaseOfSession, SlotFacts
  <2>2. \A d \in Requests \ {s, w} : SessionPhase'[d] = SessionPhase[d]
    BY <1>3, PhaseOfSession
  <2>3. /\ SessionPhase = [d \in Requests |-> SessionPhase[d]]
        /\ SessionPhase' = [d \in Requests |-> SessionPhase'[d]]
    BY DEF SessionPhase
  <2>4. SessionPhase' = [SessionPhase EXCEPT ![s] = "free", ![w] = "starting"]
    BY <1>1, <2>1, <2>2, <2>3
  <2> QED
    BY <1>1, <2>1, <2>4 DEF Lifecycle!Next, Lifecycle!HandOver, Lifecycle!Ended
<1> QED
  BY <1>2, <1>3, ReleaseCases

(* The last reference to an entry takes the slot with it.                  *)
LEMMA DropSlot ==
  ASSUME Inv, NEW s \in Requests, DropEntry(s), sessions' = sessions
  PROVE  [Lifecycle!Next]_SessionPhase
<1>1. CASE LastReference(s)
  <2>1. s \in owners /\ s \notin sessions
    BY <1>1 DEF LastReference, StillReferenced, Inv, RefInv, OwnerInv
  <2>2. Release(s) /\ FreeEntry(s)
    BY <1>1 DEF DropEntry
  <2> QED
    BY <2>1, <2>2, FreeEffect, SlotEnds
<1>2. CASE ~LastReference(s)
  BY <1>2, SlotsUnchanged
  DEF DropEntry, queueVars, entryVars, fieldVars, Entries
<1> QED
  BY <1>1, <1>2

(* Requests take a free slot, or wait for one.                             *)
LEMMA CreateSessionSlot ==
  ASSUME Inv, NEW r \in Requests, CreateSession(r)
  PROVE  [Lifecycle!Next]_SessionPhase
<1>1. /\ Entries' = Entries /\ sessions' = sessions /\ r \notin Entries
      /\ r \notin owners
  BY DEF CreateSession, Start, Fresh, entryVars, fieldVars, Entries, Inv,
     OwnerInv, Launching, LaunchPCs, Goto
<1>2. CASE permits > 0
  <2>1. owners' = owners \cup {r}
    BY <1>2 DEF CreateSession, Acquire, PermitFree
  <2>2. /\ SessionPhase[r] = "free" /\ SessionPhase'[r] = "starting"
        /\ \A d \in Requests \ {r} : SessionPhase'[d] = SessionPhase[d]
    BY <1>1, <2>1, PhaseOfSession
  <2>3. SessionPhase' = [SessionPhase EXCEPT ![r] = "starting"]
    BY <2>2, OnePhase
  <2>4. Lifecycle!Cardinality(Lifecycle!Occupied) < MaxConcurrentSessions
    BY <1>2, SlotFree
    DEF Lifecycle!Occupied, Cardinality, Lifecycle!Cardinality
  <2>5. Lifecycle!Start(r)
    BY <2>2, <2>3, <2>4 DEF Lifecycle!Start
  <2> QED
    BY <2>5 DEF Lifecycle!Next
<1>3. CASE ~(permits > 0)
  BY <1>1, <1>3, SlotsUnchanged DEF CreateSession, Acquire, PermitFree
<1> QED
  BY <1>2, <1>3

(* A launch lists its session, or gives its slot back.                     *)
LEMMA LaunchSlot ==
  ASSUME Inv, NEW r \in Requests, Launch(r) \/ CancelLaunch(r)
  PROVE  [Lifecycle!Next]_SessionPhase
<1>1. Launching(r) /\ r \notin Entries /\ r \notin sessions
  BY SlotFacts DEF Launch, CancelLaunch, QueueGranted, QueueTimeout,
     RejectProfile, SpawnChrome, LaunchFails, ReportLaunchError,
     LaunchSucceeds, PublishSession, Launching, LaunchPCs, Inv, NameInv
<1>2. pc[r] \in LaunchPCs => r \in owners
  BY DEF Inv, OwnerInv
<1>3. CASE PublishSession(r)
  <2>1. /\ r \in owners /\ owners' = owners /\ sessions' = sessions \cup {r}
        /\ Entries' = Entries \cup {r}
    BY <1>2, <1>3 DEF PublishSession, LaunchPCs, queueVars, Entries, Inv, TypeOK
  <2>2. /\ SessionPhase[r] = "starting" /\ SessionPhase'[r] = "listed"
        /\ \A d \in Requests \ {r} : SessionPhase'[d] = SessionPhase[d]
    BY <1>1, <2>1, PhaseOfSession
  <2>3. SessionPhase' = [SessionPhase EXCEPT ![r] = "listed"]
    BY <2>2, OnePhase
  <2> QED
    BY <2>2, <2>3 DEF Lifecycle!Next, Lifecycle!Publish
<1>4. CASE pc[r] \in LaunchPCs /\ Release(r) /\ UNCHANGED <<sessions, state>>
  <2>1. Entries' = Entries \ {r}
    BY <1>1, <1>4 DEF Entries
  <2> QED
    BY <1>1, <1>2, <1>4, <2>1, SlotEnds
<1>5. CASE QueueTimeout(r)
  <2>1. sessions' = sessions /\ Entries' = Entries /\ Entries' = Entries \ {r}
    BY <1>1, <1>5 DEF QueueTimeout, entryVars, fieldVars, Entries
  <2>2. CASE r \in owners
    BY <1>1, <1>5, <2>1, <2>2, SlotEnds DEF QueueTimeout, Abandon
  <2>3. CASE r \notin owners
    BY <1>5, <2>1, <2>3, SlotsUnchanged DEF QueueTimeout, Abandon, LeaveQueue
  <2> QED
    BY <2>2, <2>3
<1>6. CASE QueueGranted(r) \/ SpawnChrome(r) \/ LaunchFails(r)
           \/ LaunchSucceeds(r)
  BY <1>6, SlotsUnchanged DEF QueueGranted, SpawnChrome, LaunchFails,
     LaunchSucceeds, queueVars, entryVars, fieldVars, Entries
<1> QED
  BY <1>3, <1>4, <1>5, <1>6
  DEF Launch, RejectProfile, ReportLaunchError, CancelLaunch, LaunchPCs,
      entryVars, fieldVars

(* A task that holds an entry finds it there.                              *)
LEMMA HeldEntry ==
  ASSUME Inv, NEW t \in Tasks, pc[t] \in HoldingPCs
  PROVE  target[t] \in Entries
BY DEF Inv, TargetInv, RefInv, Referenced, Holds, HoldingPCs

(* Writing the state of an entry makes no other entry.                     *)
LEMMA StateSlot ==
  ASSUME Inv, NEW s \in Entries, NEW value, value # "absent",
         state' = [state EXCEPT ![s] = value],
         owners' = owners, sessions' = sessions
  PROVE  [Lifecycle!Next]_SessionPhase
<1>1. Entries' = Entries
  BY DEF Entries, Inv, TypeOK
<1> QED
  BY <1>1, SlotsUnchanged

(* Handlers take no slot, and give back that of a session they are the     *)
(* last to let go of.                                                      *)
LEMMA ServeSlot ==
  ASSUME Inv, NEW r \in Requests, Serve(r) \/ Finish(r) \/ CancelHandler(r)
  PROVE  [Lifecycle!Next]_SessionPhase
<1> USE DEF Tasks
<1>1. CASE ClaimSession(r)
  <2>1. target[r] \in Entries /\ target[r] \in Requests
    BY <1>1, HeldEntry DEF ClaimSession, HoldingPCs, Entries
  <2>2. CASE DropEntry(target[r])
    BY <1>1, <2>1, <2>2, DropSlot DEF ClaimSession
  <2>3. CASE Connectable(target[r])
    BY <1>1, <2>1, <2>3, StateSlot DEF ClaimSession, queueVars
  <2> QED
    BY <1>1, <2>2, <2>3 DEF ClaimSession
<1>2. CASE RestCompletes(r)
  <2>1. target[r] \in Requests
    BY <1>2, HeldEntry DEF RestCompletes, HoldingPCs, ClientPCs, Entries
  <2> QED
    BY <1>2, <2>1, DropSlot DEF RestCompletes
<1>3. ASSUME NEW s \in Requests, SessionInfo(r, s)
      PROVE  [Lifecycle!Next]_SessionPhase
  BY <1>3, DropSlot DEF SessionInfo
<1>4. CASE MarkInUse(r)
  <2>1. target[r] \in Entries
    BY <1>4, HeldEntry DEF MarkInUse, HoldingPCs, ClientPCs
  <2> QED
    BY <1>4, <2>1, StateSlot DEF MarkInUse, queueVars
<1>5. CASE Touch(r) \/ UpgradeSucceeds(r) \/ UpgradeFails(r) \/ ListReturns(r)
           \/ ProxyCloses(r) \/ CancelHandler(r)
  BY <1>5, SlotsUnchanged DEF Touch, UpgradeSucceeds, UpgradeFails,
     ListReturns, ProxyCloses, CancelHandler, queueVars, entryVars, fieldVars,
     Entries
<1> QED
  BY <1>1, <1>2, <1>3, <1>4, <1>5 DEF Serve, Finish

(* Whoever removes a listed session retires it, once.                      *)
LEMMA TerminateSlot ==
  ASSUME Inv, NEW t \in Tasks, Terminate(t)
  PROVE  [Lifecycle!Next]_SessionPhase
<1>1. CASE TerminateSession(t) /\ Terminable(target[t])
  <2> DEFINE s == target[t]
  <2>1. /\ s \in sessions /\ sessions' = sessions \ {s}
        /\ owners' = owners /\ Entries' = Entries
    BY <1>1 DEF TerminateSession, Terminable, Unlist, queueVars, entryVars,
       fieldVars, Entries
  <2>2. s \in Entries /\ s \in owners /\ s \in Requests
    BY <2>1, SlotFacts
  <2> HIDE DEF s
  <2>3. /\ SessionPhase[s] = "listed" /\ SessionPhase'[s] = "retired"
        /\ \A d \in Requests \ {s} : SessionPhase'[d] = SessionPhase[d]
    BY <2>1, <2>2, PhaseOfSession
  <2>4. SessionPhase' = [SessionPhase EXCEPT ![s] = "retired"]
    BY <2>2, <2>3, OnePhase
  <2> QED
    BY <2>2, <2>3, <2>4 DEF Lifecycle!Next, Lifecycle!Retire
<1>2. CASE LeaveSession(t) \/ (TerminateSession(t) /\ ~Terminable(target[t]))
  <2>1. target[t] \in Requests
    BY <1>2 DEF LeaveSession, TerminateSession, Inv, TargetInv, HoldingPCs
  <2> QED
    BY <1>2, <2>1, DropSlot DEF LeaveSession, TerminateSession
<1>3. CASE BeginShutdown(t)
  <2>1. target[t] \in Entries
    BY <1>3, HeldEntry DEF BeginShutdown, HoldingPCs, ShutdownPCs
  <2> QED
    BY <1>3, <2>1, StateSlot DEF BeginShutdown, queueVars
<1>4. CASE MarkDead(t)
  <2>1. target[t] \in Entries
    BY <1>4, HeldEntry DEF MarkDead, HoldingPCs, ShutdownPCs
  <2> QED
    BY <1>4, <2>1, StateSlot DEF MarkDead, queueVars
<1>5. CASE TakeBrowser(t) \/ ShutdownBrowser(t)
  BY <1>5, SlotsUnchanged DEF TakeBrowser, ShutdownBrowser, queueVars,
     fieldVars, Entries
<1> QED
  BY <1>1, <1>2, <1>3, <1>4, <1>5 DEF Terminate

(* A pass of maintenance may be the last to let go of a session.           *)
LEMMA MaintenanceSlot ==
  ASSUME Inv, MaintenanceNext
  PROVE  [Lifecycle!Next]_SessionPhase
<1>1. ASSUME NEW s \in Requests, SkipEntry(s)
      PROVE  [Lifecycle!Next]_SessionPhase
  BY <1>1, DropSlot DEF SkipEntry
<1>2. CASE KeepSession
  <2>1. visited \in Requests
    BY <1>2 DEF KeepSession, visited, Inv, TargetInv, HoldingPCs, Tasks
  <2> QED
    BY <1>2, <2>1, DropSlot DEF KeepSession
<1>3. CASE ~KeepSession /\ ~\E s \in Requests : SkipEntry(s)
  BY <1>3, SlotsUnchanged DEF MaintenanceNext, MaintenanceStep, PassBegins,
     PassEnds, VisitEntry, CheckIdle, SampleFails, BeginHealthCheck,
     HealthFails, HealthTimesOut, queueVars, entryVars, fieldVars, Entries
<1> QED
  BY <1>1, <1>2, <1>3

(* The pool implements SessionLifecycle: a session is listed once, for an  *)
(* unbroken time, within one of MaxConcurrentSessions slots, and gives the *)
(* slot back once, maybe straight to a request that waits.                 *)
THEOREM SessionRefinement == Spec => ImplementsLifecycle
<1>1. PoolInit => Lifecycle!Init
  BY DEF PoolInit, QueueInit, Lifecycle!Init, SessionPhase
<1>2. Inv /\ [Next]_vars => [Lifecycle!Next]_SessionPhase
  <2> SUFFICES ASSUME Inv, [Next]_vars PROVE [Lifecycle!Next]_SessionPhase
    OBVIOUS
  <2>1. CASE UNCHANGED vars
    BY <2>1, SlotsUnchanged
    DEF vars, queueVars, entryVars, fieldVars, Entries
  <2>2. ASSUME NEW r \in Requests, Arrive(r)
        PROVE  [Lifecycle!Next]_SessionPhase
    BY <2>2, CreateSessionSlot, SlotsUnchanged
    DEF Arrive, ConnectExisting, DeleteSession, ListSessions, queueVars,
        entryVars, fieldVars, Entries
  <2>3. ASSUME NEW r \in Requests, Environment(r)
        PROVE  [Lifecycle!Next]_SessionPhase
    BY <2>3, SlotsUnchanged
    DEF Environment, BrowserExits, BrowserHangs, IdleElapses,
        LifetimeElapses, queueVars, fieldVars, Entries
  <2> QED
    BY <2>1, <2>2, <2>3, LaunchSlot, ServeSlot, TerminateSlot,
       MaintenanceSlot DEF Next, Disconnect
<1> QED
  BY <1>1, <1>2, Invariance, PTL DEF Spec, ImplementsLifecycle, Lifecycle!Spec

----------------------------------------------------------------------------
(* What holds of patient clients, and of clients that use only sessions of *)
(* their own: nothing else is behind what goes wrong otherwise             *)

(* No Chrome runs without an owner.                                        *)
NoOrphan == \A s \in Requests : proc[s] # "orphan"

(* Dropping an entry kills its browser or does nothing.                    *)
LEMMA DropLeavesNoOrphan ==
  ASSUME Inv, NoOrphan, NEW s \in Requests, DropEntry(s)
  PROVE  NoOrphan'
BY DropEffect DEF FreeEntry, NoOrphan, Inv, TypeOK, entryVars

(* Without CancelLaunch no process is orphaned.                            *)
LEMMA RequestOrphan ==
  ASSUME Inv, NoOrphan, ~ClientsMayDisconnect, NEW r \in Requests,
         \/ Arrive(r) \/ Launch(r) \/ Serve(r) \/ Finish(r)
         \/ Disconnect(r) \/ Environment(r)
  PROVE  NoOrphan'
<1> USE DEF Inv, TypeOK, NoOrphan
<1>1. CASE Arrive(r)
  BY <1>1 DEF Arrive, CreateSession, ConnectExisting, DeleteSession,
     ListSessions, entryVars
<1>2. CASE Launch(r)
  BY <1>2 DEF Launch, QueueGranted, QueueTimeout, RejectProfile, SpawnChrome,
     LaunchFails, ReportLaunchError, LaunchSucceeds, PublishSession, entryVars
<1>3. CASE ClaimSession(r) \/ RestCompletes(r)
  <2>1. target[r] \in Requests
    BY <1>3 DEF ClaimSession, RestCompletes, TargetInv, HoldingPCs, ClientPCs,
       Tasks
  <2> QED
    BY <1>3, <2>1, DropLeavesNoOrphan DEF ClaimSession, RestCompletes
<1>4. ASSUME NEW s \in Requests, SessionInfo(r, s) PROVE NoOrphan'
  BY <1>4, DropLeavesNoOrphan DEF SessionInfo
<1>5. CASE Touch(r) \/ UpgradeSucceeds(r) \/ UpgradeFails(r) \/ MarkInUse(r)
           \/ ListReturns(r) \/ ProxyCloses(r)
  BY <1>5 DEF Touch, UpgradeSucceeds, UpgradeFails, MarkInUse, ListReturns,
     ProxyCloses, entryVars
<1>6. CASE Environment(r)
  BY <1>6 DEF Environment, BrowserExits, BrowserHangs, IdleElapses,
     LifetimeElapses
<1> QED
  BY <1>1, <1>2, <1>3, <1>4, <1>5, <1>6 DEF Serve, Finish, Disconnect

(* A shutdown reaps the process, and maintenance leaves it alone.          *)
LEMMA TaskOrphan ==
  ASSUME Inv, NoOrphan,
         (\E t \in Tasks : Terminate(t)) \/ MaintenanceNext
  PROVE  NoOrphan'
<1> USE DEF Inv, TypeOK, NoOrphan
<1>1. ASSUME NEW t \in Tasks,
             LeaveSession(t) \/ (TerminateSession(t) /\ ~Terminable(target[t]))
      PROVE  NoOrphan'
  <2>1. target[t] \in Requests
    BY <1>1 DEF LeaveSession, TerminateSession, TargetInv, HoldingPCs
  <2> QED
    BY <1>1, <2>1, DropLeavesNoOrphan DEF LeaveSession, TerminateSession
<1>2. ASSUME NEW t \in Tasks,
             \/ TerminateSession(t) /\ Terminable(target[t])
             \/ BeginShutdown(t) \/ TakeBrowser(t) \/ ShutdownBrowser(t)
             \/ MarkDead(t)
      PROVE  NoOrphan'
  BY <1>2 DEF TerminateSession, BeginShutdown, TakeBrowser, ShutdownBrowser,
     MarkDead, entryVars
<1>3. ASSUME NEW s \in Requests, SkipEntry(s) PROVE NoOrphan'
  BY <1>3, DropLeavesNoOrphan DEF SkipEntry
<1>4. CASE KeepSession
  <2>1. visited \in Requests
    BY <1>4 DEF KeepSession, visited, TargetInv, HoldingPCs, Tasks
  <2> QED
    BY <1>4, <2>1, DropLeavesNoOrphan DEF KeepSession
<1>5. CASE \/ PassBegins \/ PassEnds \/ CheckIdle \/ SampleFails
           \/ BeginHealthCheck \/ HealthFails \/ HealthTimesOut
           \/ \E s \in Requests : VisitEntry(s)
  BY <1>5 DEF PassBegins, PassEnds, CheckIdle, SampleFails, BeginHealthCheck,
     HealthFails, HealthTimesOut, VisitEntry, entryVars
<1> QED
  BY <1>1, <1>2, <1>3, <1>4, <1>5
  DEF Terminate, MaintenanceNext, MaintenanceStep

(* CancelLaunch is all that takes Chrome beyond its bound: while no client *)
(* leaves before it is answered, the processes of all sessions stay within *)
(* EIGER_MAX_CONCURRENT_SESSIONS.                                          *)
THEOREM PatientClientsBounded ==
  ASSUME ~ClientsMayDisconnect
  PROVE  Spec => []ChromeProcessesBounded
<1>1. PoolInit => NoOrphan
  BY DEF PoolInit, NoOrphan
<1>2. Inv /\ NoOrphan /\ [Next]_vars => NoOrphan'
  <2>1. UNCHANGED vars /\ NoOrphan => NoOrphan'
    BY DEF vars, entryVars, NoOrphan
  <2> QED
    BY <2>1, RequestOrphan, TaskOrphan DEF Next
<1>3. NoOrphan /\ BrowsersWithinCapacity => ChromeProcessesBounded
  <2>1. NoOrphan => {s \in Requests : Alive(s) \/ proc[s] = "orphan"}
                      = {s \in Requests : Alive(s)}
    BY DEF NoOrphan
  <2> QED
    BY <2>1 DEF BrowsersWithinCapacity, ChromeProcessesBounded
<1> QED
  BY <1>1, <1>2, <1>3, Invariance, Capacity, PTL DEF Spec

(* A request works with the session it has created.                        *)
OwnSessionInv ==
  \A r \in Requests :
    /\ op[r] # "connect_existing"
    /\ pc[r] \in ClientPCs => target[r] = r

(* A listed session is in use by the request that has marked it, until     *)
(* that finds it in the map to terminate it.                               *)
ServedInv ==
  \A s \in sessions : state[s] = "InUse" =>
    pc[s] \in {"touch", "using", "terminate"} /\ target[s] = s

(* A step of a task that neither connects to a session nor marks it, and   *)
(* does not end the use of one that is listed.                             *)
KeepsUse ==
  /\ \A r \in Requests :
       /\ op'[r] # "connect_existing"
       /\ pc'[r] \in ClientPCs => pc[r] \in ClientPCs /\ target'[r] = target[r]
  /\ \A s \in sessions' :
       /\ s \in sessions /\ (state'[s] = "InUse" => state[s] = "InUse")
       /\ pc[s] \in {"touch", "using", "terminate"} /\ target[s] = s =>
            pc'[s] \in {"touch", "using", "terminate"} /\ target'[s] = s

(* Such a step keeps both.                                                 *)
LEMMA KeepsUseInv ==
  ASSUME OwnSessionInv, KeepsUse
  PROVE  OwnSessionInv' /\ (ServedInv => ServedInv')
BY DEF OwnSessionInv, ServedInv, KeepsUse, ClientPCs

(* Dropping a reference puts no session to use.                            *)
LEMMA DropMarksNothing ==
  ASSUME Inv, NEW s \in Requests, DropEntry(s)
  PROVE  \A x \in Requests : state'[x] = "InUse" => state[x] = "InUse"
BY DropEffect, FreeEffect
DEF FreeEntry, ForgetFields, Inv, TypeOK, entryVars, fieldVars

(* A request that creates a session is the first to use it, and until it   *)
(* has marked it no session in use is listed that it has not marked.       *)
LEMMA RequestUse ==
  ASSUME Inv, OwnSessionInv, "connect_existing" \notin Ops,
         NEW r \in Requests,
         Arrive(r) \/ Launch(r) \/ Serve(r) \/ Finish(r) \/ Environment(r)
  PROVE  OwnSessionInv' /\ (ServedInv => ServedInv')
<1> USE TaskNames DEF Inv, TypeOK, Tasks, Goto, Return, entryVars, fieldVars
<1>1. CASE Arrive(r)
  <2>1. KeepsUse
    BY <1>1 DEF Arrive, CreateSession, ConnectExisting, DeleteSession,
       ListSessions, Start, CreateOps, OwnSessionInv, KeepsUse, ClientPCs
  <2> QED
    BY <2>1, KeepsUseInv
<1>2. CASE Launch(r) /\ ~PublishSession(r)
  <2>1. KeepsUse
    BY <1>2 DEF Launch, QueueGranted, QueueTimeout, RejectProfile,
       SpawnChrome, LaunchFails, ReportLaunchError, LaunchSucceeds,
       OwnSessionInv, KeepsUse, ClientPCs, LaunchPCs
  <2> QED
    BY <2>1, KeepsUseInv
<1>3. CASE PublishSession(r)
  <2>1. OwnSessionInv'
    BY <1>3 DEF PublishSession, OwnSessionInv, ClientPCs
  <2>2. ServedInv => ServedInv'
    BY <1>3 DEF PublishSession, ServedInv
  <2> QED
    BY <2>1, <2>2
<1>4. CASE MarkInUse(r)
  <2>1. target[r] = r
    BY <1>4 DEF MarkInUse, OwnSessionInv, ClientPCs
  <2>2. OwnSessionInv'
    BY <1>4, <2>1 DEF MarkInUse, OwnSessionInv, ClientPCs
  <2>3. ServedInv => ServedInv'
    BY <1>4, <2>1 DEF MarkInUse, ServedInv
  <2> QED
    BY <2>2, <2>3
<1>5. CASE ClaimSession(r) \/ RestCompletes(r)
  <2>1. target[r] \in Requests /\ ~ClaimSession(r)
    BY <1>5 DEF ClaimSession, RestCompletes, TargetInv, HoldingPCs, ClientPCs,
       OpInv, OwnSessionInv
  <2>2. KeepsUse
    BY <1>5, <2>1, DropMarksNothing
    DEF RestCompletes, OwnSessionInv, KeepsUse, ClientPCs
  <2> QED
    BY <2>2, KeepsUseInv
<1>6. ASSUME NEW s \in Requests, SessionInfo(r, s)
      PROVE  OwnSessionInv' /\ (ServedInv => ServedInv')
  <2>1. KeepsUse
    BY <1>6, DropMarksNothing DEF SessionInfo, OwnSessionInv, KeepsUse
  <2> QED
    BY <2>1, KeepsUseInv
<1>7. CASE Touch(r) \/ UpgradeSucceeds(r) \/ UpgradeFails(r) \/ ListReturns(r)
           \/ ProxyCloses(r)
  <2>1. KeepsUse
    BY <1>7 DEF Touch, UpgradeSucceeds, UpgradeFails, ListReturns,
       ProxyCloses, OwnSessionInv, KeepsUse, ClientPCs
  <2> QED
    BY <2>1, KeepsUseInv
<1>8. CASE Environment(r)
  <2>1. KeepsUse
    BY <1>8 DEF Environment, BrowserExits, BrowserHangs, IdleElapses,
       LifetimeElapses, taskVars, OwnSessionInv, KeepsUse
  <2> QED
    BY <2>1, KeepsUseInv
<1> QED
  BY <1>1, <1>2, <1>3, <1>4, <1>5, <1>6, <1>7, <1>8 DEF Launch, Serve, Finish

(* A client that leaves takes its request out of its session.              *)
LEMMA DisconnectUse ==
  ASSUME Inv, OwnSessionInv, NEW r \in Requests, Disconnect(r)
  PROVE  OwnSessionInv' /\ ClientsMayDisconnect
<1> USE TaskNames DEF Inv, TypeOK, Tasks, Goto, Return
<1> QED
  BY DEF Disconnect, CancelLaunch, CancelHandler, OwnSessionInv, ClientPCs

(* Terminating a session ends its use once it is not listed, and nobody    *)
(* else marks it.                                                          *)
LEMMA TaskUse ==
  ASSUME Inv, OwnSessionInv,
         (\E t \in Tasks : Terminate(t)) \/ MaintenanceNext
  PROVE  OwnSessionInv' /\ (ServedInv => ServedInv')
<1> USE TaskNames DEF Inv, TypeOK, Tasks, Goto, entryVars, fieldVars
<1> SUFFICES KeepsUse
  BY KeepsUseInv
<1>1. ASSUME NEW t \in Tasks,
             LeaveSession(t) \/ (TerminateSession(t) /\ ~Terminable(target[t]))
      PROVE  KeepsUse
  <2>1. target[t] \in Requests
    BY <1>1 DEF LeaveSession, TerminateSession, TargetInv, HoldingPCs
  <2> QED
    BY <1>1, <2>1, DropMarksNothing DEF LeaveSession, TerminateSession,
       Terminable, Return, OwnSessionInv, KeepsUse, ClientPCs
<1>2. ASSUME NEW t \in Tasks, TerminateSession(t) /\ Terminable(target[t])
      PROVE  KeepsUse
  BY <1>2 DEF TerminateSession, Unlist, OwnSessionInv, KeepsUse, ClientPCs
<1>3. ASSUME NEW t \in Tasks,
             \/ BeginShutdown(t) \/ TakeBrowser(t) \/ ShutdownBrowser(t)
             \/ MarkDead(t)
      PROVE  KeepsUse
  BY <1>3 DEF BeginShutdown, TakeBrowser, ShutdownBrowser,
     MarkDead, OwnSessionInv, KeepsUse, ClientPCs
<1>4. ASSUME NEW s \in Requests, SkipEntry(s) PROVE KeepsUse
  BY <1>4, DropMarksNothing DEF SkipEntry, OwnSessionInv, KeepsUse
<1>5. CASE KeepSession
  <2>1. visited \in Requests
    BY <1>5 DEF KeepSession, visited, TargetInv, HoldingPCs
  <2> QED
    BY <1>5, <2>1, DropMarksNothing DEF KeepSession, Return, OwnSessionInv,
       KeepsUse
<1>6. CASE \/ PassBegins \/ PassEnds \/ CheckIdle \/ SampleFails
           \/ BeginHealthCheck \/ HealthFails \/ HealthTimesOut
           \/ \E s \in Requests : VisitEntry(s)
  BY <1>6 DEF PassBegins, PassEnds, CheckIdle, SampleFails, BeginHealthCheck,
     HealthFails, HealthTimesOut, VisitEntry, Proceed, Recycle, OwnSessionInv,
     KeepsUse
<1> QED
  BY <1>1, <1>2, <1>3, <1>4, <1>5, <1>6
  DEF Terminate, MaintenanceNext, MaintenanceStep

(* Stuttering.                                                             *)
LEMMA StutterUse ==
  UNCHANGED vars /\ OwnSessionInv => OwnSessionInv' /\ (ServedInv => ServedInv')
BY DEF vars, taskVars, entryVars, fieldVars, OwnSessionInv, ServedInv

(* connect_session is all that shares a session: without it the client of  *)
(* GET /session has the session that was created for it to itself, until   *)
(* its proxy returns.                                                      *)
THEOREM UnsharedWithoutConnect ==
  ASSUME "connect_existing" \notin Ops
  PROVE  Spec => []FreshSessionUnshared
<1>1. PoolInit => OwnSessionInv
  BY TaskNames DEF PoolInit, OwnSessionInv, Tasks, ClientPCs
<1>2. Inv /\ OwnSessionInv /\ [Next]_vars => OwnSessionInv'
  BY RequestUse, DisconnectUse, TaskUse, StutterUse DEF Next
<1>3. OwnSessionInv => FreshSessionUnshared
  BY DEF OwnSessionInv, FreshSessionUnshared, Attached
<1> QED
  BY <1>1, <1>2, <1>3, Invariance, PTL DEF Spec

(* If no client leaves before it is answered either, every listed session  *)
(* in use has the handler that created it, on its way to terminate it.     *)
THEOREM ServedByPatientClients ==
  ASSUME ~ClientsMayDisconnect, "connect_existing" \notin Ops
  PROVE  Spec => []InUseSessionServed
<1>1. PoolInit => OwnSessionInv /\ ServedInv
  BY TaskNames DEF PoolInit, OwnSessionInv, ServedInv, Tasks, ClientPCs
<1>2. Inv /\ OwnSessionInv /\ ServedInv /\ [Next]_vars
        => OwnSessionInv' /\ ServedInv'
  BY RequestUse, DisconnectUse, TaskUse, StutterUse DEF Next
<1>3. Inv /\ ServedInv => InUseSessionServed
  BY DEF Inv, TypeOK, ServedInv, InUseSessionServed
<1> QED
  BY <1>1, <1>2, <1>3, Invariance, PTL DEF Spec

=============================================================================
