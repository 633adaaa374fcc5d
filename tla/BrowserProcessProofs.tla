------------------------ MODULE BrowserProcessProofs ------------------------
(***************************************************************************)
(* Safety of launching and shutting browsers down, for every set of        *)
(* browsers and profile directories.                                       *)
(***************************************************************************)
EXTENDS BrowserProcess, TLAPS

(* While shutdown or terminate_child work on a child it is not reaped,     *)
(* and when they return it is.                                             *)
ChildInv ==
  \A b \in Browsers :
    /\ pc[b] \in ShutdownPCs => chrome[b] # "none"
    /\ pc[b] = "ended" => chrome[b] = "none"

(* Chrome runs in the directory it was given, and only then.               *)
ProfileInv ==
  \A b \in Browsers :
    IF pc[b] \in {"idle", "ended"}
    THEN chrome[b] = "none" /\ profile[b] = Nothing
    ELSE profile[b] \in Profiles

(* A Chrome that serves or hangs holds a port, nobody else's.              *)
PortInv ==
  /\ \A b \in Browsers :
       port[b] # Nothing <=> chrome[b] \in {"serving", "hung"}
  /\ \A b, c \in Browsers : port[b] = port[c] /\ port[b] # Nothing => b = c

(* A temporary directory has one user at most, and no file without one.    *)
TemporaryInv ==
  /\ \A b, c \in Browsers :
       profile[b] = profile[c] /\ profile[b] \in Temporary => b = c
  /\ \A p \in Temporary : ~InUse(p) => portFile[p] = Nothing

(* While that Chrome runs its file names no port but its own.              *)
OwnChild(b) == profile[b] \in Temporary /\ Running(b)

FileInv ==
  \A b \in Browsers : OwnChild(b) =>
    portFile[profile[b]] \in {Nothing, "empty", port[b]}

(* A launch in such a directory only ever asks its own child, or nobody    *)
(* once that has exited; and what is handed out with its child running is  *)
(* its own still when that exits before Browser.close.                     *)
LookInv ==
  \A b \in Browsers :
    /\ pc[b] \in {"idle", "ended", "dropped"} => basePort[b] = Nothing
    /\ OwnChild(b) => basePort[b] \in {Nothing, port[b]}
    /\ OwnChild(b) /\ pc[b] \in {"check", "inject", "up"} => endpoint[b] = b
    /\ profile[b] \in Temporary /\ pc[b] = "closing" => endpoint[b] = b

Inv == TypeOK /\ ChildInv /\ ProfileInv

OwnInv == PortInv /\ TemporaryInv /\ FileInv /\ LookInv

----------------------------------------------------------------------------

(* No browser has been launched yet.                                       *)
LEMMA InitInv == Init => Inv /\ OwnInv
BY BrowserAssumption
DEF Init, Inv, OwnInv, TypeOK, ChildInv, ProfileInv, PortInv, TemporaryInv,
    FileInv, LookInv, OwnChild, Running, Living, ShutdownPCs

(* A removed directory is empty.                                           *)
LEMMA RemovedFile ==
  ASSUME TypeOK, NEW p
  PROVE  /\ Removed(p) \in [Profiles -> Ports \cup {Nothing, "empty"}]
         /\ \A q \in Profiles :
              Removed(p)[q] = IF q = p /\ p \in Temporary THEN Nothing
                              ELSE portFile[q]
BY BrowserAssumption DEF TypeOK, Removed

(* A launch keeps the invariant: it reaps a child only on its way to       *)
(* cleanup, and looks before it signals.                                   *)
LEMMA LaunchInv ==
  ASSUME Inv, NEW b \in Browsers, Spawn(b) \/ Launch(b)
  PROVE  Inv'
<1> USE BrowserAssumption
        DEF Inv, Goto, Reap, LetGo, processVars, directoryVars, handleVars
<1>1. CASE Spawn(b)
  <2>1. TypeOK'
    BY <1>1 DEF Spawn, TypeOK, Living, LaunchPCs
  <2>2. ChildInv' /\ ProfileInv'
    BY <1>1 DEF Spawn, TypeOK, ChildInv, ProfileInv, ShutdownPCs
  <2> QED
    BY <2>1, <2>2
<1>2. CASE Launch(b)
  <2> USE <1>2 DEF Launch, PollFindsExit, LaunchTimeElapsed, LaunchTimeout,
        NamesPort, ReadPort, GetVersion, VersionRead, NoVersion, CheckFails,
        CheckPasses, Inject
  <2>1. TypeOK'
    BY DEF TypeOK, LaunchPCs, CleanupPCs
  <2>2. ChildInv'
    BY DEF TypeOK, ChildInv, ShutdownPCs
  <2>3. ProfileInv'
    BY DEF TypeOK, ProfileInv
  <2> QED
    BY <2>1, <2>2, <2>3
<1> QED
  BY <1>1, <1>2

(* Shutting down keeps the invariant: SIGTERM and SIGKILL come before the  *)
(* child is reaped, and the end after it.                                  *)
LEMMA TerminateInv ==
  ASSUME Inv, NEW b \in Browsers, Shutdown(b) \/ Terminate(b)
  PROVE  Inv'
<1> USE RemovedFile
        DEF Inv, Goto, Reap, Exits, LetGo, Return, LeaveDirectory, End, GoOn,
            processVars, directoryVars, handleVars
<1>1. CASE Shutdown(b) \/ Cleanup(b) \/ CloseFails(b) \/ SendSigterm(b)
           \/ Kill(b)
  <2> USE <1>1 DEF Shutdown, Cleanup, CloseFails, SendSigterm, Kill,
        KillAndWait, NotExited, Running
  <2>1. TypeOK'
    BY DEF TypeOK, CleanupPCs, ShutdownPCs
  <2>2. ChildInv'
    BY DEF TypeOK, ChildInv, ShutdownPCs, Living
  <2>3. ProfileInv'
    BY DEF TypeOK, ProfileInv
  <2> QED
    BY <2>1, <2>2, <2>3
<1>2. CASE Wait(b, "close_wait", "term") \/ Wait(b, "term_wait", "kill")
  <2> USE <1>2 DEF Wait
  <2>1. TypeOK'
    BY DEF TypeOK, CleanupPCs, ShutdownPCs
  <2>2. ChildInv' /\ ProfileInv'
    BY DEF TypeOK, ChildInv, ProfileInv, ShutdownPCs
  <2> QED
    BY <2>1, <2>2
<1>3. CASE Close(b)
  <2> USE <1>3 DEF Close, Answers
  <2>1. TypeOK'
    BY DEF TypeOK, ShutdownPCs, Living
  <2>2. ChildInv' /\ ProfileInv'
    BY DEF TypeOK, ChildInv, ProfileInv, ShutdownPCs
  <2> QED
    BY <2>1, <2>2
<1> QED
  BY <1>1, <1>2, <1>3 DEF Terminate

(* Dropped handles, forgotten browsers and what Chrome does by itself.     *)
LEMMA EnvironmentInv ==
  ASSUME Inv, NEW b \in Browsers,
         Drop(b) \/ RuntimeReaps(b) \/ Forget(b) \/ Chrome(b)
  PROVE  Inv'
<1> USE BrowserAssumption
        DEF Inv, Goto, Reap, Exits, LetGo, processVars, directoryVars,
            handleVars
<1>1. CASE Drop(b) \/ RuntimeReaps(b) \/ Chrome(b)
  <2> USE <1>1 DEF Drop, KilledByDrop, SuspendedPCs, RuntimeReaps, Chrome,
        OpenPortFile, WritePortFile, Exit, Hang, Running, Living
  <2>1. TypeOK'
    BY DEF TypeOK, ProfileInv
  <2>2. ChildInv'
    BY DEF TypeOK, ChildInv, ShutdownPCs, LaunchPCs
  <2>3. ProfileInv'
    BY DEF TypeOK, ProfileInv, LaunchPCs
  <2> QED
    BY <2>1, <2>2, <2>3
<1>2. CASE Forget(b)
  BY <1>2, RemovedFile
  DEF Forget, LeaveDirectory, TypeOK, ChildInv, ProfileInv, ShutdownPCs
<1> QED
  BY <1>1, <1>2

(* A step that changes nothing.                                            *)
LEMMA StutterInv == Inv /\ UNCHANGED vars => Inv'
BY DEF vars, processVars, directoryVars, handleVars, Inv, TypeOK, ChildInv,
   ProfileInv

(* The invariant holds in every reachable state.                           *)
THEOREM BrowserInvariance == Spec => []Inv
<1>1. Inv /\ [Next]_vars => Inv'
  BY LaunchInv, TerminateInv, EnvironmentInv, StutterInv DEF Next
<1> QED
  BY <1>1, InitInv, PTL DEF Spec

(* No signal is sent to a pid that has been reaped.                        *)
THEOREM Signals == Spec => []SignalsOwnChild
<1>1. Inv => SignalsOwnChild
  BY DEF Inv, ChildInv, SignalsOwnChild, ShutdownPCs
<1> QED
  BY <1>1, BrowserInvariance, PTL

(* No process and no zombie is left by a shutdown or a failed launch.      *)
THEOREM Reaped == Spec => []ReapedAtEnd
<1>1. Inv => ReapedAtEnd
  BY DEF Inv, ChildInv, ReapedAtEnd
<1> QED
  BY <1>1, BrowserInvariance, PTL

----------------------------------------------------------------------------
(* Endpoints of sessions in temporary directories *)

(* A new browser in a temporary directory finds no file there.             *)
LEMMA SpawnOwn ==
  ASSUME Inv, OwnInv, NEW b \in Browsers, Spawn(b)
  PROVE  OwnInv'
<1> USE BrowserAssumption DEF Inv, OwnInv, Goto, Spawn, handleVars
<1>1. PICK p \in Profiles : /\ p \in Temporary => ~InUse(p)
                            /\ profile' = [profile EXCEPT ![b] = p]
  OBVIOUS
<1>2. /\ pc[b] = "idle" /\ profile[b] = Nothing /\ chrome[b] = "none"
      /\ basePort[b] = Nothing
      /\ p \in Temporary => portFile[p] = Nothing
      /\ p \in Temporary => \A c \in Browsers : profile[c] # p
  BY <1>1 DEF ProfileInv, LookInv, TemporaryInv, InUse
<1>3. PortInv'
  BY <1>2 DEF PortInv, TypeOK
<1>4. TemporaryInv'
  BY <1>1, <1>2 DEF TemporaryInv, TypeOK, InUse
<1>5. \A c \in Browsers \ {b} : OwnChild(c)' => OwnChild(c)
  BY <1>1 DEF OwnChild, Running, TypeOK
<1>6. FileInv'
  BY <1>1, <1>2, <1>5 DEF FileInv, OwnChild, TypeOK
<1>7. LookInv'
  BY <1>1, <1>2, <1>5 DEF LookInv, OwnChild, TypeOK
<1> QED
  BY <1>3, <1>4, <1>6, <1>7

(* While its child runs, a launch in a temporary directory reads the       *)
(* child's port, and only the child listens there.                         *)
LEMMA LaunchOwn ==
  ASSUME Inv, OwnInv, NEW b \in Browsers, Launch(b)
  PROVE  OwnInv'
<1> USE BrowserAssumption
        DEF Inv, OwnInv, Goto, Reap, LetGo, processVars, directoryVars,
            handleVars
<1>1. CASE PollFindsExit(b)
  <2> USE <1>1 DEF PollFindsExit
  <2>1. PortInv' /\ TemporaryInv'
    BY DEF PortInv, TemporaryInv, TypeOK, InUse
  <2>2. \A c \in Browsers : OwnChild(c)' => OwnChild(c) /\ c # b
    BY DEF OwnChild, Running, Living, TypeOK
  <2>3. FileInv' /\ LookInv'
    BY <2>2 DEF FileInv, LookInv, TypeOK
  <2> QED
    BY <2>1, <2>3
<1>2. CASE ~PollFindsExit(b)
  <2>1. UNCHANGED <<processVars, directoryVars>>
    BY <1>2 DEF Launch, LaunchTimeout, ReadPort, GetVersion, CheckFails,
       CheckPasses, Inject
  <2>2. PortInv' /\ TemporaryInv' /\ FileInv'
    BY <2>1 DEF PortInv, TemporaryInv, FileInv, OwnChild, Running, InUse
  <2>3. \A c \in Browsers : OwnChild(c)' <=> OwnChild(c)
    BY <2>1 DEF OwnChild, Running
  <2>4. ASSUME LaunchTimeout(b) \/ CheckFails(b) \/ CheckPasses(b) \/ Inject(b)
        PROVE  LookInv'
    BY <2>1, <2>3, <2>4
    DEF LookInv, TypeOK, LaunchTimeout, CheckFails, CheckPasses, Inject
  <2>5. ASSUME ReadPort(b) PROVE LookInv'
    BY <2>1, <2>3, <2>5 DEF LookInv, FileInv, TypeOK, ReadPort, NamesPort
  <2>6. ASSUME GetVersion(b), NoVersion(b) PROVE LookInv'
    BY <2>1, <2>3, <2>6 DEF LookInv, TypeOK, GetVersion, NoVersion
  <2>7. ASSUME GetVersion(b), VersionRead(b) PROVE LookInv'
    <3>1. PICK c \in Browsers :
            /\ chrome[c] = "serving" /\ port[c] = basePort[b]
            /\ endpoint' = [endpoint EXCEPT ![b] = c]
            /\ pc' = [pc EXCEPT ![b] = "check"]
            /\ UNCHANGED basePort
      BY <2>7 DEF VersionRead, Answers
    <3>2. OwnChild(b) => c = b
      BY <3>1 DEF LookInv, PortInv
    <3> QED
      BY <2>1, <2>3, <3>1, <3>2 DEF LookInv, TypeOK
  <2> QED
    BY <1>2, <2>2, <2>4, <2>5, <2>6, <2>7 DEF Launch, GetVersion
<1> QED
  BY <1>1, <1>2

(* Exits free ports and take nobody's; what is let go of is not asked.     *)
LEMMA TerminateOwn ==
  ASSUME Inv, OwnInv, NEW b \in Browsers, Shutdown(b) \/ Terminate(b)
  PROVE  OwnInv'
<1> USE BrowserAssumption, RemovedFile
        DEF Inv, OwnInv, Goto, Reap, Exits, LetGo, Return, LeaveDirectory,
            End, GoOn, processVars, directoryVars, handleVars
<1>1. CASE Shutdown(b) \/ Cleanup(b)
  <2> USE <1>1 DEF Shutdown, Cleanup, NotExited, Running, Living
  <2>1. PortInv'
    BY DEF PortInv, TypeOK
  <2>2. TemporaryInv'
    BY DEF TemporaryInv, TypeOK, InUse, ProfileInv
  <2>3. FileInv'
    BY DEF FileInv, OwnChild, TypeOK, PortInv
  <2>4. LookInv'
    BY DEF LookInv, OwnChild, TypeOK
  <2> QED
    BY <2>1, <2>2, <2>3, <2>4
<1>2. CASE CloseFails(b) \/ SendSigterm(b) \/ Kill(b)
  <2> USE <1>2 DEF CloseFails, SendSigterm, Kill, KillAndWait, Running, Living
  <2>1. PortInv'
    BY DEF PortInv, TypeOK
  <2>2. TemporaryInv'
    BY DEF TemporaryInv, TypeOK, InUse, ProfileInv
  <2>3. FileInv'
    BY DEF FileInv, OwnChild, TypeOK, PortInv
  <2>4. LookInv'
    BY DEF LookInv, OwnChild, TypeOK
  <2> QED
    BY <2>1, <2>2, <2>3, <2>4
<1>3. CASE Wait(b, "close_wait", "term") \/ Wait(b, "term_wait", "kill")
  <2> USE <1>3 DEF Wait, Running, Living
  <2>1. PortInv'
    BY DEF PortInv, TypeOK
  <2>2. TemporaryInv'
    BY DEF TemporaryInv, TypeOK, InUse, ProfileInv
  <2>3. FileInv'
    BY DEF FileInv, OwnChild, TypeOK, PortInv
  <2>4. LookInv'
    BY DEF LookInv, OwnChild, TypeOK
  <2> QED
    BY <2>1, <2>2, <2>3, <2>4
<1>4. CASE Close(b)
  <2> USE <1>4 DEF Close, Answers, Running, Living
  <2>1. PortInv'
    BY DEF PortInv, TypeOK
  <2>2. TemporaryInv'
    BY DEF TemporaryInv, TypeOK, InUse, ProfileInv
  <2>3. FileInv'
    BY DEF FileInv, OwnChild, TypeOK, PortInv
  <2>4. LookInv'
    BY DEF LookInv, OwnChild, TypeOK
  <2> QED
    BY <2>1, <2>2, <2>3, <2>4
<1> QED
  BY <1>1, <1>2, <1>3, <1>4 DEF Terminate

(* Chrome writes its own number, on which nobody listens, into its own     *)
(* directory.                                                              *)
LEMMA EnvironmentOwn ==
  ASSUME Inv, OwnInv, NEW b \in Browsers,
         Drop(b) \/ RuntimeReaps(b) \/ Forget(b) \/ Chrome(b)
  PROVE  OwnInv'
<1> USE BrowserAssumption, RemovedFile
        DEF Inv, OwnInv, Goto, Reap, Exits, LetGo, LeaveDirectory,
            processVars, directoryVars, handleVars
<1>1. CASE Drop(b) \/ RuntimeReaps(b) \/ Exit(b) \/ Hang(b)
  <2> USE <1>1 DEF Drop, KilledByDrop, RuntimeReaps, Exit, Hang, Running,
        Living
  <2>1. PortInv' /\ TemporaryInv'
    BY DEF PortInv, TemporaryInv, TypeOK, InUse
  <2>2. FileInv'
    BY DEF FileInv, OwnChild, TypeOK
  <2>3. LookInv'
    BY DEF LookInv, OwnChild, TypeOK
  <2> QED
    BY <2>1, <2>2, <2>3
<1>2. CASE Forget(b)
  <2> USE <1>2 DEF Forget
  <2>1. PortInv' /\ TemporaryInv'
    BY DEF PortInv, TemporaryInv, TypeOK, InUse
  <2>2. FileInv'
    BY DEF FileInv, OwnChild, Running, TypeOK
  <2>3. LookInv'
    BY DEF LookInv, OwnChild, Running, Living, TypeOK
  <2> QED
    BY <2>1, <2>2, <2>3
<1>3. CASE OpenPortFile(b) \/ WritePortFile(b)
  <2> USE <1>3 DEF OpenPortFile, WritePortFile
  <2>1. profile[b] \in Profiles /\ port[b] = Nothing /\ Running(b)
    BY DEF ProfileInv, PortInv, Running, Living
  <2>2. PortInv'
    BY <2>1 DEF PortInv, TypeOK
  <2>3. TemporaryInv'
    BY <2>1 DEF TemporaryInv, InUse, TypeOK
  <2>4. FileInv'
    BY <2>1 DEF FileInv, OwnChild, Running, Living, TemporaryInv, TypeOK
  <2>5. LookInv'
    BY <2>1 DEF LookInv, OwnChild, Running, Living, TypeOK
  <2> QED
    BY <2>2, <2>3, <2>4, <2>5
<1> QED
  BY <1>1, <1>2, <1>3 DEF Chrome

(* A step that changes nothing.                                            *)
LEMMA StutterOwn == OwnInv /\ UNCHANGED vars => OwnInv'
BY DEF vars, processVars, directoryVars, handleVars, OwnInv, PortInv,
   TemporaryInv, FileInv, LookInv, OwnChild, Running, InUse

(* Ports, files and endpoints of temporary directories in every state.     *)
THEOREM OwnInvariance == Spec => []OwnInv
<1>1. Inv /\ OwnInv /\ [Next]_vars => OwnInv'
  BY SpawnOwn, LaunchOwn, TerminateOwn, EnvironmentOwn, StutterOwn DEF Next
<1> QED
  BY <1>1, InitInv, BrowserInvariance, PTL DEF Spec

(* A session in a temporary directory drives its own child while it runs,  *)
(* and closes no other, whoever gets the ports of Chromes that exited, and *)
(* whatever old numbers persistent directories hold.                       *)
THEOREM OwnEndpoint == Spec => []EndpointOwn
<1>1. OwnInv => EndpointOwn
  BY DEF OwnInv, LookInv, OwnChild, EndpointOwn
<1> QED
  BY <1>1, OwnInvariance, PTL

----------------------------------------------------------------------------
(* Types, and the refinement of ProcessLifecycle *)

(* Every variable keeps its type.                                          *)
THEOREM BrowserTypes == Spec => []TypeOK
<1>1. Inv => TypeOK
  BY DEF Inv
<1> QED
  BY <1>1, BrowserInvariance, PTL

(* Nobody owns a browser before its health check has passed, nor when the  *)
(* LaunchedBrowser is gone.                                                *)
LaunchedInv ==
  \A b \in Browsers :
    pc[b] \in {"idle", "poll", "get", "check", "ended", "dropped"} =>
      b \notin launched

(* A browser is launched once the health check passes, until shutdown      *)
(* returns or its handle is dropped.                                       *)
LEMMA LaunchedStep ==
  ASSUME Inv, LaunchedInv, [Next]_vars
  PROVE  LaunchedInv'
<1> USE DEF Inv, TypeOK, Goto, LetGo, handleVars
<1>1. ASSUME NEW b \in Browsers, Spawn(b) \/ Launch(b) PROVE LaunchedInv'
  BY <1>1 DEF LaunchedInv, Spawn, Launch, PollFindsExit, LaunchTimeout,
     ReadPort, GetVersion, VersionRead, NoVersion, CheckFails, CheckPasses,
     Inject
<1>2. ASSUME NEW b \in Browsers, Shutdown(b) \/ Terminate(b)
      PROVE  LaunchedInv'
  BY <1>2 DEF LaunchedInv, Shutdown, Terminate, Cleanup, Close, CloseFails,
     Wait, SendSigterm, Kill, End, Return, GoOn
<1>3. ASSUME NEW b \in Browsers,
             Drop(b) \/ RuntimeReaps(b) \/ Forget(b) \/ Chrome(b)
      PROVE  LaunchedInv'
  BY <1>3 DEF LaunchedInv, Drop, RuntimeReaps, Forget, Chrome, OpenPortFile,
     WritePortFile, Exit, Hang
<1>4. CASE UNCHANGED vars
  BY <1>4 DEF LaunchedInv, vars
<1> QED
  BY <1>1, <1>2, <1>3, <1>4 DEF Next

(* The moves of ProcessLifecycle, and none.                                *)
Allowed(from, to) ==
  \/ from = to
  \/ from = "none" /\ to = "launching"
  \/ from = "launching" /\ to \in {"owned", "orphan"}
  \/ from \in {"launching", "owned", "orphan"} /\ to = "ending"
  \/ from \in {"launching", "owned", "orphan", "ending"} /\ to = "none"

(* An allowed change of one child is a step of ProcessLifecycle.           *)
LEMMA AllowedStep ==
  ASSUME NEW c \in Browsers, Allowed(Phase[c], Phase'[c]),
         \A d \in Browsers \ {c} : Phase'[d] = Phase[d]
  PROVE  [Process!Next]_Phase
<1>1. Phase = [d \in Browsers |-> Phase[d]]
  BY DEF Phase
<1>2. Phase' = [d \in Browsers |-> Phase'[d]]
  BY DEF Phase
<1>3. Phase' = [Phase EXCEPT ![c] = Phase'[c]]
  BY <1>1, <1>2
<1> QED
  BY <1>1, <1>2, <1>3
  DEF Allowed, Process!Next, Process!Launch, Process!HandOut, Process!Abandon,
      Process!End, Process!Vanish, Process!Move

(* All but Browser.close, which goes to the browser of the endpoint.       *)
OwnAction(b) ==
  \/ Spawn(b) \/ Launch(b) \/ Shutdown(b) \/ (Terminate(b) /\ ~Close(b))
  \/ Drop(b) \/ RuntimeReaps(b) \/ Forget(b) \/ Chrome(b)

(* Such an action moves the child of its own launch at most.               *)
LEMMA PhaseAlone ==
  ASSUME Inv, LaunchedInv, NEW b \in Browsers, OwnAction(b)
  PROVE  /\ Allowed(Phase[b], Phase'[b])
         /\ \A d \in Browsers \ {b} : Phase'[d] = Phase[d]
<1> USE DEF Inv, TypeOK, Goto, Reap, Exits, LetGo, Return, GoOn, Phase,
            Allowed, Running, Living, processVars, handleVars
<1>1. CASE Spawn(b)
  BY <1>1 DEF LaunchedInv, Spawn, ProfileInv
<1>2. CASE Launch(b)
  BY <1>2 DEF Launch, LaunchedInv, PollFindsExit, LaunchTimeElapsed,
     LaunchTimeout, ReadPort, GetVersion, VersionRead, NoVersion, CheckFails,
     CheckPasses, Inject
<1>3. CASE Shutdown(b) \/ Cleanup(b) \/ CloseFails(b)
  BY <1>3 DEF Shutdown, Cleanup, CloseFails, End, NotExited
<1>4. CASE Wait(b, "close_wait", "term") \/ Wait(b, "term_wait", "kill")
  BY <1>4 DEF Wait, End
<1>5. CASE SendSigterm(b) \/ Kill(b)
  BY <1>5 DEF SendSigterm, Kill, KillAndWait
<1>6. CASE Drop(b)
  BY <1>6 DEF Drop, SuspendedPCs, LaunchPCs, KilledByDrop
<1>7. CASE RuntimeReaps(b) \/ Forget(b)
  BY <1>7 DEF RuntimeReaps, Forget
<1>8. CASE Chrome(b)
  BY <1>8 DEF Chrome, OpenPortFile, WritePortFile, Exit, Hang
<1> QED
  BY <1>1, <1>2, <1>3, <1>4, <1>5, <1>6, <1>7, <1>8 DEF OwnAction, Terminate

(* Browser.close moves the browser that answers at the endpoint.           *)
LEMMA PhaseClose ==
  ASSUME Inv, NEW b \in Browsers, Close(b), NEW c, c = endpoint[b]
  PROVE  /\ c \in Browsers
         /\ Allowed(Phase[c], Phase'[c])
         /\ \A d \in Browsers \ {c} : Phase'[d] = Phase[d]
<1> USE DEF Close, Inv, TypeOK, Goto, Answers, Exits, processVars, handleVars
<1>1. /\ c \in Browsers /\ chrome[c] = "serving" /\ UNCHANGED launched
      /\ pc' = [pc EXCEPT ![b] = "close_wait"] /\ pc[b] = "closing"
      /\ chrome' = [chrome EXCEPT ![c] = chrome'[c]]
      /\ chrome'[c] \in {"serving", "zombie"}
  OBVIOUS
<1>2. Allowed(Phase[c], Phase'[c])
  BY <1>1 DEF Phase, Allowed, Running, Living
<1>3. \A d \in Browsers \ {c} : Phase'[d] = Phase[d]
  BY <1>1 DEF Phase, Running, Living
<1> QED
  BY <1>1, <1>2, <1>3

(* A Chrome process that a launch has handed out has an owner until it is  *)
(* on its way out: launching, shutting down and dropping in any order      *)
(* implement ProcessLifecycle.                                             *)
THEOREM ProcessRefinement == Spec => ImplementsProcess
<1>1. Init => LaunchedInv /\ Process!Init
  BY DEF Init, LaunchedInv, Process!Init, Phase
<1>2. Inv /\ LaunchedInv /\ [Next]_vars => [Process!Next]_Phase
  <2> SUFFICES ASSUME Inv, LaunchedInv, [Next]_vars
               PROVE  [Process!Next]_Phase
    OBVIOUS
  <2>1. ASSUME NEW b \in Browsers, OwnAction(b)
        PROVE  [Process!Next]_Phase
    <3>1. /\ Allowed(Phase[b], Phase'[b])
          /\ \A d \in Browsers \ {b} : Phase'[d] = Phase[d]
      BY <2>1, PhaseAlone
    <3> QED
      BY <3>1, AllowedStep
  <2>2. ASSUME NEW b \in Browsers, Close(b)
        PROVE  [Process!Next]_Phase
    BY <2>2, PhaseClose, AllowedStep
  <2>3. CASE UNCHANGED vars
    BY <2>3 DEF vars, processVars, handleVars, Phase, Running
  <2> QED
    BY <2>1, <2>2, <2>3 DEF Next, OwnAction, Terminate
<1>3. Inv /\ LaunchedInv /\ [Next]_vars => LaunchedInv'
  BY LaunchedStep
<1> QED
  BY <1>1, <1>2, <1>3, BrowserInvariance, PTL
  DEF Spec, ImplementsProcess, Process!Spec

----------------------------------------------------------------------------
(* Browsers of sessions *)

(* What FreshBrowserEach comes down to: two sessions drive one browser     *)
(* only if the directory of one of them is persistent or its child exited. *)
SharedOnlyIf ==
  \A b, c \in Browsers :
    /\ pc[b] = "up" /\ pc[c] = "up" /\ b # c
    /\ endpoint[b] = endpoint[c] /\ endpoint[b] # Nothing
    => \E d \in {b, c} : profile[d] \notin Temporary \/ ~Running(d)

(* launch_chrome gives each session a browser of its own, unless it starts *)
(* it in a persistent directory or the new Chrome exits before it is used. *)
THEOREM OwnBrowser == Spec => []SharedOnlyIf
<1>1. OwnInv => SharedOnlyIf
  BY DEF OwnInv, LookInv, OwnChild, SharedOnlyIf
<1> QED
  BY <1>1, OwnInvariance, PTL

=============================================================================
