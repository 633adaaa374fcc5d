--------------------------- MODULE BrowserProcess ---------------------------
(***************************************************************************)
(* eiger-browser: one Chrome child process for each browser, from          *)
(* launch_chrome to LaunchedBrowser::shutdown or Drop, next to what Chrome *)
(* and the kernel do meanwhile.  SessionPool takes a launch and a shutdown *)
(* for single steps; here they are taken apart.                            *)
(*                                                                         *)
(* Chrome tells where it listens by the file DevToolsActivePort in its     *)
(* profile directory, which outlives it if the profile is persistent.  The *)
(* port is any that is free (--remote-debugging-port=0), so a number in an *)
(* old file, or one that was read a moment ago, may belong to another      *)
(* Chrome by now.  The WebSocket URL holds an identifier that no two       *)
(* Chromes share: once a launch knows it, it cannot reach anybody else.    *)
(***************************************************************************)
EXTENDS Naturals, FiniteSets

CONSTANTS Browsers,            \* the browsers that are launched
          Profiles,            \* profile directories
          Temporary,           \* those of tempfile; the others are persistent
          Ports,               \* numbers that the kernel gives out
          Nothing,             \* no browser, no profile, no port
          BrowsersMayHang      \* Chrome may accept connections and no more

ASSUME BrowserAssumption ==
  /\ Temporary \subseteq Profiles
  /\ Nothing \notin Browsers \cup Profiles \cup Ports
  /\ "empty" \notin Ports \cup {Nothing}
  /\ BrowsersMayHang \in BOOLEAN

VARIABLES pc,         \* where launch_chrome or shutdown is
          chrome,     \* the child process
          profile,    \* the directory it was given
          port,       \* where the child listens, if it does
          portFile,   \* the contents of DevToolsActivePort in each directory
          basePort,   \* the port of http_base_url, which a launch has read
          endpoint,   \* the browser that browser_ws_url names
          launched    \* browsers that a LaunchedBrowser owns

processVars == <<chrome, port>>
directoryVars == <<profile, portFile>>
handleVars == <<basePort, endpoint, launched>>

vars == <<pc, processVars, directoryVars, handleVars>>

LaunchPCs == {"poll", "get", "check", "inject"}
CleanupPCs == {"cleanup", "term", "term_wait", "kill"}
ShutdownPCs == {"closing", "close_wait", "term", "term_wait", "kill"}

(* A pid stays reserved for a zombie; "none" is never started or reaped.   *)
Living == {"starting", "writing", "serving", "hung"}
Running(b) == chrome[b] \in Living

TypeOK ==
  /\ pc \in [Browsers -> {"idle", "up", "ended", "dropped"} \cup LaunchPCs
                            \cup CleanupPCs \cup ShutdownPCs]
  /\ chrome \in [Browsers -> Living \cup {"none", "zombie"}]
  /\ profile \in [Browsers -> Profiles \cup {Nothing}]
  /\ port \in [Browsers -> Ports \cup {Nothing}]
  /\ portFile \in [Profiles -> Ports \cup {Nothing, "empty"}]
  /\ basePort \in [Browsers -> Ports \cup {Nothing}]
  /\ endpoint \in [Browsers -> Browsers \cup {Nothing}]
  /\ launched \in SUBSET Browsers

Init ==
  /\ pc = [b \in Browsers |-> "idle"]
  /\ chrome = [b \in Browsers |-> "none"]
  /\ profile = [b \in Browsers |-> Nothing]
  /\ port = [b \in Browsers |-> Nothing]
  /\ portFile = [p \in Profiles |-> Nothing]
  /\ basePort = [b \in Browsers |-> Nothing]
  /\ endpoint = [b \in Browsers |-> Nothing]
  /\ launched = {}

Goto(b, next) == pc' = [pc EXCEPT ![b] = next]

(* Chrome has exited: its port is free, its pid is not.                    *)
Exits(b) ==
  /\ chrome' = [chrome EXCEPT ![b] = "zombie"]
  /\ port' = [port EXCEPT ![b] = Nothing]

(* What wait_until_ready or a LaunchedBrowser holds goes with it.          *)
LetGo(b) ==
  /\ basePort' = [basePort EXCEPT ![b] = Nothing]
  /\ endpoint' = [endpoint EXCEPT ![b] = Nothing]
  /\ launched' = launched \ {b}

(* Mutant: a temporary directory is kept for the next launch.              *)
Kept(p) == portFile

Removed(p) ==
  IF p \in Temporary THEN [portFile EXCEPT ![p] = Nothing] ELSE portFile

LeaveDirectory(b) ==
  /\ profile' = [profile EXCEPT ![b] = Nothing]
  /\ portFile' = Removed(profile[b])

(* launch_chrome or shutdown returns.                                      *)
Return(b) == Goto(b, "ended") /\ LetGo(b) /\ LeaveDirectory(b)

----------------------------------------------------------------------------
(* launch_chrome *)

InUse(p) == \E b \in Browsers : profile[b] = p

(* A temporary directory is new and nobody else's, and is removed with its *)
(* user; a persistent one is as its last user left it, or as its present   *)
(* one has it.                                                             *)
Spawn(b) ==
  /\ pc[b] = "idle"
  /\ \E p \in Profiles :
       /\ p \in Temporary => ~InUse(p)
       /\ profile' = [profile EXCEPT ![b] = p]
  /\ chrome' = [chrome EXCEPT ![b] = "starting"]
  /\ Goto(b, "poll")
  /\ UNCHANGED <<port, portFile, handleVars>>

(* Child::try_wait: a child that has exited is reaped, once.               *)
Reap(b) == chrome' = [chrome EXCEPT ![b] = "none"]

PollFindsExit(b) ==
  /\ pc[b] = "poll"
  /\ chrome[b] = "zombie"
  /\ Reap(b)
  /\ Goto(b, "cleanup")
  /\ UNCHANGED <<port, directoryVars, handleVars>>

(* Mutant: wait_until_ready polls for as long as Chrome lives.             *)
LaunchTimeNever(b) == FALSE

(* launch_timeout is looked at between polls.                              *)
LaunchTimeElapsed(b) == pc[b] = "poll"

LaunchTimeout(b) ==
  /\ LaunchTimeElapsed(b)
  /\ Goto(b, "cleanup")
  /\ UNCHANGED <<processVars, directoryVars, handleVars>>

(* Mutant: an empty file is taken for a port.                              *)
NamesAnything(line) == line # Nothing

NamesPort(line) == line \in Ports

(* Without a file the poll is repeated.  A file that Chrome has opened but *)
(* not written yet is an error.                                            *)
ReadPort(b) ==
  LET line == portFile[profile[b]] IN
  /\ pc[b] = "poll"
  /\ \/ /\ line = "empty"
        /\ Goto(b, "cleanup")
        /\ UNCHANGED basePort
     \/ /\ NamesPort(line)
        /\ basePort' = [basePort EXCEPT ![b] = line]
        /\ Goto(b, "get")
  /\ UNCHANGED <<processVars, directoryVars, endpoint, launched>>

Answers(c) == c \in Browsers /\ chrome[c] = "serving"

(* Every connection of b goes to its port.  If the Chrome there hangs,     *)
(* whoever it is, no answer comes.                                         *)
Stuck(b) == \E c \in Browsers : chrome[c] = "hung" /\ port[c] = basePort[b]

(* GET /json/version: whoever listens there names its own WebSocket URL.   *)
VersionRead(b) ==
  \E c \in Browsers :
    /\ Answers(c) /\ port[c] = basePort[b]
    /\ endpoint' = [endpoint EXCEPT ![b] = c]
    /\ Goto(b, "check")
    /\ UNCHANGED <<basePort, launched>>

(* Without an answer that is a success the poll is repeated; one that is   *)
(* broken off, or not about a browser, ends the launch.  If Chrome hangs   *)
(* there is neither an answer nor a timeout.                               *)
NoVersion(b) ==
  /\ ~Stuck(b)
  /\ \E next \in {"poll", "cleanup"} : Goto(b, next)
  /\ LetGo(b)

GetVersion(b) ==
  /\ pc[b] = "get"
  /\ VersionRead(b) \/ NoVersion(b)
  /\ UNCHANGED <<processVars, directoryVars>>

(* The health check of the new browser: its failure ends the launch.  Only *)
(* the answer has a timeout, not the connection: Fairness excludes Stuck.  *)
CheckFails(b) ==
  /\ pc[b] = "check"
  /\ Goto(b, "cleanup")
  /\ LetGo(b)
  /\ UNCHANGED <<processVars, directoryVars>>

(* A LaunchedBrowser takes the child over.                                 *)
CheckPasses(b) ==
  /\ pc[b] = "check"
  /\ Answers(endpoint[b])
  /\ launched' = launched \cup {b}
  /\ Goto(b, "inject")
  /\ UNCHANGED <<processVars, directoryVars, basePort, endpoint>>

(* Stealth scripts are injected, or fail with a warning.                   *)
Inject(b) ==
  /\ pc[b] = "inject"
  /\ Goto(b, "up")
  /\ UNCHANGED <<processVars, directoryVars, handleVars>>

----------------------------------------------------------------------------
(* terminate_child and shutdown *)

(* Mutant: the child is signalled without looking.                         *)
MayRun(b) == TRUE

(* try_wait finds no exit status: neither now nor at an earlier call.      *)
NotExited(b) == Running(b)

End(b) == Reap(b) /\ Return(b)

GoOn(b, next) ==
  Goto(b, next) /\ UNCHANGED <<chrome, directoryVars, handleVars>>

(* After a failed launch.                                                  *)
Cleanup(b) ==
  /\ pc[b] = "cleanup"
  /\ IF NotExited(b) THEN GoOn(b, "term") ELSE End(b)
  /\ UNCHANGED port

Shutdown(b) ==
  /\ pc[b] = "up"
  /\ IF NotExited(b) THEN GoOn(b, "closing") ELSE End(b)
  /\ UNCHANGED port

(* Browser.close at the URL of the endpoint: Chrome exits now or later.    *)
Close(b) ==
  /\ pc[b] = "closing"
  /\ Answers(endpoint[b])
  /\ Exits(endpoint[b]) \/ UNCHANGED processVars
  /\ Goto(b, "close_wait")
  /\ UNCHANGED <<directoryVars, handleVars>>

(* Mutant: close_timeout does not cover the connection.                    *)
CloseGivesUpUnlessStuck(b) == ~Stuck(b)

(* close_timeout covers everything, connecting included.                   *)
CloseGivesUp(b) == TRUE

CloseFails(b) ==
  /\ pc[b] = "closing"
  /\ CloseGivesUp(b)
  /\ Goto(b, "term")
  /\ UNCHANGED <<processVars, directoryVars, handleVars>>

(* timeout(terminate_timeout, child.wait()): an exit is noticed even when  *)
(* the time has elapsed.                                                   *)
Wait(b, waiting, next) ==
  /\ pc[b] = waiting
  /\ IF chrome[b] = "zombie" THEN End(b) ELSE GoOn(b, next)
  /\ UNCHANGED port

(* Chrome exits on SIGTERM, or takes its time, or hangs.                   *)
SendSigterm(b) ==
  /\ pc[b] = "term"
  /\ (Running(b) /\ Exits(b)) \/ UNCHANGED processVars
  /\ Goto(b, "term_wait")
  /\ UNCHANGED <<directoryVars, handleVars>>

(* Mutant: start_kill instead of kill, which waits as well.                *)
KillOnly(b) == Exits(b)

KillAndWait(b) == Reap(b) /\ port' = [port EXCEPT ![b] = Nothing]

Kill(b) ==
  /\ pc[b] = "kill"
  /\ KillAndWait(b)
  /\ Return(b)

----------------------------------------------------------------------------
(* The future of launch_chrome or shutdown, or the entry, is dropped *)

(* Where they can be suspended. At "kill" the signal has been sent.        *)
SuspendedPCs ==
  LaunchPCs \cup {"up", "closing", "close_wait", "term_wait", "kill"}

(* Mutant: a LaunchedBrowser leaves its child alone when it is dropped.    *)
KilledAtKill(b) == Running(b) /\ pc[b] = "kill"

(* Only a LaunchedBrowser kills its child when it is dropped.              *)
KilledByDrop(b) == Running(b) /\ (b \in launched \/ pc[b] = "kill")

Drop(b) ==
  /\ pc[b] \in SuspendedPCs
  /\ IF KilledByDrop(b) THEN Exits(b) ELSE UNCHANGED processVars
  /\ Goto(b, "dropped")
  /\ LetGo(b)
  /\ UNCHANGED directoryVars

(* The runtime waits for the children of dropped handles.                  *)
RuntimeReaps(b) ==
  /\ pc[b] = "dropped"
  /\ chrome[b] = "zombie"
  /\ Reap(b)
  /\ UNCHANGED <<pc, port, directoryVars, handleVars>>

(* The browser is forgotten, and its name can stand for another, of which  *)
(* nobody knows the URL yet.  Its port stays in files and base URLs.       *)
Forget(b) ==
  /\ pc[b] \in {"ended", "dropped"}
  /\ chrome[b] = "none"
  /\ Goto(b, "idle")
  /\ LeaveDirectory(b)
  /\ endpoint' = [c \in Browsers |->
                    IF endpoint[c] = b THEN Nothing ELSE endpoint[c]]
  /\ UNCHANGED <<processVars, basePort, launched>>

----------------------------------------------------------------------------
(* Chrome *)

OpenPortFile(b) ==
  /\ chrome[b] = "starting"
  /\ chrome' = [chrome EXCEPT ![b] = "writing"]
  /\ portFile' = [portFile EXCEPT ![profile[b]] = "empty"]
  /\ UNCHANGED <<pc, port, profile, handleVars>>

(* The kernel gives out any port on which nobody listens.                  *)
WritePortFile(b) ==
  /\ chrome[b] = "writing"
  /\ chrome' = [chrome EXCEPT ![b] = "serving"]
  /\ \E n \in Ports \ {port[c] : c \in Browsers} :
       /\ port' = [port EXCEPT ![b] = n]
       /\ portFile' = [portFile EXCEPT ![profile[b]] = n]
  /\ UNCHANGED <<pc, profile, handleVars>>

Exit(b) ==
  /\ Running(b)
  /\ Exits(b)
  /\ UNCHANGED <<pc, directoryVars, handleVars>>

Hang(b) ==
  /\ BrowsersMayHang
  /\ chrome[b] = "serving"
  /\ chrome' = [chrome EXCEPT ![b] = "hung"]
  /\ UNCHANGED <<pc, port, directoryVars, handleVars>>

----------------------------------------------------------------------------
(* The specification *)

Launch(b) ==
  \/ PollFindsExit(b) \/ LaunchTimeout(b) \/ ReadPort(b) \/ GetVersion(b)
  \/ CheckFails(b) \/ CheckPasses(b) \/ Inject(b)

Terminate(b) ==
  \/ Cleanup(b) \/ Close(b) \/ CloseFails(b)
  \/ Wait(b, "close_wait", "term")
  \/ SendSigterm(b)
  \/ Wait(b, "term_wait", "kill")
  \/ Kill(b)

Chrome(b) == OpenPortFile(b) \/ WritePortFile(b) \/ Exit(b) \/ Hang(b)

Next ==
  \E b \in Browsers :
    \/ Spawn(b) \/ Launch(b) \/ Shutdown(b) \/ Terminate(b)
    \/ Drop(b) \/ RuntimeReaps(b) \/ Forget(b) \/ Chrome(b)

Spec == Init /\ [][Next]_vars

(* The runtime polls a task that can run, and the launch timeout elapses.  *)
(* Of a launch that waits for a hung browser nothing is expected.          *)
Fairness ==
  \A b \in Browsers : /\ WF_vars(~Stuck(b) /\ Launch(b))
                      /\ SF_vars(LaunchTimeout(b))
                      /\ WF_vars(Terminate(b))

FairSpec == Spec /\ Fairness

----------------------------------------------------------------------------
(* Properties *)

(* SIGTERM is sent to a number: terminate_child and shutdown send it only  *)
(* while the child has not been reaped, when nobody else can have its pid. *)
SignalsOwnChild ==
  \A b \in Browsers : pc[b] \in {"term", "kill"} => chrome[b] # "none"

(* Whatever way shutdown or a failed launch ends, it leaves no process and *)
(* no zombie behind: the single steps of SessionPool rest on it.           *)
ReapedAtEnd == \A b \in Browsers : pc[b] = "ended" => chrome[b] = "none"

(* A session in a temporary directory drives its own child while that      *)
(* runs, and Browser.close never goes to another session's Chrome, though  *)
(* only a port number tells wait_until_ready whom it asks: the file is not *)
(* an old one, and the child holds its port until it exits.  Neither holds *)
(* of a persistent directory, whose file may name the port that another    *)
(* Chrome got; nor, once it has exited, of a child whose port was read but *)
(* not asked yet.                                                          *)
EndpointOwn ==
  \A b \in Browsers : profile[b] \in Temporary =>
    /\ pc[b] \in {"inject", "up"} /\ Running(b) => endpoint[b] = b
    /\ pc[b] = "closing" => endpoint[b] = b

(* shutdown returns although its browser hangs: connecting, closing and    *)
(* waiting are all under a timeout, unlike in the health check.            *)
ShutdownEnds ==
  \A b \in Browsers : pc[b] = "closing" ~> pc[b] \in {"ended", "dropped"}

(* A launch hands out a browser or fails in the end, although the file it  *)
(* polls may never appear or name a port that nobody listens on; unless it *)
(* asks a browser that hangs, as no timeout covers that.                   *)
LaunchEnds ==
  \A b \in Browsers :
    pc[b] = "poll" ~> pc[b] \in {"up", "ended", "dropped"} \/ Stuck(b)

(* What a child is in ProcessLifecycle.                                    *)
Phase ==
  [b \in Browsers |->
     IF chrome[b] = "none" THEN "none"
     ELSE IF pc[b] = "dropped" THEN IF Running(b) THEN "orphan" ELSE "ending"
     ELSE IF b \notin launched THEN "launching"
     ELSE IF pc[b] \in {"inject", "up"} THEN "owned" ELSE "ending"]

Process == INSTANCE ProcessLifecycle WITH Processes <- Browsers, phase <- Phase

(* A child is a process of ProcessLifecycle: no launched browser is left   *)
(* running by itself, wherever launch and shutdown are dropped.            *)
ImplementsProcess == Process!Spec

(* README: GET /session, which takes a persistentProfileId too, allocates  *)
(* "a fresh Chromium session": no two sessions drive the same browser.     *)
FreshBrowserEach ==
  \A b, c \in Browsers :
    /\ pc[b] = "up" /\ pc[c] = "up"
    /\ endpoint[b] = endpoint[c] /\ endpoint[b] # Nothing
    => b = c

=============================================================================
