--------------------------- MODULE SessionServer ---------------------------
(***************************************************************************)
(* eiger-api over eiger-pool: the handlers that create, connect to, use,   *)
(* list and delete sessions, running against the pool and its maintenance  *)
(* task, with clients that disconnect and browsers that exit or hang.      *)
(*                                                                         *)
(* hyper drops the future of a handler whose client goes away: everything  *)
(* the future owns is dropped where it is suspended.  The task that axum   *)
(* spawns for an upgraded WebSocket is not dropped.                        *)
(***************************************************************************)
EXTENDS PoolMaintenance

CONSTANTS Ops,                   \* the operations that requests ask for
          ClientsMayDisconnect,  \* clients leave before they are answered
          BrowsersMayHang        \* browsers stop answering without exiting

ASSUME ServerAssumption ==
  /\ Ops \subseteq PoolOps
  /\ ClientsMayDisconnect \in BOOLEAN
  /\ BrowsersMayHang \in BOOLEAN

----------------------------------------------------------------------------
(* Requests arrive *)

Start(r, o, next) ==
  /\ o \in Ops
  /\ pc[r] = "idle"
  /\ op' = [op EXCEPT ![r] = o]
  /\ Goto(r, next)

(* Nothing in the server is left of the last session of this name.         *)
Fresh(s) ==
  /\ state[s] = "absent"
  /\ proc[s] = "none"
  /\ \A t \in Tasks : target[t] # s

(* POST /sessions, GET /session, and POST /scrape, /screenshot and /pdf.   *)
CreateSession(r) ==
  /\ Fresh(r)
  /\ \E o \in CreateOps : Start(r, o, "queued")
  /\ Acquire(r)
  /\ UNCHANGED <<target, clones, sessions, entryVars, launchVars>>

(* GET /session/:id; a session that is not listed is not found.            *)
ConnectExisting(r, s) ==
  /\ s \in sessions
  /\ Start(r, "connect_existing", "claim")
  /\ target' = [target EXCEPT ![r] = s]
  /\ UNCHANGED <<queueVars, clones, sessions, entryVars, launchVars>>

(* DELETE /sessions/:id, with the id of a session that exists.             *)
DeleteSession(r, s) ==
  /\ s \in Entries
  /\ Start(r, "delete", "terminate")
  /\ target' = [target EXCEPT ![r] = s]
  /\ UNCHANGED <<queueVars, clones, sessions, entryVars, launchVars>>

(* GET /sessions, /metrics and /metrics/prometheus clone every entry of    *)
(* the map, GET /sessions/:id only one.                                    *)
ListSessions(r) ==
  /\ \E S \in {sessions} \cup {{s} : s \in sessions} :
       clones' = [clones EXCEPT ![r] = S]
  /\ Start(r, "list", "listing")
  /\ UNCHANGED <<queueVars, target, sessions, entryVars, launchVars>>

----------------------------------------------------------------------------
(* Handlers use their session *)

UpgradeSucceeds(r) ==
  /\ pc[r] = "upgrade"
  /\ Goto(r, "mark")
  /\ UNCHANGED <<queueVars, op, target, clones, sessions, entryVars,
                 launchVars>>

(* axum drops the callback of on_upgrade, and the handle in it.            *)
UpgradeFails(r) ==
  /\ pc[r] = "upgrade"
  /\ Goto(r, "leave")
  /\ UNCHANGED <<queueVars, op, target, clones, sessions, entryVars,
                 launchVars>>

(* proxy_websocket returns: the client or the browser closed.              *)
ProxyCloses(r) ==
  /\ pc[r] = "using"
  /\ op[r] # "rest"
  /\ Goto(r, "terminate")
  /\ UNCHANGED <<queueVars, op, target, clones, sessions, entryVars,
                 launchVars>>

(* The operation returns, and has dropped the handle it was given.         *)
RestCompletes(r) ==
  LET s == target[r] IN
  /\ pc[r] = "using"
  /\ op[r] = "rest"
  /\ Goto(r, "terminate")
  /\ UNCHANGED <<op, target, clones, sessions, launchVars>>
  /\ DropEntry(s)

----------------------------------------------------------------------------
(* A client disconnects before it is answered *)

(* launch_chrome is dropped.  Until wait_until_ready has returned nothing  *)
(* owns the child but a Child with kill_on_drop(false): it keeps running.  *)
(* After that LaunchedBrowser does, and its Drop kills it.                 *)
CancelLaunch(r) ==
  /\ pc[r] \in LaunchPCs
  /\ \E left \in IF pc[r] = "launching" /\ proc[r] = "running"
                 THEN {"orphan", "none"} ELSE {"none"} :
       proc' = [proc EXCEPT ![r] = left]
  /\ Release(r)
  /\ Return(r)
  /\ UNCHANGED <<clones, sessions, fieldVars, browser, launchVars>>

(* Where the future of a request can be suspended with a reference to its  *)
(* entry.  An upgraded connection is a task of its own.                    *)
SuspendedPCs(r) ==
  CASE op[r] = "connect_existing" -> {"claim", "connect_touch"}
    [] op[r] = "rest" -> {"mark", "touch", "using"} \cup ShutdownPCs
    [] op[r] = "delete" -> ShutdownPCs
    [] OTHER -> {}

(* The future is dropped, and what it owns goes: the browser that shutdown *)
(* took is killed by its Drop, and the reference to the entry is let go.   *)
CancelHandler(r) ==
  /\ pc[r] \in SuspendedPCs(r)
  /\ proc' = IF pc[r] = "shutting" THEN [proc EXCEPT ![target[r]] = "none"]
                                    ELSE proc
  /\ Goto(r, "leave")
  /\ UNCHANGED <<queueVars, op, target, clones, sessions, fieldVars, browser,
                 launchVars>>

----------------------------------------------------------------------------
(* The environment *)

(* A child that nobody waits for stays a zombie; an orphan is reaped by    *)
(* the runtime.                                                            *)
BrowserExits(s) ==
  /\ Alive(s) \/ proc[s] = "orphan"
  /\ proc' = [proc EXCEPT ![s] = IF Alive(s) THEN "zombie" ELSE "none"]
  /\ UNCHANGED <<queueVars, taskVars, sessions, fieldVars, browser,
                 launchVars>>

BrowserHangs(s) ==
  /\ BrowsersMayHang
  /\ s \in Entries
  /\ proc[s] = "running"
  /\ proc' = [proc EXCEPT ![s] = "hung"]
  /\ UNCHANGED <<queueVars, taskVars, sessions, fieldVars, browser,
                 launchVars>>

(* Clocks pass the limits of a listed session; the idle time of a session  *)
(* in use is not looked at.                                                *)
IdleElapses(s) ==
  /\ s \in sessions \ idle
  /\ state[s] = "Ready"
  /\ idle' = idle \cup {s}
  /\ UNCHANGED <<queueVars, taskVars, sessions, state, killReason, expired,
                 browser, proc, launchVars>>

LifetimeElapses(s) ==
  /\ s \in sessions \ expired
  /\ expired' = expired \cup {s}
  /\ UNCHANGED <<queueVars, taskVars, sessions, state, killReason, idle,
                 browser, proc, launchVars>>

----------------------------------------------------------------------------
(* The specification *)

Arrive(r) ==
  \/ CreateSession(r)
  \/ \E s \in Requests : ConnectExisting(r, s) \/ DeleteSession(r, s)
  \/ ListSessions(r)

Launch(r) ==
  \/ QueueGranted(r) \/ QueueTimeout(r)
  \/ RejectProfile(r) \/ SpawnChrome(r)
  \/ LaunchFails(r) \/ ReportLaunchError(r)
  \/ LaunchSucceeds(r) \/ PublishSession(r)

Serve(r) ==
  \/ ClaimSession(r) \/ Touch(r)
  \/ UpgradeSucceeds(r) \/ UpgradeFails(r) \/ MarkInUse(r)
  \/ ListReturns(r) \/ \E s \in Requests : SessionInfo(r, s)

Finish(r) == ProxyCloses(r) \/ RestCompletes(r)

Disconnect(r) == ClientsMayDisconnect /\ (CancelLaunch(r) \/ CancelHandler(r))

Terminate(t) ==
  \/ TerminateSession(t) \/ BeginShutdown(t) \/ TakeBrowser(t)
  \/ ShutdownBrowser(t) \/ MarkDead(t) \/ LeaveSession(t)

Environment(s) ==
  BrowserExits(s) \/ BrowserHangs(s) \/ IdleElapses(s) \/ LifetimeElapses(s)

Next ==
  \/ \E r \in Requests : \/ Arrive(r) \/ Launch(r) \/ Serve(r) \/ Finish(r)
                         \/ Disconnect(r) \/ Environment(r)
  \/ \E t \in Tasks : Terminate(t)
  \/ MaintenanceNext

Spec == PoolInit /\ [][Next]_vars

(* A proxy returns once its browser has gone, and a REST operation when    *)
(* its commands have been answered, have failed or are late.               *)
ProxyLosesBrowser(r) == ProxyCloses(r) /\ ~Alive(target[r])

RestAnswered(r) == RestCompletes(r) /\ proc[target[r]] # "hung"

(* tokio runs every task that can run, timeouts elapse, and the interval   *)
(* of the maintenance task ticks again.  Clients owe the server nothing,   *)
(* but for reading what a proxy sends them when their browser has gone.    *)
Fairness ==
  /\ WF_vars(MaintenanceStep)
  /\ \A t \in Tasks : WF_vars(Terminate(t))
  /\ \A r \in Requests : /\ WF_vars(Launch(r))
                         /\ WF_vars(Serve(r))
                         /\ WF_vars(RestAnswered(r))
                         /\ WF_vars(ProxyLosesBrowser(r))

FairSpec == Spec /\ Fairness

----------------------------------------------------------------------------
(* Properties *)

(* The live browsers of all sessions ever handed out, listed or being shut *)
(* down or still proxied, never outnumber the configured bound: a permit   *)
(* lives exactly as long as its session's browser can.                     *)
BrowsersWithinCapacity ==
  Cardinality({s \in Requests : Alive(s)}) <= MaxConcurrentSessions

(* No permit is lost or doubled, whatever is cancelled or times out: the   *)
(* free ones and the owned ones add up, and an owner is either launching   *)
(* or has an entry that something still refers to.                         *)
PermitsAccounted ==
  /\ permits + Cardinality(owners) = MaxConcurrentSessions
  /\ \A r \in owners : \/ pc[r] \in {"queued"} \cup LaunchPCs
                       \/ r \in Entries /\ Referenced(r)

(* A live browser can always still be shut down or killed: a launch owns   *)
(* it, or an entry that someone refers to, or a task in shutdown_entry.    *)
LiveBrowserOwned ==
  \A s \in Requests : Alive(s) =>
    \/ pc[s] \in {"launching", "launched"}
    \/ s \in browser /\ Referenced(s)
    \/ \E t \in Tasks : target[t] = s /\ pc[t] = "shutting"

(* What GET /sessions lists is neither being killed nor dead, has no kill  *)
(* reason and still has its browser, although mark_in_use and              *)
(* shutdown_entry write the state of entries they do not look up again.    *)
ListedSessionsLive ==
  \A s \in sessions :
    state[s] \in {"Ready", "InUse"} /\ killReason[s] = "none" /\ s \in browser

Attached(s) == {r \in Requests : target[r] = s /\ pc[r] \in ClientPCs}

(* But for the request that creates a session for itself, at most one      *)
(* client is connected to it: of two that race for a session created by    *)
(* POST /sessions the second is refused.                                   *)
OneClientConnects ==
  \A s \in Requests :
    Cardinality({r \in Attached(s) : op[r] = "connect_existing"}) <= 1

(* Whichever of maintenance, proxies, REST handlers and DELETE race to end *)
(* a session, one of them shuts it down and the reason it gave stands.     *)
ShutdownOnce ==
  [][\A s \in Requests : killReason[s] # "none" =>
       killReason'[s] = killReason[s] \/ state'[s] = "absent"]_vars

(* If ps works, no session is ever recycled as "browser process exited": a *)
(* browser that exits by itself stays in the process table until its       *)
(* session is shut down, and is reported by the CDP health check instead.  *)
ExitNeverTheReason == \A s \in Requests : killReason[s] # "exited"

(* What a session is in SessionLifecycle.                                  *)
SessionPhase ==
  [s \in Requests |->
     IF s \notin owners THEN "free"
     ELSE IF s \notin Entries THEN "starting"
     ELSE IF s \in sessions THEN "listed" ELSE "retired"]

Lifecycle == INSTANCE SessionLifecycle WITH phase <- SessionPhase

(* Seen from outside, a session is one of SessionLifecycle: it occupies    *)
(* one of the slots from the moment its request is given a permit until    *)
(* the last reference to its entry is gone, and is listed in between.      *)
ImplementsLifecycle == Lifecycle!Spec

(* What the Chrome of a session is in ProcessLifecycle.                    *)
ProcessPhase ==
  [s \in Requests |->
     IF proc[s] = "none" THEN "none"
     ELSE IF pc[s] = "launching" THEN "launching"
     ELSE IF pc[s] = "launched" \/ s \in browser THEN "owned"
     ELSE IF proc[s] = "zombie" \/ \E t \in Tasks :
               target[t] = s /\ pc[t] = "shutting"
       THEN "ending" ELSE "orphan"]

Process == INSTANCE ProcessLifecycle WITH
  Processes <- Requests, phase <- ProcessPhase

(* What SessionPool takes for single steps BrowserProcess takes apart: the *)
(* processes of both are those of ProcessLifecycle.                        *)
ImplementsProcess == Process!Spec

(* A session older than max_session_lifetime loses its browser, whatever   *)
(* its client does.                                                        *)
ExpiredRecycled ==
  \A s \in Requests : s \in expired ~> ~Alive(s)

(* and its slot is free for another session in the end.                    *)
SlotReturned ==
  \A s \in Requests : s \in expired ~> s \notin owners

(* README: the capacity is a "global concurrency bound" and the process    *)
(* owns the lifecycle of its browsers.  It holds of every Chrome process   *)
(* only if none is left behind by a launch whose client went away.         *)
ChromeProcessesBounded ==
  Cardinality({s \in Requests : Alive(s) \/ proc[s] = "orphan"})
    <= MaxConcurrentSessions

(* README: GET /session "allocates a fresh Chromium session, proxies CDP   *)
(* to it".  It is shared if another client can connect to it meanwhile.    *)
FreshSessionUnshared ==
  \A s \in Requests :
    op[s] = "connect_new" /\ s \in Attached(s) => Attached(s) = {s}

(* README: REST endpoints use "a transient Chrome session", and GET        *)
(* /session recycles its own "when the WebSocket disconnects".  A listed   *)
(* session in use then has a handler that works with it or is leaving.     *)
InUseSessionServed ==
  \A s \in sessions : state[s] = "InUse" =>
    \E r \in Requests : target[r] = s /\ pc[r] \notin {"claim", "respond"}

=============================================================================
