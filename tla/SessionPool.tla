---------------------------- MODULE SessionPool ----------------------------
(***************************************************************************)
(* eiger-pool: the shared map of browser sessions and the operations that  *)
(* request handlers and the maintenance task run on it concurrently.       *)
(*                                                                         *)
(* Tasks interleave at every lock, atomic and await of the code; an action *)
(* is the code between two of them.  A request serves one API call after   *)
(* the other.  A session is named after the request that creates it, and   *)
(* the name is used again only when nothing remembers it, as if each       *)
(* session had a Uuid of its own.  References to an entry                  *)
(* (Arc<SessionEntry>) are derived instead of counted: an entry is         *)
(* referenced by the map, by the handle or local of a task and by the      *)
(* vectors of clones that list_sessions and maintenance_pass iterate over. *)
(* The sessions_*_total counters, which nothing but GET /metrics reads,    *)
(* are left out.                                                           *)
(***************************************************************************)
EXTENDS LaunchQueue

CONSTANTS Maintenance,   \* the task of SessionPool::spawn_maintenance
          NoSession      \* no session

ASSUME TaskAssumption ==
  /\ Maintenance \notin Requests
  /\ NoSession \notin Requests

Tasks == Requests \cup {Maintenance}

(* What a request asks of the pool, by API handler.                        *)
CreateOps == {"create", "connect_new", "rest"}
PoolOps == CreateOps \cup {"connect_existing", "delete", "list"}

(* Reasons passed to terminate_session by handlers and by maintenance.     *)
ClientReasons == {"disconnected", "completed", "deleted"}
RecycleReasons == {"lifetime", "idle", "rss", "exited", "unhealthy"}
KillReasons == ClientReasons \cup RecycleReasons

VARIABLES pc,           \* where each task is
          op,           \* the operation of a request, maintenance's verdict
          target,       \* the session a task works on
          clones,       \* entries a task cloned out of the map to iterate on
          sessions,     \* SessionPool::sessions: the keys of the map
          state,        \* SessionEntry::state, "absent" if there is no entry
          killReason,   \* SessionEntry::kill_reason
          idle,         \* sessions last touched more than max_idle_time ago
          expired,      \* sessions older than max_session_lifetime
          browser,      \* sessions whose SessionEntry::browser is Some
          proc,         \* the Chrome process launched for each session
          launchReady,  \* SessionPool::browser_launch_ready
          launchError   \* last_browser_launch_error is Some

taskVars == <<pc, op, target, clones>>
fieldVars == <<state, killReason, idle, expired>>
entryVars == <<fieldVars, browser, proc>>
launchVars == <<launchReady, launchError>>
vars == <<queueVars, taskVars, sessions, entryVars, launchVars>>

(* A zombie has exited and nobody has waited for it yet.  An orphan runs   *)
(* on although nothing in the server owns it any more.                     *)
ProcStates == {"none", "running", "hung", "zombie", "orphan"}
Alive(s) == proc[s] \in {"running", "hung"}

Entries == {s \in Requests : state[s] # "absent"}

(* Points at which a task owns its target entry's Arc: as the handle that  *)
(* create_session or connect_session returned, as the entry that           *)
(* terminate_session removed, or as the entry a maintenance pass is on.    *)
ClientPCs == {"connect_touch", "upgrade", "mark", "touch", "using"}
ShutdownPCs == {"removed", "take", "shutting", "mark_dead"}
HoldingPCs == {"respond", "claim", "idle_check", "sample", "health", "leave"}
                \cup ClientPCs \cup ShutdownPCs

(* Before terminate_session finds the entry, proxy_and_recycle still holds *)
(* its handle and maintenance its clone; with_rest_session has given the   *)
(* handle to the operation and delete_session only has the id.             *)
Holds(t) ==
  \/ pc[t] \in HoldingPCs
  \/ pc[t] = "terminate" /\ op[t] \notin {"rest", "delete"}

Referenced(s) ==
  \/ s \in sessions
  \/ \E t \in Tasks : s \in clones[t] \/ (target[t] = s /\ Holds(t))

(* Whether s is referenced after the step, by what the step leaves behind. *)
StillReferenced(s) ==
  \/ s \in sessions'
  \/ \E t \in Tasks : s \in clones'[t] \/ (target'[t] = s /\ Holds(t)')

LaunchPCs == {"launch", "launching", "launched", "launch_failed"}
PCs == {"idle", "queued", "terminate", "listing", "sleep", "scan"}
         \cup LaunchPCs \cup HoldingPCs

TypeOK ==
  /\ QueueTypeOK
  /\ pc \in [Tasks -> PCs]
  /\ op \in [Tasks -> PoolOps \cup RecycleReasons \cup {"none"}]
  /\ target \in [Tasks -> Requests \cup {NoSession}]
  /\ clones \in [Tasks -> SUBSET Requests]
  /\ sessions \in SUBSET Requests
  /\ state \in [Requests -> {"absent", "Ready", "InUse", "Killing", "Dead"}]
  /\ killReason \in [Requests -> KillReasons \cup {"none"}]
  /\ idle \in SUBSET Requests
  /\ expired \in SUBSET Requests
  /\ browser \in SUBSET Requests
  /\ proc \in [Requests -> ProcStates]
  /\ launchReady \in BOOLEAN
  /\ launchError \in BOOLEAN

PoolInit ==
  /\ QueueInit
  /\ pc = [t \in Tasks |-> IF t = Maintenance THEN "sleep" ELSE "idle"]
  /\ op = [t \in Tasks |-> "none"]
  /\ target = [t \in Tasks |-> NoSession]
  /\ clones = [t \in Tasks |-> {}]
  /\ sessions = {}
  /\ state = [s \in Requests |-> "absent"]
  /\ killReason = [s \in Requests |-> "none"]
  /\ idle = {}
  /\ expired = {}
  /\ browser = {}
  /\ proc = [s \in Requests |-> "none"]
  /\ launchReady = FALSE
  /\ launchError = FALSE

----------------------------------------------------------------------------
(* Helpers *)

Goto(t, next) == pc' = [pc EXCEPT ![t] = next]

(* The task is through with its target.                                    *)
Return(t) ==
  /\ Goto(t, IF t = Maintenance THEN "scan" ELSE "idle")
  /\ op' = [op EXCEPT ![t] = "none"]
  /\ target' = [target EXCEPT ![t] = NoSession]

ForgetFields(s) ==
  /\ state' = [state EXCEPT ![s] = "absent"]
  /\ killReason' = [killReason EXCEPT ![s] = "none"]
  /\ idle' = idle \ {s}
  /\ expired' = expired \ {s}
  /\ browser' = browser \ {s}

(* Mutant: LaunchedBrowser has no Drop, so its process is left running.    *)
FreeEntryOnly(s) == ForgetFields(s) /\ UNCHANGED proc

(* The entry is dropped.  The browser it may still have is killed by the   *)
(* Drop of LaunchedBrowser, and left to the runtime to be reaped.          *)
FreeEntry(s) ==
  /\ ForgetFields(s)
  /\ proc' = IF s \in browser THEN [proc EXCEPT ![s] = "none"] ELSE proc

(* Mutant: the permit lives in the map instead of the entry.               *)
LastReferenceListed(s) == s \in owners /\ s \notin sessions'

LastReference(s) == Referenced(s) /\ ~StillReferenced(s)

(* Mutant: the permit is not part of what is dropped.                      *)
DropEntryKeepsPermit(s) ==
  IF LastReference(s)
  THEN UNCHANGED queueVars /\ FreeEntry(s)
  ELSE UNCHANGED <<queueVars, entryVars>>

(* A task lets go of a reference to s.  With the last one go the browser   *)
(* and then the permit, in the order of the fields of SessionEntry.        *)
DropEntry(s) ==
  IF LastReference(s)
  THEN Release(s) /\ FreeEntry(s)
  ELSE UNCHANGED <<queueVars, entryVars>>

(* The reason the task passes to terminate_session.                        *)
Reason(t) ==
  CASE op[t] = "rest" -> "completed"
    [] op[t] = "delete" -> "deleted"
    [] op[t] \in {"connect_new", "connect_existing"} -> "disconnected"
    [] OTHER -> op[t]

----------------------------------------------------------------------------
(* create_session *)

QueueGranted(r) ==
  /\ pc[r] = "queued"
  /\ r \in owners
  /\ Goto(r, "launch")
  /\ UNCHANGED <<queueVars, op, target, clones, sessions, entryVars,
                 launchVars>>

(* The request gives up, after launch_queue_timeout or because its client  *)
(* disconnects.                                                            *)
QueueTimeout(r) ==
  /\ pc[r] = "queued"
  /\ Abandon(r)
  /\ Return(r)
  /\ UNCHANGED <<clones, sessions, entryVars, launchVars>>

(* A persistent profile is asked for and none is configured, or its id is  *)
(* refused.                                                                *)
RejectProfile(r) ==
  /\ pc[r] = "launch"
  /\ Release(r)
  /\ Return(r)
  /\ UNCHANGED <<clones, sessions, entryVars, launchVars>>

SpawnChrome(r) ==
  /\ pc[r] = "launch"
  /\ proc' = [proc EXCEPT ![r] = "running"]
  /\ Goto(r, "launching")
  /\ UNCHANGED <<queueVars, op, target, clones, sessions, fieldVars, browser,
                 launchVars>>

(* No executable, a spawn error, an early exit or the launch timeout; a    *)
(* child that was spawned is terminated and reaped before the error.       *)
LaunchFails(r) ==
  /\ pc[r] \in {"launch", "launching"}
  /\ proc' = [proc EXCEPT ![r] = "none"]
  /\ launchReady' = FALSE
  /\ Goto(r, "launch_failed")
  /\ UNCHANGED <<queueVars, op, target, clones, sessions, fieldVars, browser,
                 launchError>>

ReportLaunchError(r) ==
  /\ pc[r] = "launch_failed"
  /\ launchError' = TRUE
  /\ Release(r)
  /\ Return(r)
  /\ UNCHANGED <<clones, sessions, entryVars, launchReady>>

LaunchSucceeds(r) ==
  /\ pc[r] = "launching"
  /\ Alive(r)
  /\ launchReady' = TRUE
  /\ Goto(r, "launched")
  /\ UNCHANGED <<queueVars, op, target, clones, sessions, entryVars,
                 launchError>>

(* The new entry owns the browser and the permit, enters the map, and its  *)
(* handle goes to the handler that asked for it.                           *)
PublishSession(r) ==
  /\ pc[r] = "launched"
  /\ launchError' = FALSE
  /\ sessions' = sessions \cup {r}
  /\ state' = [state EXCEPT ![r] = "Ready"]
  /\ browser' = browser \cup {r}
  /\ target' = [target EXCEPT ![r] = r]
  /\ Goto(r, CASE op[r] = "create" -> "respond"
               [] op[r] = "connect_new" -> "upgrade"
               [] OTHER -> "mark")
  /\ UNCHANGED <<queueVars, op, clones, killReason, idle, expired, proc,
                 launchReady>>

----------------------------------------------------------------------------
(* connect_session, mark_in_use *)

(* Mutant: any session that is not being killed may be connected to.       *)
ConnectableTwice(s) == state[s] \in {"Ready", "InUse"}

Connectable(s) == state[s] = "Ready"

(* The entry found in the map may have been removed from it since; its     *)
(* state, read under the write lock, decides.                              *)
ClaimSession(r) ==
  LET s == target[r] IN
  /\ pc[r] = "claim"
  /\ UNCHANGED <<clones, sessions, launchVars>>
  /\ IF Connectable(s)
     THEN /\ state' = [state EXCEPT ![s] = "InUse"]
          /\ Goto(r, "connect_touch")
          /\ UNCHANGED <<queueVars, op, target, killReason, idle, expired,
                         browser, proc>>
     ELSE /\ Return(r)
          /\ DropEntry(s)

(* Unconditional: a session that is being killed becomes InUse again.      *)
MarkInUse(r) ==
  /\ pc[r] = "mark"
  /\ state' = [state EXCEPT ![target[r]] = "InUse"]
  /\ Goto(r, "touch")
  /\ UNCHANGED <<queueVars, op, target, clones, sessions, killReason, idle,
                 expired, browser, proc, launchVars>>

Touch(r) ==
  /\ pc[r] \in {"connect_touch", "touch"}
  /\ idle' = idle \ {target[r]}
  /\ Goto(r, IF pc[r] = "touch" THEN "using" ELSE "upgrade")
  /\ UNCHANGED <<queueVars, op, target, clones, sessions, state, killReason,
                 expired, browser, proc, launchVars>>

----------------------------------------------------------------------------
(* terminate_session, shutdown_entry *)

(* Mutant: any caller that has the id shuts the session down.              *)
TerminableAgain(s) == s \in Entries

(* sessions.remove: only one caller gets the entry.                        *)
Terminable(s) == s \in sessions

(* Mutant: the entry is removed from the map once it is dead.              *)
UnlistLater(s) == UNCHANGED sessions

Unlist(s) == sessions' = sessions \ {s}

TerminateSession(t) ==
  LET s == target[t] IN
  /\ pc[t] = "terminate"
  /\ UNCHANGED <<clones, launchVars>>
  /\ IF Terminable(s)
     THEN /\ Unlist(s)
          /\ Goto(t, "removed")
          /\ UNCHANGED <<queueVars, op, target, entryVars>>
     ELSE /\ UNCHANGED sessions
          /\ Return(t)
          /\ DropEntry(s)

BeginShutdown(t) ==
  LET s == target[t] IN
  /\ pc[t] = "removed"
  /\ state' = [state EXCEPT ![s] = "Killing"]
  /\ killReason' = [killReason EXCEPT ![s] = Reason(t)]
  /\ Goto(t, "take")
  /\ UNCHANGED <<queueVars, op, target, clones, sessions, idle, expired,
                 browser, proc, launchVars>>

TakeBrowser(t) ==
  LET s == target[t] IN
  /\ pc[t] = "take"
  /\ browser' = browser \ {s}
  /\ Goto(t, IF s \in browser THEN "shutting" ELSE "mark_dead")
  /\ UNCHANGED <<queueVars, op, target, clones, sessions, fieldVars, proc,
                 launchVars>>

(* Mutant: shutdown returns after SIGTERM, which a hung browser ignores.   *)
SigtermOnly(t) ==
  /\ pc[t] = "shutting"
  /\ proc' = [proc EXCEPT ![target[t]] = IF @ = "hung" THEN "hung" ELSE "none"]
  /\ Goto(t, "mark_dead")
  /\ UNCHANGED <<queueVars, op, target, clones, sessions, fieldVars, browser,
                 launchVars>>

(* LaunchedBrowser::shutdown: already exited, closed, terminated, or       *)
(* killed after the close and terminate timeouts; reaped in every case.    *)
ShutdownBrowser(t) ==
  /\ pc[t] = "shutting"
  /\ proc' = [proc EXCEPT ![target[t]] = "none"]
  /\ Goto(t, "mark_dead")
  /\ UNCHANGED <<queueVars, op, target, clones, sessions, fieldVars, browser,
                 launchVars>>

MarkDead(t) ==
  /\ pc[t] = "mark_dead"
  /\ state' = [state EXCEPT ![target[t]] = "Dead"]
  /\ Goto(t, "leave")
  /\ UNCHANGED <<queueVars, op, target, clones, sessions, killReason, idle,
                 expired, browser, proc, launchVars>>

(* The task's locals go out of scope, its reference to the entry too.      *)
LeaveSession(t) ==
  LET s == target[t] IN
  /\ pc[t] \in {"respond", "leave"}
  /\ UNCHANGED <<clones, sessions, launchVars>>
  /\ Return(t)
  /\ DropEntry(s)

----------------------------------------------------------------------------
(* list_sessions, get_session *)

(* session_info of one entry, dropped when its sample has been taken, or   *)
(* with the rest of the vector when the request is cancelled.              *)
SessionInfo(r, s) ==
  /\ pc[r] = "listing"
  /\ s \in clones[r]
  /\ clones' = [clones EXCEPT ![r] = @ \ {s}]
  /\ UNCHANGED <<pc, op, target, sessions, launchVars>>
  /\ DropEntry(s)

ListReturns(r) ==
  /\ pc[r] = "listing"
  /\ clones[r] = {}
  /\ Return(r)
  /\ UNCHANGED <<queueVars, clones, sessions, entryVars, launchVars>>

=============================================================================
