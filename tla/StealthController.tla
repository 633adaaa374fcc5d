-------------------------- MODULE StealthController --------------------------
(***************************************************************************)
(* run_stealth_controller of eiger-browser, a task with a connection of    *)
(* its own to the browser, next to what Chrome does with targets.          *)
(*                                                                         *)
(* Chrome holds a new target for each connection that auto-attaches with   *)
(* waitForDebuggerOnStart, until the session goes on or is closed.  It     *)
(* attaches to targets that exist already without holding them.  The       *)
(* controller ignores answers, so they are left out.                       *)
(***************************************************************************)
EXTENDS Naturals, Sequences, FiniteSets, SequencesExt

CONSTANTS Targets,      \* targets that may be created
          PageTargets   \* those that are pages or iframes

ASSUME ControllerAssumption ==
  PageTargets \subseteq Targets /\ IsFiniteSet(Targets)

VARIABLES controller,   \* where run_stealth_controller is
          commands,     \* its commands on their way to Chrome
          events,       \* Chrome's events on their way to it
          autoAttach,   \* Target.setAutoAttach has been executed
          discover,     \* Target.setDiscoverTargets has been executed
          created,      \* the targets there are
          held,         \* those held for the controller
          patched,      \* those whose new documents run the scripts first
          unguarded,    \* history: created before autoAttach
          ran           \* how the first document of each target has run

controllerVars == <<controller, commands, events>>
targetVars == <<autoAttach, discover, created, held, patched, unguarded, ran>>
stealthVars == <<controllerVars, targetVars>>

(* A command or event names its target, and the controller's session with  *)
(* it: the one Chrome attached by itself or one that was asked for.        *)
InSession(method, t, session) ==
  [method |-> method, target |-> t, session |-> session]
Created(t) == InSession("targetCreated", t, "none")
AttachedTo(t, session) == InSession("attachedToTarget", t, session)

Attachments == {"none", "auto", "existing", "asked"}

ControllerCommands ==
  [method : {"setAutoAttach", "setDiscoverTargets"}, target : {"none"},
   session : {"none"}]
    \cup [method : {"attachToTarget", "inject", "runIfWaitingForDebugger"},
          target : Targets, session : Attachments]
ControllerEvents ==
  [method : {"targetCreated", "attachedToTarget"}, target : Targets,
   session : Attachments]

ControllerTypeOK ==
  /\ controller \in {"connect", "loop", "stopped"}
  /\ commands \in Seq(ControllerCommands)
  /\ events \in Seq(ControllerEvents)
  /\ autoAttach \in BOOLEAN /\ discover \in BOOLEAN
  /\ created \subseteq Targets /\ held \subseteq created
  /\ patched \subseteq Targets /\ unguarded \subseteq created
  /\ ran \in [Targets -> {"waiting", "bare", "patched"}]

ControllerStart(at) ==
  /\ controller = at /\ commands = <<>> /\ events = <<>>
  /\ autoAttach = FALSE /\ discover = FALSE
  /\ created = {} /\ held = {} /\ patched = {} /\ unguarded = {}
  /\ ran = [t \in Targets |-> "waiting"]

----------------------------------------------------------------------------
(* run_stealth_controller *)

Arm ==
  <<InSession("setAutoAttach", "none", "none"),
    InSession("setDiscoverTargets", "none", "none")>>

ControllerConnects ==
  /\ controller = "connect"
  /\ controller' = "loop"
  /\ commands' = Arm
  /\ UNCHANGED <<events, targetVars>>

(* Mutant: the target goes on while its scripts are on their way.          *)
ResumeFirst(t, session) ==
  <<InSession("runIfWaitingForDebugger", t, session),
    InSession("inject", t, session)>>

(* "inject" stands for Page.enable, addScriptToEvaluateOnNewDocument and   *)
(* Runtime.evaluate, between which nothing else is sent.                   *)
InjectAndResume(t, session) ==
  <<InSession("inject", t, session),
    InSession("runIfWaitingForDebugger", t, session)>>

(* Mutant: what is no page is left alone.                                  *)
IgnoreOthers(t, session) ==
  IF t \in PageTargets THEN InjectAndResume(t, session) ELSE <<>>

Attached(t, session) ==
  IF t \in PageTargets THEN InjectAndResume(t, session)
  ELSE <<InSession("runIfWaitingForDebugger", t, session)>>

(* A page that was discovered is attached to once more.                    *)
Reaction(e) ==
  IF e.method = "attachedToTarget" THEN Attached(e.target, e.session)
  ELSE IF e.target \in PageTargets
    THEN <<InSession("attachToTarget", e.target, "none")>>
  ELSE <<>>

ControllerReceives ==
  /\ controller = "loop"
  /\ events # <<>>
  /\ commands' = commands \o Reaction(Head(events))
  /\ events' = Tail(events)
  /\ UNCHANGED <<controller, targetVars>>

(* shutdown and Drop abort the task; Chrome lets go of what it held.       *)
ControllerAborted ==
  /\ controller # "stopped"
  /\ controller' = "stopped"
  /\ commands' = <<>> /\ events' = <<>>
  /\ held' = {}
  /\ UNCHANGED <<autoAttach, discover, created, patched, unguarded, ran>>

----------------------------------------------------------------------------
(* Chrome *)

Listening == controller # "stopped"

CreateTarget(t) ==
  /\ t \notin created
  /\ created' = created \cup {t}
  /\ IF autoAttach /\ Listening
     THEN held' = held \cup {t} /\ UNCHANGED unguarded
     ELSE unguarded' = unguarded \cup {t} /\ UNCHANGED held
  /\ events' = IF ~Listening THEN events
               ELSE events
                    \o (IF discover THEN <<Created(t)>> ELSE <<>>)
                    \o (IF autoAttach THEN <<AttachedTo(t, "auto")>> ELSE <<>>)
  /\ UNCHANGED <<controller, commands, autoAttach, discover, patched, ran>>

(* Each existing target is reported, in any order.                         *)
ReportExisting(method, session) ==
  \E order \in SetToSeqs(created) :
    events' = events \o [i \in DOMAIN order |->
                           InSession(method, order[i], session)]

ControllerArmed(c) ==
  /\ c.method = "setAutoAttach"
  /\ autoAttach' = TRUE
  /\ ReportExisting("attachedToTarget", "existing")
  /\ UNCHANGED <<discover, held, patched>>

ControllerDiscovers(c) ==
  /\ c.method = "setDiscoverTargets"
  /\ discover' = TRUE
  /\ ReportExisting("targetCreated", "none")
  /\ UNCHANGED <<autoAttach, held, patched>>

ControllerAttaches(c) ==
  /\ c.method = "attachToTarget"
  /\ events' = Append(events, AttachedTo(c.target, "asked"))
  /\ UNCHANGED <<autoAttach, discover, held, patched>>

InTarget(c) ==
  /\ c.method \in {"inject", "runIfWaitingForDebugger"}
  /\ patched' = IF c.method = "inject" THEN patched \cup {c.target}
                ELSE patched
  /\ held' = IF c.method = "runIfWaitingForDebugger" /\ c.session = "auto"
             THEN held \ {c.target} ELSE held
  /\ UNCHANGED <<events, autoAttach, discover>>

ExecuteForController ==
  /\ commands # <<>>
  /\ LET c == Head(commands) IN
       ControllerArmed(c) \/ ControllerDiscovers(c) \/ ControllerAttaches(c)
         \/ InTarget(c)
  /\ commands' = Tail(commands)
  /\ UNCHANGED <<controller, created, unguarded, ran>>

RunTarget(t) ==
  /\ t \in created \ held
  /\ ran[t] = "waiting"
  /\ ran' = [ran EXCEPT ![t] = IF t \in patched THEN "patched" ELSE "bare"]
  /\ UNCHANGED <<controllerVars, autoAttach, discover, created, held, patched,
                 unguarded>>

ControllerNext ==
  \/ ControllerConnects \/ ControllerReceives \/ ControllerAborted
  \/ ExecuteForController
  \/ \E t \in Targets : CreateTarget(t) \/ RunTarget(t)

ControllerFairness ==
  /\ WF_stealthVars(ControllerReceives)
  /\ WF_stealthVars(ExecuteForController)

=============================================================================
