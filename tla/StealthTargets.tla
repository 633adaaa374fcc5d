--------------------------- MODULE StealthTargets ---------------------------
(***************************************************************************)
(* One browser whose targets are reached by the proxy of a client and by   *)
(* the stealth controller, each with a connection of its own: both bring   *)
(* the stealth scripts into a page before it runs.                         *)
(*                                                                         *)
(* A session of the client is named after its target.  Chrome attaches the *)
(* client to a target when it is created, and may hold the target for it;  *)
(* or later, if the client asks for it; or not at all.                     *)
(***************************************************************************)
EXTENDS CdpProxy, StealthController

CONSTANT Settings   \* what there is: see Init

ASSUME TargetAssumption ==
  /\ Targets = Sessions /\ PageTargets = Pages
  /\ Settings \subseteq
       [proxied : BOOLEAN, controlled : BOOLEAN, waits : BOOLEAN,
        targets : SUBSET Targets, commands : SUBSET Commands]

VARIABLES setting,
          waited,     \* targets that Chrome has held for the client
          resumed     \* those it has told to go on

clientTargetVars == <<setting, waited, resumed>>
vars == <<cdpVars, stealthVars, clientTargetVars>>

TypeOK ==
  /\ ProxyTypeOK /\ ControllerTypeOK
  /\ setting \in Settings
  /\ waited \subseteq created /\ resumed \subseteq Targets

(* A session that REST endpoints use has no proxy; a controller that       *)
(* cannot connect gives up with a debug message.  The client waits if it   *)
(* auto-attaches with waitForDebuggerOnStart.                              *)
Init ==
  /\ setting \in Settings
  /\ ProxyStart(IF setting.proxied THEN "connect" ELSE "done")
  /\ ControllerStart(IF setting.controlled THEN "connect" ELSE "stopped")
  /\ waited = {} /\ resumed = {}

ProxyStep ==
  /\ \/ Connect \/ ClientHalf \/ BrowserHalf
     \/ ClientReads \/ ClientLeaves \/ Disconnect
     \/ \E c \in setting.commands : ClientSends(c)
  /\ UNCHANGED <<stealthVars, clientTargetVars>>

ControllerStep ==
  /\ \/ ControllerConnects \/ ControllerReceives \/ ControllerAborted
     \/ ExecuteForController
  /\ UNCHANGED <<cdpVars, clientTargetVars>>

TargetCreated(t) ==
  /\ CreateTarget(t)
  /\ \/ Attach(t) /\ waited' = waited \cup IF setting.waits THEN {t} ELSE {}
     \/ UNCHANGED <<cdpVars, waited>>
  /\ UNCHANGED <<setting, resumed>>

ClientAttached(t) ==
  /\ t \in created
  /\ Attach(t)
  /\ UNCHANGED <<stealthVars, clientTargetVars>>

ExecuteForProxy ==
  /\ Execute
  /\ LET c == upstream[executed + 1]
         If(method) == IF c.method = method THEN {c.session} \cap Targets
                       ELSE {}
     IN /\ patched' = patched \cup If("addScript")
        /\ resumed' = resumed \cup If("resume")
  /\ UNCHANGED <<controllerVars, autoAttach, discover, created, held,
                 unguarded, ran, setting, waited>>

TargetRuns(t) ==
  /\ RunTarget(t)
  /\ t \in waited \ resumed => ~Serves
  /\ UNCHANGED <<cdpVars, clientTargetVars>>

(* The session, and its browser, is terminated after its proxy.            *)
BrowserUp == setting.proxied => ~Ended

Next ==
  \/ ProxyStep \/ ControllerStep \/ ExecuteForProxy
  \/ \E t \in setting.targets :
       BrowserUp /\ (TargetCreated(t) \/ ClientAttached(t) \/ TargetRuns(t))

Spec == Init /\ [][Next]_vars

(* As in CdpProxy; and the controller is polled, and Chrome reads its      *)
(* connection.  It need not connect, and targets need not run.             *)
Fairness ==
  /\ WF_vars(ClientHalf /\ UNCHANGED <<stealthVars, clientTargetVars>>)
  /\ WF_vars(BrowserHalf /\ UNCHANGED <<stealthVars, clientTargetVars>>)
  /\ WF_vars(ExecuteForProxy)
  /\ WF_vars(ControllerReceives /\ UNCHANGED <<cdpVars, clientTargetVars>>)
  /\ WF_vars(ExecuteForController /\ UNCHANGED <<cdpVars, clientTargetVars>>)

FairSpec == Spec /\ Fairness

----------------------------------------------------------------------------
(* Properties *)

(* A page runs nothing before the stealth scripts are in it, if it was     *)
(* created after the controller had told Chrome to hold new targets, or if *)
(* the client has Chrome hold it: then it is resumed only after the event  *)
(* that the proxy held back.                                               *)
PatchedBeforeRunning ==
  \A t \in Pages :
    ran[t] = "bare" =>
      /\ t \in unguarded \/ controller = "stopped"
      /\ t \in waited => ~Serves

(* A target that Chrome holds for the controller is not forgotten: the     *)
(* controller runs, and is yet to hear of the target in its own session,   *)
(* or has told Chrome there to let it go on.                               *)
HeldNotForgotten ==
  \A t \in held :
    /\ controller = "loop"
    /\ \/ \E i \in DOMAIN events : events[i] = AttachedTo(t, "auto")
       \/ \E i \in DOMAIN commands :
            commands[i] = InSession("runIfWaitingForDebugger", t, "auto")

(* No target stays paused on behalf of Eiger, page or not.                 *)
TargetsGoOn == held # {} ~> held = {}

=============================================================================
