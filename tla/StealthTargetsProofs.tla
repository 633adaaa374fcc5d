------------------------ MODULE StealthTargetsProofs ------------------------
(***************************************************************************)
(* Safety of the proxy and the stealth controller on one browser, for any  *)
(* targets, commands, settings and buffers: what CdpProxyProofs proves of  *)
(* the proxy alone holds here, and a page runs the scripts first.          *)
(***************************************************************************)
EXTENDS StealthTargets, CdpProxyProofs, FiniteSetTheorems

----------------------------------------------------------------------------
(* The steps of the two components *)

LEMMA SettingTypes ==
  ASSUME setting \in Settings
  PROVE  setting.commands \subseteq Commands /\ setting.targets \subseteq Sessions
BY TargetAssumption

(* A step of the browser is one of the proxy and its connections, or       *)
(* leaves them alone.                                                      *)
LEMMA ProxySteps ==
  ASSUME setting \in Settings, [Next]_vars
  PROVE  [ProxyNext]_cdpVars
<1>1. CASE ProxyStep
  BY <1>1, SettingTypes DEF ProxyStep, ProxyNext, Client
<1>2. CASE ControllerStep \/ UNCHANGED vars
  BY <1>2 DEF ControllerStep, vars
<1>3. CASE ExecuteForProxy
  BY <1>3 DEF ExecuteForProxy, ProxyNext
<1>4. ASSUME NEW t \in setting.targets,
             TargetCreated(t) \/ ClientAttached(t) \/ TargetRuns(t)
      PROVE  [ProxyNext]_cdpVars
  BY <1>4, SettingTypes DEF TargetCreated, ClientAttached, TargetRuns, ProxyNext
<1> QED
  BY <1>1, <1>2, <1>3, <1>4 DEF Next

(* It is one of the controller and the targets, or leaves them alone but   *)
(* for scripts that come through the proxy.                                *)
Scripted ==
  /\ ExecuteForProxy
  /\ UNCHANGED <<controllerVars, autoAttach, discover, created, held, unguarded,
                 ran>>
  /\ patched \subseteq patched' /\ patched' \subseteq patched \cup Targets

LEMMA TargetSteps ==
  ASSUME setting \in Settings, [Next]_vars
  PROVE  ControllerNext \/ UNCHANGED stealthVars \/ Scripted
<1>1. CASE ProxyStep \/ UNCHANGED vars
  BY <1>1 DEF ProxyStep, vars
<1>2. CASE ControllerStep
  BY <1>2 DEF ControllerStep, ControllerNext
<1>3. CASE ExecuteForProxy
  <2> DEFINE c == upstream[executed + 1]
  <2>1. patched' = patched \cup (IF c.method = "addScript"
                                 THEN {c.session} \cap Targets ELSE {})
    BY <1>3 DEF ExecuteForProxy
  <2>2. patched \subseteq patched' /\ patched' \subseteq patched \cup Targets
    BY <2>1
  <2> QED
    BY <1>3, <2>2 DEF ExecuteForProxy, Scripted
<1>4. ASSUME NEW t \in setting.targets,
             TargetCreated(t) \/ ClientAttached(t) \/ TargetRuns(t)
      PROVE  ControllerNext \/ UNCHANGED stealthVars
  BY <1>4, SettingTypes, TargetAssumption
  DEF TargetCreated, ClientAttached, TargetRuns, ControllerNext
<1> QED
  BY <1>1, <1>2, <1>3, <1>4 DEF Next

----------------------------------------------------------------------------
(* Types of the controller *)

LEMMA Concatenated ==
  ASSUME NEW S, NEW left \in Seq(S), NEW right \in Seq(S)
  PROVE  /\ left \o right \in Seq(S)
         /\ Len(left \o right) = Len(left) + Len(right)
         /\ \A i \in 1..Len(left) : (left \o right)[i] = left[i]
         /\ \A i \in 1..Len(right) : (left \o right)[Len(left) + i] = right[i]
OBVIOUS

(* The commands of the controller in the session of a target.              *)
LEMMA CommandTypes ==
  ASSUME NEW t \in Targets, NEW s \in Attachments,
         NEW m \in {"attachToTarget", "inject", "runIfWaitingForDebugger"}
  PROVE  InSession(m, t, s) \in ControllerCommands
BY DEF InSession, ControllerCommands

(* What the controller sends in answer to an event.                        *)
LEMMA ReactionTypes ==
  ASSUME NEW e \in ControllerEvents
  PROVE  Reaction(e) \in Seq(ControllerCommands)
<1>1. e.target \in Targets /\ e.session \in Attachments /\ "none" \in Attachments
  BY DEF ControllerEvents, Attachments
<1>2. Attached(e.target, e.session) \in Seq(ControllerCommands)
  <2>1. /\ InSession("inject", e.target, e.session) \in ControllerCommands
        /\ InSession("runIfWaitingForDebugger", e.target, e.session)
             \in ControllerCommands
    BY <1>1, CommandTypes
  <2> QED
    BY <2>1 DEF Attached, InjectAndResume
<1>3. InSession("attachToTarget", e.target, "none") \in ControllerCommands
  BY <1>1, CommandTypes
<1> QED
  BY <1>2, <1>3 DEF Reaction

(* The reports of the targets that exist, in whatever order.               *)
LEMMA ReportTypes ==
  ASSUME created \subseteq Targets, NEW order \in SetToSeqs(created)
  PROVE  \E n \in Nat : DOMAIN order = 1..n /\ \A i \in 1..n : order[i] \in Targets
<1>1. Cardinality(created) \in Nat
  BY ControllerAssumption, FS_Subset, FS_CardinalityType
<1>2. order \in [1..Cardinality(created) -> created]
  BY DEF SetToSeqs
<1> QED
  BY <1>1, <1>2

LEMMA ControllerTypes ==
  ASSUME ControllerTypeOK, setting \in Settings, [Next]_vars
  PROVE  ControllerTypeOK'
<1> USE DEF ControllerTypeOK
<1>2. \A t \in Targets : Created(t) \in ControllerEvents
                         /\ \A s \in Attachments : AttachedTo(t, s) \in ControllerEvents
  BY DEF InSession, Created, AttachedTo, ControllerEvents, Attachments
<1>3. CASE ControllerConnects
  <2>1. Arm \in Seq(ControllerCommands)
    <3>1. /\ InSession("setAutoAttach", "none", "none") \in ControllerCommands
          /\ InSession("setDiscoverTargets", "none", "none") \in ControllerCommands
      BY DEF InSession, ControllerCommands
    <3> QED
      BY <3>1 DEF Arm
  <2> QED
    BY <1>3, <2>1 DEF ControllerConnects, targetVars
<1>4. CASE ControllerReceives
  <2>1. Reaction(Head(events)) \in Seq(ControllerCommands)
    BY <1>4, ReactionTypes DEF ControllerReceives
  <2>2. commands' \in Seq(ControllerCommands) /\ events' \in Seq(ControllerEvents)
    BY <1>4, <2>1 DEF ControllerReceives
  <2> QED
    BY <1>4, <2>2 DEF ControllerReceives, targetVars
<1>5. CASE ControllerAborted
  <2>1. commands' \in Seq(ControllerCommands) /\ events' \in Seq(ControllerEvents)
    BY <1>5 DEF ControllerAborted
  <2> QED
    BY <1>5, <2>1 DEF ControllerAborted
<1>6. CASE ExecuteForController
  <2> DEFINE c == Head(commands)
  <2>1. c \in ControllerCommands /\ commands' \in Seq(ControllerCommands)
    BY <1>6 DEF ExecuteForController
  <2>2. UNCHANGED <<controller, created, unguarded, ran>>
    BY <1>6 DEF ExecuteForController
  <2>3. CASE ControllerArmed(c)
    <3>1. PICK order \in SetToSeqs(created) :
            events' = events \o [i \in DOMAIN order |-> AttachedTo(order[i], "existing")]
      BY <2>3 DEF ControllerArmed, ReportExisting, AttachedTo
    <3>2. [i \in DOMAIN order |-> AttachedTo(order[i], "existing")]
            \in Seq(ControllerEvents)
      <4>1. PICK n \in Nat :
              DOMAIN order = 1..n /\ \A i \in 1..n : order[i] \in Targets
        BY ReportTypes
      <4>2. \A i \in 1..n : AttachedTo(order[i], "existing") \in ControllerEvents
        BY <1>2, <4>1 DEF Attachments
      <4> QED
        BY <4>1, <4>2
    <3>3. events' \in Seq(ControllerEvents)
      BY <3>1, <3>2
    <3> QED
      BY <2>1, <2>2, <2>3, <3>3 DEF ControllerArmed
  <2>4. CASE ControllerDiscovers(c)
    <3>1. PICK order \in SetToSeqs(created) :
            events' = events \o [i \in DOMAIN order |-> Created(order[i])]
      BY <2>4 DEF ControllerDiscovers, ReportExisting, Created
    <3>2. [i \in DOMAIN order |-> Created(order[i])] \in Seq(ControllerEvents)
      <4>1. PICK n \in Nat :
              DOMAIN order = 1..n /\ \A i \in 1..n : order[i] \in Targets
        BY ReportTypes
      <4>2. \A i \in 1..n : Created(order[i]) \in ControllerEvents
        BY <1>2, <4>1
      <4> QED
        BY <4>1, <4>2
    <3>3. events' \in Seq(ControllerEvents)
      BY <3>1, <3>2
    <3> QED
      BY <2>1, <2>2, <2>4, <3>3 DEF ControllerDiscovers
  <2>5. CASE ControllerAttaches(c)
    <3>1. c.target \in Targets
      BY <2>1, <2>5 DEF ControllerAttaches, ControllerCommands
    <3>2. events' \in Seq(ControllerEvents)
      BY <1>2, <2>5, <3>1 DEF ControllerAttaches, Attachments
    <3> QED
      BY <2>1, <2>2, <2>5, <3>2 DEF ControllerAttaches
  <2>6. CASE InTarget(c)
    <3>1. c.target \in Targets
      BY <2>1, <2>6 DEF InTarget, ControllerCommands
    <3>2. patched' \subseteq Targets /\ held' \subseteq created
      BY <2>6, <3>1 DEF InTarget
    <3> QED
      BY <2>1, <2>2, <2>6, <3>2 DEF InTarget
  <2> QED
    BY <1>6, <2>3, <2>4, <2>5, <2>6 DEF ExecuteForController
<1>7. ASSUME NEW t \in Targets, CreateTarget(t)
      PROVE  ControllerTypeOK'
  <2>1. events' \in Seq(ControllerEvents)
    <3>1. /\ <<Created(t)>> \in Seq(ControllerEvents)
          /\ <<AttachedTo(t, "auto")>> \in Seq(ControllerEvents)
          /\ <<>> \in Seq(ControllerEvents)
      BY <1>2 DEF Attachments
    <3>2. /\ (IF discover THEN <<Created(t)>> ELSE <<>>) \in Seq(ControllerEvents)
          /\ (IF autoAttach THEN <<AttachedTo(t, "auto")>> ELSE <<>>)
               \in Seq(ControllerEvents)
      BY <3>1
    <3>3. events \o (IF discover THEN <<Created(t)>> ELSE <<>>)
                 \o (IF autoAttach THEN <<AttachedTo(t, "auto")>> ELSE <<>>)
            \in Seq(ControllerEvents)
      BY <3>2, Concatenated
    <3> QED
      BY <1>7, <3>3 DEF CreateTarget
  <2>2. /\ created' = created \cup {t} /\ held' \subseteq held \cup {t}
        /\ unguarded' \subseteq unguarded \cup {t}
        /\ UNCHANGED <<controller, commands, autoAttach, discover, patched, ran>>
    BY <1>7 DEF CreateTarget
  <2> QED
    BY <2>1, <2>2
<1>9. ASSUME NEW t \in Targets, RunTarget(t)
      PROVE  ControllerTypeOK'
  BY <1>9 DEF RunTarget, controllerVars
<1>8. CASE UNCHANGED stealthVars \/ Scripted
  BY <1>8 DEF stealthVars, controllerVars, targetVars, Scripted
<1> QED
  BY <1>3, <1>4, <1>5, <1>6, <1>7, <1>8, <1>9, TargetSteps
  DEF ControllerNext

----------------------------------------------------------------------------
(* What the controller guards *)

(* On the connection the scripts for a page come before the command that   *)
(* lets it go on.                                                          *)
InjectedAhead(list, i) ==
  \/ list[i].target \in patched
  \/ \E j \in 1..(i - 1) :
       list[j].method = "inject" /\ list[j].target = list[i].target

OrderInv ==
  \A i \in 1..Len(commands) :
    commands[i].method = "runIfWaitingForDebugger"
      /\ commands[i].target \in PageTargets => InjectedAhead(commands, i)

(* A page waits, or has the scripts, or came before the controller.        *)
HeldInv ==
  controller # "stopped" =>
    \A t \in PageTargets \cap created :
      t \in unguarded \/ t \in held \/ t \in patched

BareInv ==
  /\ \A t \in PageTargets :
       ran[t] = "bare" => t \in unguarded \/ controller = "stopped"
  /\ \A t \in Targets : ran[t] # "waiting" => t \in created

GuardInv == ControllerTypeOK /\ OrderInv /\ HeldInv /\ BareInv

(* What the controller sends at once to a page is in order.                *)
LEMMA ReactionOrdered ==
  ASSUME NEW e \in ControllerEvents, NEW i \in 1..Len(Reaction(e)),
         Reaction(e)[i].method = "runIfWaitingForDebugger",
         Reaction(e)[i].target \in PageTargets
  PROVE  \E j \in 1..(i - 1) :
           /\ Reaction(e)[j].method = "inject"
           /\ Reaction(e)[j].target = Reaction(e)[i].target
<1>1. CASE e.method = "attachedToTarget" /\ e.target \in PageTargets
  <2>1. Reaction(e) = <<InSession("inject", e.target, e.session),
                        InSession("runIfWaitingForDebugger", e.target, e.session)>>
    BY <1>1 DEF Reaction, Attached, InjectAndResume
  <2>2. Reaction(e)[1].method = "inject" /\ Reaction(e)[1].target = e.target
        /\ Reaction(e)[2].target = e.target /\ Len(Reaction(e)) = 2
    BY <2>1 DEF InSession
  <2>3. i = 2
    BY <2>2
  <2> QED
    BY <2>2, <2>3
<1>2. CASE e.method = "attachedToTarget" /\ e.target \notin PageTargets
  <2>1. Reaction(e) = <<InSession("runIfWaitingForDebugger", e.target, e.session)>>
    BY <1>2 DEF Reaction, Attached
  <2>2. Reaction(e)[i].target = e.target
    BY <2>1 DEF InSession
  <2> QED
    BY <1>2, <2>2
<1>3. CASE e.method # "attachedToTarget"
  <2>1. \/ Reaction(e) = <<InSession("attachToTarget", e.target, "none")>>
        \/ Reaction(e) = <<>>
    BY <1>3 DEF Reaction
  <2> QED
    BY <2>1 DEF InSession
<1> QED
  BY <1>1, <1>2, <1>3

LEMMA OrderStep ==
  ASSUME GuardInv, setting \in Settings, [Next]_vars
  PROVE  OrderInv'
<1> USE DEF GuardInv, ControllerTypeOK
<1>1. CASE UNCHANGED commands /\ patched \subseteq patched'
  BY <1>1 DEF OrderInv, InjectedAhead
<1>2. CASE ControllerConnects
  <2>1. commands' = Arm
    BY <1>2 DEF ControllerConnects
  <2>2. \A i \in 1..Len(Arm) : Arm[i].method # "runIfWaitingForDebugger"
    BY DEF Arm, InSession
  <2> QED
    BY <2>1, <2>2 DEF OrderInv
<1>3. CASE ControllerReceives
  <2> DEFINE reaction == Reaction(Head(events))
             n == Len(commands)
  <2>1. Head(events) \in ControllerEvents /\ reaction \in Seq(ControllerCommands)
    BY <1>3, ReactionTypes DEF ControllerReceives
  <2>2. commands' = commands \o reaction /\ patched' = patched
    BY <1>3 DEF ControllerReceives, targetVars
  <2> HIDE DEF reaction
  <2>3. /\ n \in Nat /\ Len(reaction) \in Nat /\ Len(commands') = n + Len(reaction)
        /\ \A i \in 1..n : commands'[i] = commands[i]
        /\ \A i \in 1..Len(reaction) : commands'[n + i] = reaction[i]
    BY <2>1, <2>2, Concatenated
  <2> SUFFICES ASSUME NEW i \in 1..Len(commands'),
                      commands'[i].method = "runIfWaitingForDebugger",
                      commands'[i].target \in PageTargets
               PROVE  \/ commands'[i].target \in patched
                      \/ \E j \in 1..(i - 1) :
                           /\ commands'[j].method = "inject"
                           /\ commands'[j].target = commands'[i].target
    BY <2>2 DEF OrderInv, InjectedAhead
  <2>4. CASE i \in 1..n
    <3>1. commands'[i] = commands[i] /\ \A j \in 1..(i - 1) : commands'[j] = commands[j]
      <4>1. \A j \in 1..(i - 1) : j \in 1..n
        BY <2>3, <2>4
      <4> QED
        BY <2>3, <2>4, <4>1
    <3>2. InjectedAhead(commands, i)
      BY <2>4, <3>1 DEF OrderInv
    <3> QED
      BY <3>1, <3>2 DEF InjectedAhead
  <2>5. CASE i \notin 1..n
    <3>1. i - n \in 1..Len(reaction) /\ commands'[i] = reaction[i - n]
      <4>1. i - n \in 1..Len(reaction) /\ n + (i - n) = i
        BY <2>3, <2>5
      <4> QED
        BY <2>3, <4>1
    <3>2. PICK j \in 1..((i - n) - 1) :
            reaction[j].method = "inject"
              /\ reaction[j].target = reaction[i - n].target
      BY <2>1, <3>1, ReactionOrdered DEF reaction
    <3>3. n + j \in 1..(i - 1) /\ j \in 1..Len(reaction)
      <4> HIDE DEF n
      <4> QED
        BY <2>3, <3>1
    <3>4. commands'[n + j] = reaction[j]
      BY <2>3, <3>3
    <3> QED
      BY <3>1, <3>2, <3>3, <3>4
  <2> QED
    BY <2>4, <2>5
<1>4. CASE ControllerAborted
  BY <1>4 DEF ControllerAborted, OrderInv
<1>5. CASE ExecuteForController
  <2> DEFINE n == Len(commands)
  <2>1. /\ n \in Nat /\ n > 0 /\ commands' \in Seq(ControllerCommands)
        /\ Len(commands') = n - 1
        /\ \A i \in 1..(n - 1) : commands'[i] = commands[i + 1]
        /\ Head(commands) = commands[1]
    BY <1>5 DEF ExecuteForController
  <2>2. /\ patched \subseteq patched'
        /\ commands[1].method = "inject" => commands[1].target \in patched'
    BY <1>5, <2>1
    DEF ExecuteForController, ControllerArmed, ControllerDiscovers,
        ControllerAttaches, InTarget
  <2> SUFFICES ASSUME NEW i \in 1..(n - 1),
                      commands[i + 1].method = "runIfWaitingForDebugger",
                      commands[i + 1].target \in PageTargets
               PROVE  \/ commands[i + 1].target \in patched'
                      \/ \E j \in 1..(i - 1) :
                           /\ commands'[j].method = "inject"
                           /\ commands'[j].target = commands[i + 1].target
    BY <2>1 DEF OrderInv, InjectedAhead
  <2>3. CASE commands[i + 1].target \in patched
    BY <2>2, <2>3
  <2>4. CASE commands[i + 1].target \notin patched
    <3>1. PICK j \in 1..i : commands[j].method = "inject"
                              /\ commands[j].target = commands[i + 1].target
      BY <2>1, <2>4 DEF OrderInv, InjectedAhead
    <3>2. CASE j = 1
      BY <2>2, <3>1, <3>2
    <3>3. CASE j # 1
      <4>1. j - 1 \in 1..(i - 1) /\ j - 1 \in 1..(n - 1) /\ (j - 1) + 1 = j
        BY <2>1, <3>1, <3>3
      <4>2. commands'[j - 1] = commands[j]
        BY <2>1, <4>1
      <4> QED
        BY <3>1, <4>1, <4>2
    <3> QED
      BY <3>2, <3>3
  <2> QED
    BY <2>3, <2>4
<1>6. ASSUME NEW t \in Targets, CreateTarget(t) \/ RunTarget(t)
      PROVE  UNCHANGED <<commands, patched>>
  BY <1>6 DEF CreateTarget, RunTarget, controllerVars
<1>7. CASE UNCHANGED stealthVars \/ Scripted
  BY <1>1, <1>7 DEF stealthVars, controllerVars, targetVars, Scripted
<1> QED
  BY <1>1, <1>2, <1>3, <1>4, <1>5, <1>6, <1>7, TargetSteps DEF ControllerNext

(* Pages are let go with the scripts in them, and only then run.           *)
LEMMA GuardStep ==
  ASSUME GuardInv, setting \in Settings, [Next]_vars
  PROVE  GuardInv'
<1> USE DEF GuardInv, ControllerTypeOK, HeldInv, BareInv
<1>1. ControllerTypeOK' /\ OrderInv'
  BY ControllerTypes, OrderStep
<1>2. CASE ControllerConnects \/ ControllerReceives
  <2>1. HeldInv' /\ BareInv'
    BY <1>2 DEF ControllerConnects, ControllerReceives, targetVars
  <2> QED
    BY <1>1, <2>1
<1>3. CASE ControllerAborted
  <2>1. HeldInv' /\ BareInv'
    BY <1>3 DEF ControllerAborted
  <2> QED
    BY <1>1, <2>1
<1>4. CASE ExecuteForController
  <2> DEFINE c == Head(commands)
  <2>1. UNCHANGED <<controller, created, unguarded, ran>>
        /\ patched \subseteq patched'
    BY <1>4 DEF ExecuteForController, ControllerArmed, ControllerDiscovers,
                ControllerAttaches, InTarget
  <2>2. \A t \in held \cap PageTargets : t \in held' \/ t \in patched'
    <3>1. CASE c.method = "runIfWaitingForDebugger" /\ c.target \in PageTargets
      <4>1. 1 \in 1..Len(commands) /\ c = commands[1]
        BY <1>4 DEF ExecuteForController
      <4>2. c.target \in patched
        BY <3>1, <4>1 DEF OrderInv, InjectedAhead
      <4>3. held \ {c.target} \subseteq held'
        BY <1>4 DEF ExecuteForController, ControllerArmed, ControllerDiscovers,
                    ControllerAttaches, InTarget
      <4> QED
        BY <2>1, <4>2, <4>3
    <3>2. CASE ~(c.method = "runIfWaitingForDebugger" /\ c.target \in PageTargets)
      BY <1>4, <3>2
      DEF ExecuteForController, ControllerArmed, ControllerDiscovers,
          ControllerAttaches, InTarget
    <3> QED
      BY <3>1, <3>2
  <2>3. HeldInv' /\ BareInv'
    BY <2>1, <2>2
  <2> QED
    BY <1>1, <2>3
<1>5. ASSUME NEW t \in Targets, CreateTarget(t)
      PROVE  GuardInv'
  <2>1. /\ created' = created \cup {t}
        /\ held \subseteq held' /\ unguarded \subseteq unguarded'
        /\ t \in held' \/ t \in unguarded'
        /\ UNCHANGED <<controller, patched, ran>>
    BY <1>5 DEF CreateTarget
  <2>2. HeldInv' /\ BareInv'
    BY <2>1
  <2> QED
    BY <1>1, <2>2
<1>6. ASSUME NEW t \in Targets, RunTarget(t)
      PROVE  GuardInv'
  <2>1. /\ t \in created \ held
        /\ ran' = [ran EXCEPT ![t] = IF t \in patched THEN "patched" ELSE "bare"]
        /\ UNCHANGED <<controller, created, held, patched, unguarded>>
    BY <1>6 DEF RunTarget, controllerVars
  <2>2. HeldInv'
    BY <2>1
  <2>3. BareInv'
    BY <2>1
  <2> QED
    BY <1>1, <2>2, <2>3
<1>7. CASE UNCHANGED stealthVars \/ Scripted
  <2>1. HeldInv' /\ BareInv'
    BY <1>7 DEF stealthVars, controllerVars, targetVars, Scripted
  <2> QED
    BY <1>1, <2>1
<1> QED
  BY <1>2, <1>3, <1>4, <1>5, <1>6, <1>7, TargetSteps DEF ControllerNext

----------------------------------------------------------------------------
(* What the controller lets go *)

(* Before it has connected Chrome holds nothing for it.                    *)
ReleaseInv ==
  /\ HeldNotForgotten
  /\ controller = "connect" => commands = <<>> /\ ~autoAttach

Attachment(t) == AttachedTo(t, "auto")
Release(t) == InSession("runIfWaitingForDebugger", t, "auto")
Among(list, e) == \E i \in DOMAIN list : list[i] = e

(* What is in one of two sequences is in both together.                    *)
LEMMA InConcatenation ==
  ASSUME NEW S, NEW left \in Seq(S), NEW right \in Seq(S), NEW e
  PROVE  Among(left, e) \/ Among(right, e) => Among(left \o right, e)
<1> DEFINE all == left \o right
<1>1. /\ Len(left) \in Nat /\ Len(right) \in Nat
      /\ DOMAIN left = 1..Len(left) /\ DOMAIN right = 1..Len(right)
      /\ DOMAIN all = 1..(Len(left) + Len(right))
      /\ \A i \in 1..Len(left) : all[i] = left[i]
      /\ \A i \in 1..Len(right) : all[Len(left) + i] = right[i]
  BY Concatenated
<1> HIDE DEF all
<1>2. ASSUME NEW i \in DOMAIN left, left[i] = e
      PROVE  \E k \in DOMAIN all : all[k] = e
  <2>1. i \in DOMAIN all /\ all[i] = left[i]
    BY <1>1
  <2> QED
    BY <1>2, <2>1
<1>3. ASSUME NEW i \in DOMAIN right, right[i] = e
      PROVE  \E k \in DOMAIN all : all[k] = e
  <2>1. Len(left) + i \in DOMAIN all /\ all[Len(left) + i] = right[i]
    BY <1>1
  <2> QED
    BY <1>3, <2>1
<1> QED
  BY <1>2, <1>3 DEF all, Among

(* Whatever is in a sequence is its head or in its tail.                   *)
LEMMA InTail ==
  ASSUME NEW S, NEW list \in Seq(S), list # <<>>, NEW e,
         Among(list, e)
  PROVE  Head(list) = e \/ Among(Tail(list), e)
<1>1. PICK i \in DOMAIN list : list[i] = e
  BY DEF Among
<1>2. CASE i = 1
  BY <1>1, <1>2
<1>3. CASE i # 1
  <2>1. i - 1 \in DOMAIN Tail(list) /\ Tail(list)[i - 1] = list[i]
    BY <1>3
  <2> QED
    BY <1>1, <2>1 DEF Among
<1> QED
  BY <1>2, <1>3

(* The answer to the attachment of a target releases it, page or not.      *)
LEMMA AttachmentAnswered ==
  ASSUME NEW t \in Targets
  PROVE  Among(Reaction(Attachment(t)), Release(t))
<1>1. Reaction(Attachment(t)) = Attached(t, "auto")
  BY DEF Reaction, Attachment, AttachedTo, InSession
<1>2. CASE t \in PageTargets
  <2>1. Attached(t, "auto") = <<InSession("inject", t, "auto"), Release(t)>>
    BY <1>2 DEF Attached, InjectAndResume, Release
  <2>2. 2 \in DOMAIN Attached(t, "auto") /\ Attached(t, "auto")[2] = Release(t)
    BY <2>1
  <2> QED
    BY <1>1, <2>2 DEF Among
<1>3. CASE t \notin PageTargets
  <2>1. Attached(t, "auto") = <<Release(t)>>
    BY <1>3 DEF Attached, Release
  <2>2. 1 \in DOMAIN Attached(t, "auto") /\ Attached(t, "auto")[1] = Release(t)
    BY <2>1
  <2> QED
    BY <1>1, <2>2 DEF Among
<1> QED
  BY <1>2, <1>3

(* Chrome reports only at the end of what it has reported.                 *)
LEMMA EventsKept ==
  ASSUME ControllerTypeOK, NEW t, ExecuteForController,
         Among(events, Attachment(t))
  PROVE  Among(events', Attachment(t))
<1> USE DEF ControllerTypeOK
<1> DEFINE c == Head(commands)
<1>1. ASSUME NEW order \in SetToSeqs(created), NEW m, NEW s,
             events' = events \o [i \in DOMAIN order |-> InSession(m, order[i], s)]
      PROVE  Among(events', Attachment(t))
  <2> DEFINE reports == [i \in DOMAIN order |-> InSession(m, order[i], s)]
             Kinds == ControllerEvents \cup {InSession(m, x, s) : x \in Targets}
  <2>1. events \in Seq(Kinds)
    OBVIOUS
  <2>2. reports \in Seq(Kinds)
    <3>1. PICK n \in Nat :
            DOMAIN order = 1..n /\ \A i \in 1..n : order[i] \in Targets
      BY ReportTypes
    <3>2. \A i \in 1..n : InSession(m, order[i], s) \in Kinds
      BY <3>1
    <3> HIDE DEF Kinds
    <3> QED
      BY <3>1, <3>2
  <2>3. events' = events \o reports
    BY <1>1
  <2> HIDE DEF Kinds, reports
  <2> QED
    BY <2>1, <2>2, <2>3, InConcatenation
<1>2. CASE ControllerArmed(c) \/ ControllerDiscovers(c)
  BY <1>1, <1>2 DEF ControllerArmed, ControllerDiscovers, ReportExisting
<1>3. CASE ControllerAttaches(c)
  <2> DEFINE event == AttachedTo(c.target, "asked")
             Kinds == ControllerEvents \cup {event}
  <2>1. events \in Seq(Kinds) /\ <<event>> \in Seq(Kinds)
    OBVIOUS
  <2>2. events' = events \o <<event>>
    BY <1>3 DEF ControllerAttaches
  <2> HIDE DEF Kinds, event
  <2>3. Among(events \o <<event>>, Attachment(t))
    BY <2>1, InConcatenation
  <2> QED
    BY <2>2, <2>3
<1>4. CASE InTarget(c)
  BY <1>4 DEF InTarget
<1> QED
  BY <1>2, <1>3, <1>4 DEF ExecuteForController

(* A target that is held stays under way to being let go.                  *)
LEMMA ReleaseStep ==
  ASSUME ControllerTypeOK, ReleaseInv, setting \in Settings, [Next]_vars
  PROVE  ReleaseInv'
<1> USE DEF ControllerTypeOK, ReleaseInv
<1> DEFINE OnItsWay(t) ==
             \/ Among(events, Attachment(t))
             \/ Among(commands, Release(t))
           OnItsWayNext(t) ==
             \/ Among(events', Attachment(t))
             \/ Among(commands', Release(t))
<1>1. HeldNotForgotten <=>
        \A t \in held : controller = "loop" /\ OnItsWay(t)
  BY DEF HeldNotForgotten, Among, Attachment, Release
<1>2. ASSUME \A t \in held' : controller' = "loop" /\ OnItsWayNext(t)
      PROVE  HeldNotForgotten'
  BY <1>2 DEF HeldNotForgotten, Among, Attachment, Release
<1>3. CASE ControllerConnects
  <2>1. held' = {} /\ controller' = "loop"
    BY <1>1, <1>3 DEF ControllerConnects, targetVars
  <2> QED
    BY <1>2, <2>1
<1>4. CASE ControllerReceives
  <2> DEFINE e == Head(events)
  <2>1. /\ events # <<>> /\ commands' = commands \o Reaction(e)
        /\ events' = Tail(events) /\ held' = held
        /\ controller = "loop" /\ controller' = "loop"
    BY <1>4 DEF ControllerReceives, targetVars
  <2>2. Reaction(e) \in Seq(ControllerCommands)
    BY <2>1, ReactionTypes
  <2>3. ASSUME NEW t \in held PROVE OnItsWayNext(t)
    <3>1. CASE Among(commands, Release(t))
      <4>1. Among(commands \o Reaction(e), Release(t))
        BY <2>2, <3>1, InConcatenation
      <4> QED
        BY <2>1, <4>1
    <3>2. CASE e = Attachment(t)
      <4>1. Among(Reaction(e), Release(t))
        BY <3>2, AttachmentAnswered
      <4>2. Among(commands \o Reaction(e), Release(t))
        BY <2>2, <4>1, InConcatenation
      <4> QED
        BY <2>1, <4>2
    <3>3. CASE Among(Tail(events), Attachment(t))
      BY <2>1, <3>3
    <3> QED
      BY <1>1, <2>1, <3>1, <3>2, <3>3, InTail
  <2> QED
    BY <1>2, <2>1, <2>3
<1>5. CASE ControllerAborted
  <2>1. held' = {} /\ controller' = "stopped"
    BY <1>5 DEF ControllerAborted
  <2> QED
    BY <1>2, <2>1
<1>6. CASE ExecuteForController
  <2> DEFINE c == Head(commands)
  <2>1. /\ commands # <<>> /\ commands' = Tail(commands)
        /\ controller' = controller /\ controller # "connect"
        /\ held' \subseteq held
        /\ c = Release(c.target) => c.target \notin held'
    BY <1>6
    DEF ExecuteForController, ControllerArmed, ControllerDiscovers,
        ControllerAttaches, InTarget, Release, InSession
  <2>2. ASSUME NEW t \in held' PROVE OnItsWayNext(t)
    <3>1. CASE Among(events, Attachment(t))
      BY <1>6, <3>1, EventsKept
    <3>2. CASE c = Release(t)
      <4>1. c.target = t
        BY <3>2 DEF Release, InSession
      <4> QED
        BY <2>1, <2>2, <3>2, <4>1
    <3>3. CASE Among(Tail(commands), Release(t))
      BY <2>1, <3>3
    <3> QED
      BY <1>1, <2>1, <2>2, <3>1, <3>2, <3>3, InTail
  <2> QED
    BY <1>1, <1>2, <2>1, <2>2
<1>7. ASSUME NEW t \in Targets, CreateTarget(t)
      PROVE  ReleaseInv'
  <2> DEFINE found == IF discover THEN <<Created(t)>> ELSE <<>>
             told == IF autoAttach THEN <<Attachment(t)>> ELSE <<>>
             Kinds == ControllerEvents \cup {Created(t), Attachment(t)}
  <2>1. /\ UNCHANGED <<controller, commands, autoAttach>>
        /\ held' \subseteq held \cup {t}
        /\ ~(autoAttach /\ Listening) => held' = held
        /\ events' = IF Listening THEN events \o found \o told ELSE events
    BY <1>7 DEF CreateTarget, Attachment
  <2>2. /\ events \in Seq(Kinds) /\ found \in Seq(Kinds) /\ told \in Seq(Kinds)
        /\ events \o found \in Seq(Kinds)
    <3>1. /\ events \in Seq(Kinds)
          /\ <<>> \in Seq(Kinds) /\ <<Created(t)>> \in Seq(Kinds)
          /\ <<Attachment(t)>> \in Seq(Kinds)
      <4>1. Created(t) \in Kinds /\ Attachment(t) \in Kinds
        OBVIOUS
      <4>2. ControllerEvents \subseteq Kinds
        OBVIOUS
      <4> HIDE DEF Kinds
      <4> QED
        BY <4>1, <4>2
    <3>2. found \in Seq(Kinds) /\ told \in Seq(Kinds)
      <4> HIDE DEF Kinds
      <4> QED
        BY <3>1
    <3> HIDE DEF found, told, Kinds
    <3> QED
      BY <3>1, <3>2, Concatenated
  <2>3. ASSUME NEW x \in held PROVE OnItsWayNext(x)
    <3>1. CASE Among(commands, Release(x))
      BY <2>1, <3>1
    <3>2. CASE Among(events, Attachment(x))
      <4> HIDE DEF found, told, Kinds
      <4>1. Among(events \o found, Attachment(x))
        BY <2>2, <3>2, InConcatenation
      <4>2. Among(events \o found \o told, Attachment(x))
        BY <2>2, <4>1, InConcatenation
      <4> QED
        BY <2>1, <3>2, <4>2
    <3> QED
      BY <1>1, <3>1, <3>2
  <2>4. CASE autoAttach /\ Listening
    <3>1. controller = "loop"
      BY <2>4 DEF Listening
    <3>2. Among(told, Attachment(t))
      <4>1. told = <<Attachment(t)>>
        BY <2>4
      <4>2. 1 \in DOMAIN told /\ told[1] = Attachment(t)
        BY <4>1
      <4> QED
        BY <4>2 DEF Among
    <3>3. OnItsWayNext(t)
      <4> HIDE DEF found, told, Kinds
      <4>1. Among(events \o found \o told, Attachment(t))
        BY <2>2, <3>2, InConcatenation
      <4> QED
        BY <2>1, <2>4, <4>1
    <3>4. \A x \in held' : controller' = "loop" /\ OnItsWayNext(x)
      <4> HIDE DEF OnItsWayNext
      <4> QED
        BY <2>1, <2>3, <3>1, <3>3
    <3> QED
      BY <1>2, <2>1, <3>1, <3>4
  <2>5. CASE ~(autoAttach /\ Listening)
    <3>1. \A x \in held' : controller' = "loop" /\ OnItsWayNext(x)
      <4> HIDE DEF OnItsWayNext
      <4> QED
        BY <1>1, <2>1, <2>3, <2>5
    <3> QED
      BY <1>2, <2>1, <3>1
  <2> QED
    BY <2>4, <2>5
<1>8. CASE (\E t \in Targets : RunTarget(t)) \/ UNCHANGED stealthVars \/ Scripted
  <2>1. UNCHANGED <<controller, commands, events, held, autoAttach>>
    BY <1>8 DEF RunTarget, Scripted, stealthVars, controllerVars, targetVars
  <2> QED
    BY <1>1, <1>2, <2>1
<1> QED
  BY <1>3, <1>4, <1>5, <1>6, <1>7, <1>8, TargetSteps DEF ControllerNext

----------------------------------------------------------------------------
(* What the proxy guards *)

(* What has been executed has had its effect, and nothing else has.        *)
EffectInv ==
  /\ \A j \in 1..executed :
       upstream[j].method = "addScript" /\ upstream[j].session \in Targets =>
         upstream[j].session \in patched
  /\ resumed \subseteq Targets
  /\ \A t \in resumed :
       \E i \in 1..executed :
         upstream[i].method = "resume" /\ upstream[i].session = t

(* A page that was held for the client has run without the scripts only if *)
(* Chrome let go of the client.                                            *)
WaitedInv ==
  /\ waited \subseteq created
  /\ waited # {} => pc["client"] # "connect"
  /\ \A t \in Pages : ran[t] = "bare" /\ t \in waited => ~Serves

TargetsInv ==
  /\ ProxyInv /\ GuardInv /\ ReleaseInv
  /\ EffectInv /\ WaitedInv /\ setting \in Settings

(* Only the execution of a command changes what has been executed; what    *)
(* Chrome was sent stays.                                                  *)
LEMMA ExecutedKept ==
  ASSUME ControlInv, setting \in Settings, [Next]_vars
  PROVE  /\ \A i \in 1..executed : upstream'[i] = upstream[i]
         /\ ExecuteForProxy \/ UNCHANGED <<executed, resumed>>
<1>1. [ProxyNext]_cdpVars
  BY ProxySteps
<1>2. upstream \in Seq(Commands \cup EigerCommands) /\ executed \in 0..Len(upstream)
  BY DEF ControlInv, ProxyTypeOK
<1>3. \/ upstream' = upstream
      \/ \E c \in Commands \cup EigerCommands : upstream' = Append(upstream, c)
  BY <1>1, WireSteps, UpstreamSteps DEF cdpVars, wireVars
<1>4. \A i \in 1..executed : upstream'[i] = upstream[i]
  <2>1. \A i \in 1..executed : i \in 1..Len(upstream)
    BY <1>2
  <2> QED
    BY <1>2, <1>3, <2>1, Appended
<1>5. ExecuteForProxy \/ UNCHANGED <<executed, resumed>>
  <2>1. ASSUME ProxyStep PROVE UNCHANGED <<executed, resumed>>
    BY <2>1
    DEF ProxyStep, Connect, ClientHalf, BrowserHalf, TakeCommand,
        ReinjectStealth, EndPause, ForwardCommand, SendFails, BeginClose,
        CloseUpstream, HideAnswer, TakeMessage, InjectStealth, InjectionReturns,
        ForwardMessage, UpstreamEnds, SendStealthCommand, ClientReads,
        ClientLeaves, ClientSends, Disconnect, chromeVars, clientTargetVars
  <2> QED
    BY <2>1
    DEF Next, vars, ControllerStep, TargetCreated, ClientAttached, TargetRuns,
        Attach, cdpVars, chromeVars, clientTargetVars
<1> QED
  BY <1>4, <1>5

LEMMA EffectStep ==
  ASSUME TargetsInv, [Next]_vars
  PROVE  EffectInv'
<1> USE DEF TargetsInv
<1>1. ControlInv /\ setting \in Settings
  BY DEF ProxyInv
<1>2. \A i \in 1..executed : upstream'[i] = upstream[i]
  BY <1>1, ExecutedKept
<1>3. patched \subseteq patched'
  BY TargetSteps
  DEF ControllerNext, ControllerConnects, ControllerReceives, ControllerAborted,
      ExecuteForController, ControllerArmed, ControllerDiscovers,
      ControllerAttaches, InTarget, CreateTarget, RunTarget, Scripted,
      stealthVars, targetVars
<1>4. CASE UNCHANGED <<executed, resumed>>
  BY <1>2, <1>3, <1>4 DEF EffectInv
<1>5. CASE ExecuteForProxy
  <2> DEFINE c == upstream[executed + 1]
  <2>1. /\ executed \in Nat /\ executed' = executed + 1 /\ upstream' = upstream
        /\ patched' = patched \cup (IF c.method = "addScript"
                                    THEN {c.session} \cap Targets ELSE {})
        /\ resumed' = resumed \cup (IF c.method = "resume"
                                    THEN {c.session} \cap Targets ELSE {})
    BY <1>1, <1>5 DEF ExecuteForProxy, Execute, ControlInv, ProxyTypeOK
  <2>2. \A j \in 1..executed' : j \in 1..executed \/ j = executed + 1
    BY <2>1
  <2>3. /\ \A j \in 1..executed : j \in 1..executed'
        /\ executed + 1 \in 1..executed'
    BY <2>1
  <2> QED
    BY <2>1, <2>2, <2>3 DEF EffectInv
<1> QED
  BY <1>1, <1>4, <1>5, ExecutedKept

(* A target that the client resumed has the scripts.                       *)
LEMMA ResumedPatched ==
  ASSUME TargetsInv, Stealth, NEW t \in resumed \cap Pages
  PROVE  t \in patched
<1> USE DEF TargetsInv
<1>1. PICK i \in 1..executed :
        upstream[i].method = "resume" /\ upstream[i].session = t
  BY DEF EffectInv
<1>2. /\ upstream \in Seq(Commands \cup EigerCommands)
      /\ executed \in 0..Len(upstream) /\ i \in DOMAIN upstream
  BY <1>1 DEF ProxyInv, ControlInv, ProxyTypeOK
<1>3. upstream[i].from = "client"
  <2>1. upstream[i] \in Commands \cup EigerCommands
    BY <1>2
  <2> QED
    BY <1>1, <2>1, ProxyAssumption DEF EigerCommands
<1>4. PICK j \in 1..(i - 1) : upstream[j].method = Batch[2] /\ upstream[j].session = t
  BY <1>1, <1>2, <1>3, BatchIs, ProxySafety DEF InjectionFirst
<1>5. j \in 1..executed
  BY <1>1, <1>2, <1>4
<1> QED
  BY <1>4, <1>5, BatchIs, TargetAssumption DEF EffectInv

(* Chrome does not come back to a connection that it let go of.            *)
LEMMA ServesNoMore ==
  ASSUME ControlInv, setting \in Settings, [Next]_vars
  PROVE  /\ pc["client"] # "connect" => pc'["client"] # "connect"
         /\ pc["client"] # "connect" /\ ~Serves => ~Serves'
<1>1. [ProxyNext]_cdpVars
  BY ProxySteps
<1>2. CASE UNCHANGED cdpVars
  BY <1>2 DEF cdpVars, proxyVars, chromeVars, Serves, Ended
<1>3. CASE ProxyNext
  <2>1. ~Ended
    BY <1>3, NothingAfterEnd
  <2>2. connected' => connected
    BY <1>3
    DEF ProxyNext, Client, Connect, ClientHalf, BrowserHalf, TakeCommand,
        ReinjectStealth, EndPause, ForwardCommand, SendFails, BeginClose,
        CloseUpstream, HideAnswer, TakeMessage, InjectStealth, InjectionReturns,
        ForwardMessage, UpstreamEnds, SendStealthCommand, ClientReads,
        ClientLeaves, ClientSends, Execute, Attach, Disconnect, chromeVars
  <2>3. pc["client"] # "connect" => pc'["client"] # "connect"
    <3>1. pc \in [Halves -> HalfPCs]
      BY DEF ControlInv, ProxyTypeOK
    <3> QED
      BY <1>3, <3>1
      DEF ProxyNext, Client, Connect, ClientHalf, BrowserHalf, TakeCommand,
          ReinjectStealth, EndPause, ForwardCommand, SendFails, BeginClose,
          CloseUpstream, HideAnswer, TakeMessage, InjectStealth,
          InjectionReturns, ForwardMessage, UpstreamEnds, SendStealthCommand,
          ClientReads, ClientLeaves, ClientSends, Execute, Attach, Disconnect,
          Goto, proxyVars, Halves
  <2> QED
    BY <2>1, <2>2, <2>3 DEF Serves
<1> QED
  BY <1>1, <1>2, <1>3

LEMMA WaitedStep ==
  ASSUME TargetsInv, Stealth, [Next]_vars
  PROVE  WaitedInv'
<1> USE DEF TargetsInv
<1>1. ControlInv /\ setting \in Settings
  BY DEF ProxyInv
<1>2. /\ pc["client"] # "connect" => pc'["client"] # "connect"
      /\ pc["client"] # "connect" /\ ~Serves => ~Serves'
  BY <1>1, ServesNoMore
<1>3. created \subseteq created'
  BY TargetSteps
  DEF ControllerNext, ControllerConnects, ControllerReceives, ControllerAborted,
      ExecuteForController, CreateTarget, RunTarget, Scripted, stealthVars,
      targetVars
<1>4. CASE UNCHANGED <<waited, ran>>
  BY <1>2, <1>3, <1>4 DEF WaitedInv
<1>5. ASSUME NEW t \in setting.targets, TargetCreated(t)
      PROVE  WaitedInv'
  <2>1. /\ t \notin created /\ t \in created' /\ ran' = ran
        /\ waited' \subseteq waited \cup {t}
        /\ waited' = waited \/ pc["client"] # "connect"
    BY <1>5 DEF TargetCreated, CreateTarget, Attach, Serves
  <2>2. t \in Targets /\ ran[t] = "waiting"
    BY <1>1, <2>1, SettingTypes, TargetAssumption DEF GuardInv, BareInv
  <2> QED
    BY <1>2, <1>3, <2>1, <2>2 DEF WaitedInv
<1>6. ASSUME NEW t \in setting.targets, TargetRuns(t)
      PROVE  WaitedInv'
  <2>1. /\ waited' = waited /\ UNCHANGED cdpVars /\ UNCHANGED patched
        /\ ran' = [ran EXCEPT ![t] = IF t \in patched THEN "patched" ELSE "bare"]
        /\ t \in waited \ resumed => ~Serves
    BY <1>6 DEF TargetRuns, RunTarget, clientTargetVars
  <2>2. t \in Targets /\ ran \in [Targets -> {"waiting", "bare", "patched"}]
        /\ Pages \subseteq Targets
    BY <1>1, SettingTypes, TargetAssumption, ControllerAssumption
    DEF GuardInv, ControllerTypeOK
  <2>3. Serves' = Serves
    BY <2>1 DEF cdpVars, proxyVars, chromeVars, Serves, Ended
  <2>4. ASSUME NEW p \in Pages, ran'[p] = "bare", p \in waited
        PROVE  ~Serves
    <3>1. CASE p = t
      BY <2>1, <2>2, <2>4, <3>1, ResumedPatched
    <3>2. CASE p # t
      BY <2>1, <2>2, <2>4, <3>2 DEF WaitedInv
    <3> QED
      BY <3>1, <3>2
  <2> QED
    BY <1>2, <1>3, <2>1, <2>3, <2>4 DEF WaitedInv
<1>7. CASE ProxyStep \/ ControllerStep \/ ExecuteForProxy \/ UNCHANGED vars
           \/ \E t \in setting.targets : ClientAttached(t)
  <2>1. UNCHANGED <<waited, ran>>
    BY <1>7
    DEF ProxyStep, ControllerStep, ExecuteForProxy, ClientAttached, vars,
        ControllerConnects, ControllerReceives, ControllerAborted,
        ExecuteForController, stealthVars, targetVars, clientTargetVars
  <2> QED
    BY <1>4, <2>1
<1> QED
  BY <1>5, <1>6, <1>7 DEF Next

----------------------------------------------------------------------------
(* The theorems *)

LEMMA TargetsInitially == Init => TargetsInv
<1> SUFFICES ASSUME Init PROVE TargetsInv
  OBVIOUS
<1>1. setting \in Settings
  BY DEF Init
<1>2. ProxyInv
  BY ProxyInvInitially DEF Init
<1>3. PICK at \in {"connect", "stopped"} : ControllerStart(at)
  BY DEF Init
<1>4. /\ commands = <<>> /\ Len(commands) = 0
      /\ commands \in Seq(ControllerCommands) /\ events \in Seq(ControllerEvents)
      /\ executed = 0 /\ resumed = {} /\ waited = {}
  BY <1>3 DEF ControllerStart, Init, ProxyStart
<1>5. ControllerTypeOK
  BY <1>3, <1>4 DEF ControllerStart, ControllerTypeOK
<1>6. GuardInv
  BY <1>3, <1>4, <1>5, ControllerAssumption
  DEF ControllerStart, GuardInv, OrderInv, HeldInv, BareInv
<1>7. EffectInv /\ WaitedInv /\ ReleaseInv
  BY <1>3, <1>4
  DEF EffectInv, WaitedInv, ReleaseInv, HeldNotForgotten, ControllerStart
<1> QED
  BY <1>1, <1>2, <1>6, <1>7 DEF TargetsInv

(* The inductive invariant, in every reachable state.                      *)
THEOREM TargetsInvariance ==
  ASSUME Stealth
  PROVE  Spec => []TargetsInv
<1>1. TargetsInv /\ [Next]_vars => TargetsInv'
  <2> SUFFICES ASSUME TargetsInv, [Next]_vars PROVE TargetsInv'
    OBVIOUS
  <2>1. setting \in Settings /\ ProxyInv /\ GuardInv /\ ReleaseInv
    BY DEF TargetsInv
  <2>2. ProxyInv'
    BY <2>1, ProxySteps, ProxyInvStep
  <2>3. GuardInv' /\ ReleaseInv'
    BY <2>1, GuardStep, ReleaseStep DEF GuardInv
  <2>4. EffectInv' /\ WaitedInv'
    BY EffectStep, WaitedStep
  <2>5. setting' = setting
    BY DEF Next, vars, ProxyStep, ControllerStep, ExecuteForProxy, TargetCreated,
           ClientAttached, TargetRuns, clientTargetVars
  <2> QED
    BY <2>1, <2>2, <2>3, <2>4, <2>5 DEF TargetsInv
<1> QED
  BY <1>1, TargetsInitially, PTL DEF Spec

(* What the proxy, the controller and the targets are made of keeps its    *)
(* type.                                                                   *)
THEOREM TargetTypes ==
  ASSUME Stealth
  PROVE  Spec => []TypeOK
<1>1. TargetsInv => TypeOK
  BY ProxySafety DEF TargetsInv, GuardInv, EffectInv, WaitedInv, TypeOK
<1> QED
  BY <1>1, TargetsInvariance, PTL

(* Next to the controller, too, the proxy of proxy_websocket brings the    *)
(* scripts before commands, commands in the order they were sent, and      *)
(* answers to those who asked.                                             *)
THEOREM ProxyBesideController ==
  ASSUME Stealth
  PROVE  Spec => [](InjectionFirst /\ BatchesWhole /\ NavigationReinjected
                      /\ OwnAnswersHidden /\ AnswersKept /\ ForwardedInOrder)
<1>1. TargetsInv => InjectionFirst /\ BatchesWhole /\ NavigationReinjected
                      /\ OwnAnswersHidden /\ AnswersKept /\ ForwardedInOrder
  BY ProxySafety DEF TargetsInv
<1> QED
  BY <1>1, TargetsInvariance, PTL

(* run_stealth_controller has the scripts in a page that Chrome held for   *)
(* it before the page runs, and proxy_websocket in one held for a client.  *)
THEOREM ScriptsBeforePages ==
  ASSUME Stealth
  PROVE  Spec => []PatchedBeforeRunning
<1>1. TargetsInv => PatchedBeforeRunning
  BY TargetAssumption
  DEF TargetsInv, GuardInv, BareInv, WaitedInv, PatchedBeforeRunning
<1> QED
  BY <1>1, TargetsInvariance, PTL

(* run_stealth_controller forgets no target that Chrome holds for it: it   *)
(* lets go in the session of each attachedToTarget, pages or not, and what *)
(* it holds is let go when the task is aborted.                            *)
THEOREM NoTargetForgotten ==
  ASSUME Stealth
  PROVE  Spec => []HeldNotForgotten
<1>1. TargetsInv => HeldNotForgotten
  BY DEF TargetsInv, ReleaseInv
<1> QED
  BY <1>1, TargetsInvariance, PTL

=============================================================================
