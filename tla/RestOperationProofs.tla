------------------------- MODULE RestOperationProofs -------------------------
(***************************************************************************)
(* Theorems about RestOperation, for any operations and event names.       *)
(***************************************************************************)
EXTENDS RestOperation, TLAPS

----------------------------------------------------------------------------
(* Scripts *)

Extras ==
  {"getLayoutMetrics", "setDeviceMetricsOverride",
   "setDefaultBackgroundColorOverride", "evaluateSelector"}

Takes == {"evaluate", "captureScreenshot", "printToPDF"}

Methods ==
  {"createTarget", "attachToTarget", "enable", "setLifecycleEventsEnabled",
   "navigate", "wait"} \cup Extras \cup Takes

(* Where the navigation stands in a script.                                *)
Navigation(op) == IF op.kind = "pdf" THEN 6 ELSE 5

(* Each command whose effect matters stands in one place, what is returned *)
(* is taken at the end, and only wait_for_lifecycle is no command.         *)
Shaped(script, op) ==
  /\ script \in Seq(Methods)
  /\ Len(script) > Navigation(op) + 1
  /\ \A i \in 1..Len(script) :
       /\ script[i] = "createTarget" <=> i = 1
       /\ script[i] = "setLifecycleEventsEnabled" <=> i = 4
       /\ script[i] = "navigate" <=> i = Navigation(op)
       /\ script[i] = "wait" <=> i = Navigation(op) + 1
       /\ script[i] = TakeCommand[op.kind] <=> i = Len(script)

(* What the concatenation of two sequences holds at each place.            *)
LEMMA Joined ==
  ASSUME NEW S, NEW s \in Seq(S), NEW t \in Seq(S)
  PROVE  /\ s \o t \in Seq(S)
         /\ Len(s \o t) = Len(s) + Len(t)
         /\ \A i \in 1..(Len(s) + Len(t)) :
              (s \o t)[i] = IF i <= Len(s) THEN s[i] ELSE t[i - Len(s)]
OBVIOUS

(* The commands up to the wait.                                            *)
Arrival(op) ==
  PreparePageTarget
  \o If(op.kind = "pdf", <<"setDeviceMetricsOverride">>)
  \o NavigatePage

ArrivalShaped(arrive, op) ==
  /\ arrive \in Seq(Methods)
  /\ Len(arrive) = Navigation(op) + 1
  /\ arrive[1] = "createTarget" /\ arrive[2] = "attachToTarget"
  /\ arrive[3] = "enable" /\ arrive[4] = "setLifecycleEventsEnabled"
  /\ op.kind = "pdf" => arrive[5] = "setDeviceMetricsOverride"
  /\ arrive[Navigation(op)] = "navigate"
  /\ arrive[Navigation(op) + 1] = "wait"

(* prepare_page_target and navigate_page send each of their commands once, *)
(* and the navigation stands where Navigation(op) says.                    *)
LEMMA ArrivalShape ==
  ASSUME NEW op
  PROVE  ArrivalShaped(Arrival(op), op)
<1> DEFINE device == If(op.kind = "pdf", <<"setDeviceMetricsOverride">>)
           prepare == PreparePageTarget \o device
           arrive == prepare \o NavigatePage
<1>0. arrive = Arrival(op)
  BY DEF Arrival
<1> HIDE DEF arrive
<1>1. /\ PreparePageTarget \in Seq(Methods) /\ Len(PreparePageTarget) = 4
      /\ PreparePageTarget[1] = "createTarget"
      /\ PreparePageTarget[2] = "attachToTarget"
      /\ PreparePageTarget[3] = "enable"
      /\ PreparePageTarget[4] = "setLifecycleEventsEnabled"
  BY DEF PreparePageTarget, Methods
<1>2. /\ NavigatePage \in Seq(Methods) /\ Len(NavigatePage) = 2
      /\ NavigatePage[1] = "navigate" /\ NavigatePage[2] = "wait"
  BY DEF NavigatePage, Methods
<1>3. /\ device \in Seq(Methods)
      /\ Len(device) = IF op.kind = "pdf" THEN 1 ELSE 0
      /\ op.kind = "pdf" => device[1] = "setDeviceMetricsOverride"
  <2>1. CASE op.kind = "pdf"
    <3>1. device = <<"setDeviceMetricsOverride">>
      BY <2>1 DEF If
    <3> HIDE DEF device
    <3> QED
      BY <2>1, <3>1 DEF Methods, Extras
  <2>2. CASE op.kind # "pdf"
    <3>1. device = <<>>
      BY <2>2 DEF If
    <3> HIDE DEF device
    <3> QED
      BY <2>2, <3>1
  <2> QED
    BY <2>1, <2>2
<1> HIDE DEF device
<1>4. /\ prepare \in Seq(Methods)
      /\ Len(prepare) = Len(PreparePageTarget) + Len(device)
      /\ \A i \in 1..(Len(PreparePageTarget) + Len(device)) :
           prepare[i] = IF i <= Len(PreparePageTarget) THEN PreparePageTarget[i]
                        ELSE device[i - Len(PreparePageTarget)]
  BY <1>1, <1>3, Joined, Zenon
<1> HIDE DEF prepare
<1>5. /\ Len(prepare) \in {4, 5} /\ Len(prepare) + 1 = Navigation(op)
      /\ op.kind = "pdf" <=> Len(prepare) = 5
  BY <1>1, <1>3, <1>4 DEF Navigation
<1>6. /\ arrive \in Seq(Methods)
      /\ Len(arrive) = Len(prepare) + Len(NavigatePage)
      /\ \A i \in 1..(Len(prepare) + Len(NavigatePage)) :
           arrive[i] = IF i <= Len(prepare) THEN prepare[i]
                       ELSE NavigatePage[i - Len(prepare)]
  <2>1. arrive = prepare \o NavigatePage
    BY DEF arrive
  <2>2. prepare \in Seq(Methods) /\ NavigatePage \in Seq(Methods)
    BY <1>2, <1>4
  <2> QED
    BY <2>1, <2>2, Joined
<1>7. Len(arrive) = Navigation(op) + 1
  BY <1>2, <1>5, <1>6
<1>8. \A i \in 1..4 : arrive[i] = PreparePageTarget[i]
  BY <1>1, <1>2, <1>4, <1>5, <1>6
<1>9. op.kind = "pdf" => arrive[5] = device[1]
  BY <1>1, <1>2, <1>3, <1>4, <1>5, <1>6
<1>10. /\ arrive[Navigation(op)] = NavigatePage[1]
       /\ arrive[Navigation(op) + 1] = NavigatePage[2]
  BY <1>2, <1>5, <1>6
<1> QED
  BY <1>0, <1>1, <1>2, <1>3, <1>6, <1>7, <1>8, <1>9, <1>10 DEF ArrivalShaped

(* The commands between the wait and what is returned.                     *)
Preparation(op) ==
  If(op.kind = "screenshot",
     If(op.fullPage, <<"getLayoutMetrics", "setDeviceMetricsOverride">>)
     \o If(op.omitBackground, <<"setDefaultBackgroundColorOverride">>)
     \o If(op.selector, <<"evaluateSelector">>))

(* What a screenshot prepares before it is taken are none of the commands  *)
(* that the properties tell apart.                                         *)
LEMMA PreparationShape ==
  ASSUME NEW op
  PROVE  Preparation(op) \in Seq(Extras)
<1> DEFINE full ==
             If(op.fullPage, <<"getLayoutMetrics", "setDeviceMetricsOverride">>)
           omit ==
             If(op.omitBackground, <<"setDefaultBackgroundColorOverride">>)
           selector == If(op.selector, <<"evaluateSelector">>)
<1>0. /\ <<"getLayoutMetrics", "setDeviceMetricsOverride">> \in Seq(Extras)
      /\ <<"setDefaultBackgroundColorOverride">> \in Seq(Extras)
      /\ <<"evaluateSelector">> \in Seq(Extras)
      /\ <<>> \in Seq(Extras)
  BY DEF Extras
<1>1. full \in Seq(Extras)
  BY <1>0 DEF If
<1>2. omit \in Seq(Extras)
  BY <1>0 DEF If
<1>3. selector \in Seq(Extras)
  BY <1>0 DEF If
<1> HIDE DEF full, omit, selector
<1>4. full \o omit \in Seq(Extras)
  BY <1>1, <1>2, Joined
<1>5. full \o omit \o selector \in Seq(Extras)
  BY <1>3, <1>4, Joined
<1> DEFINE all == full \o omit \o selector
<1>7. If(op.kind = "screenshot", all) \in Seq(Extras)
  <2>1. all \in Seq(Extras)
    BY <1>5
  <2> HIDE DEF all
  <2>2. CASE op.kind = "screenshot"
    BY <2>1, <2>2 DEF If
  <2>3. CASE op.kind # "screenshot"
    BY <1>0, <2>3 DEF If
  <2> QED
    BY <2>2, <2>3
<1> QED
  BY <1>7 DEF Preparation, full, omit, selector

(* The script of every operation: the page is created first, lifecycle     *)
(* events are enabled fourth, the wait follows the navigation, and what is *)
(* taken is taken last.                                                    *)
LEMMA ScriptShape ==
  ASSUME NEW op \in Operations
  PROVE  Shaped(Script(op), op)
<1> DEFINE arrive == Arrival(op)
           extras == Preparation(op)
           last == TakeCommand[op.kind]
           start == arrive \o extras
           script == start \o <<last>>
<1>1. last \in Takes
  <2>1. op.kind \in Kinds
    BY RestAssumption
  <2> QED
    BY <2>1 DEF Kinds, TakeCommand, Takes
<1>2. /\ arrive \in Seq(Methods)
      /\ Len(arrive) = Navigation(op) + 1
      /\ arrive[1] = "createTarget" /\ arrive[2] = "attachToTarget"
      /\ arrive[3] = "enable" /\ arrive[4] = "setLifecycleEventsEnabled"
      /\ op.kind = "pdf" => arrive[5] = "setDeviceMetricsOverride"
      /\ arrive[Navigation(op)] = "navigate"
      /\ arrive[Navigation(op) + 1] = "wait"
  BY ArrivalShape DEF ArrivalShaped
<1>3. extras \in Seq(Extras)
  BY PreparationShape
<1>4. script = Script(op)
  BY DEF Script, Arrival, Preparation
<1> HIDE DEF arrive, extras, last
<1>5. /\ extras \in Seq(Methods) /\ Len(extras) \in Nat
      /\ \A i \in 1..Len(extras) : extras[i] \in Extras
  BY <1>3 DEF Methods
<1>6. /\ start \in Seq(Methods)
      /\ Len(start) = Len(arrive) + Len(extras)
      /\ \A i \in 1..(Len(arrive) + Len(extras)) :
           start[i] = IF i <= Len(arrive) THEN arrive[i]
                      ELSE extras[i - Len(arrive)]
  BY <1>2, <1>5, Joined
<1> HIDE DEF start
<1>7. /\ <<last>> \in Seq(Methods) /\ Len(<<last>>) = 1 /\ <<last>>[1] = last
  BY <1>1 DEF Methods
<1>8. /\ script \in Seq(Methods)
      /\ Len(script) = Len(start) + 1
      /\ \A i \in 1..Len(start) : script[i] = start[i]
      /\ script[Len(script)] = last
  BY <1>6, <1>7, Joined
<1> HIDE DEF script
<1>9. ASSUME NEW i \in 1..Len(script)
      PROVE  /\ script[i] = "createTarget" <=> i = 1
             /\ script[i] = "setLifecycleEventsEnabled" <=> i = 4
             /\ script[i] = "navigate" <=> i = Navigation(op)
             /\ script[i] = "wait" <=> i = Navigation(op) + 1
             /\ script[i] = last <=> i = Len(script)
  <2>1. CASE i <= Len(arrive)
    <3>1. Len(arrive) \in Nat /\ i \in 1..(Len(arrive) + Len(extras))
      BY <1>2, <1>5, <2>1
    <3>2. start[i] = arrive[i]
      BY <1>6, <2>1, <3>1
    <3>3. script[i] = start[i] /\ i # Len(script)
      BY <1>5, <1>6, <1>8, <2>1, <3>1
    <3>4. i \in {1, 2, 3, 4, Navigation(op), Navigation(op) + 1}
            \/ (op.kind = "pdf" /\ i = 5)
      BY <1>2, <2>1 DEF Navigation
    <3> QED
      BY <1>1, <1>2, <3>2, <3>3, <3>4 DEF Navigation, Takes
  <2>2. CASE i > Len(arrive) /\ i # Len(script)
    <3>1. Len(arrive) \in Nat /\ i \in 1..(Len(arrive) + Len(extras))
      BY <1>2, <1>5, <1>6, <1>8, <2>2
    <3>2. script[i] = extras[i - Len(arrive)]
      BY <1>6, <1>8, <2>2, <3>1
    <3>3. i - Len(arrive) \in 1..Len(extras)
      BY <1>5, <2>2, <3>1
    <3>4. script[i] \in Extras
      BY <1>5, <3>2, <3>3
    <3> QED
      BY <1>1, <1>2, <2>2, <3>4 DEF Navigation, Takes, Extras
  <2>3. CASE i = Len(script)
    <3>1. i > Len(arrive)
      BY <1>2, <1>5, <1>6, <1>8, <2>3 DEF Navigation
    <3> QED
      BY <1>1, <1>2, <1>8, <2>3, <3>1 DEF Navigation, Takes
  <2> QED
    BY <1>2, <2>1, <2>2, <2>3 DEF Navigation
<1>10. Len(script) > Navigation(op) + 1
  BY <1>2, <1>5, <1>6, <1>8 DEF Navigation
<1> QED
  BY <1>4, <1>8, <1>9, <1>10 DEF Shaped, last

----------------------------------------------------------------------------
(* The inductive invariant *)

Nav == Navigation(operation)
Command(i) == Script(operation)[i]
Awaited == operation.waitUntil
Last == Len(Script(operation))
Active == pc \notin {"done", "failed"}

Requests == [id : Nat, method : Methods]
Replies == [id : Nat, ok : BOOLEAN, names : SUBSET Names]

(* Waiting is no command, and each command is sent once.                   *)
StepInv ==
  /\ TypeOK /\ nextId <= step + 1
  /\ requests \in Seq(Requests) /\ replies \in Seq(Replies)
  /\ taken \in [document : {"none", "blank", "page"}, reached : SUBSET Names]
  /\ pc = "connect" => step = 1
  /\ pc \in {"connect", "send", "wait"} => nextId <= step
  /\ pc = "answer" => nextId > 1
  /\ pc \in {"send", "answer"} => step # Nav + 1
  /\ pc = "wait" => step = Nav + 1

(* One command is on its way at a time: to Chrome, in Chrome as a          *)
(* navigation, or answered.                                                *)
Eventful == \A i \in 1..Len(replies) : replies[i].id = 0

Asked ==
  /\ requests = <<[id |-> nextId - 1, method |-> Command(step)]>>
  /\ navigating = 0 /\ Eventful

UnderWay ==
  /\ requests = <<>> /\ navigating = nextId - 1 /\ step = Nav
  /\ Eventful

(* What a command has achieved when it is answered.                        *)
Achieved ==
  /\ step = Nav => document = "page"
  /\ step = 4 => reporting
  /\ step = Last =>
       /\ taken.document = "page"
       /\ settled /\ ~framed => Awaited \in taken.reached

AnsweredAt(k) ==
  /\ requests = <<>> /\ navigating = 0
  /\ replies[k].id = nextId - 1
  /\ \A i \in 1..Len(replies) : i # k => replies[i].id = 0
  /\ replies[k].ok => Achieved
  /\ step = 4 /\ settled =>
       \A i \in (k + 1)..Len(replies) : Awaited \notin replies[i].names

Answered == \E k \in 1..Len(replies) : AnsweredAt(k)

CommandInv ==
  /\ pc \in {"connect", "send", "wait"} =>
       requests = <<>> /\ navigating = 0 /\ Eventful
  /\ pc = "answer" => Asked \/ UnderWay \/ Answered
  /\ pc = "done" =>
       /\ taken.document = "page"
       /\ settled /\ ~framed => Awaited \in taken.reached

(* Where the page is.                                                      *)
PageInv ==
  /\ framed => document = "page"
  /\ Active =>
       /\ step > Nav => document = "page"
       /\ step > 4 => reporting
       /\ document = "page" => step > Nav \/ (step = Nav /\ pc = "answer")

(* From the navigation on what the page has reached is seen or reported.   *)
SeenInv ==
  /\ pc = "wait" => Awaited \notin lifecycleEvents
  /\ pc \in {"answer", "wait"} /\ step \in {Nav, Nav + 1} =>
       (document = "page" /\ Awaited \in reached =>
          \/ Awaited \in lifecycleEvents
          \/ \E i \in 1..Len(replies) : Awaited \in replies[i].names)

(* If about:blank had reached the event, and no frame reports it, it is    *)
(* seen from the navigation on only if the page has reached it.            *)
Unseen ==
  /\ Awaited \notin lifecycleEvents
  /\ \A i \in 1..Len(replies) : Awaited \notin replies[i].names

SettledInv ==
  Active /\ settled /\ ~framed =>
    /\ step >= 4
    /\ document # "page" => Awaited \in reached
    /\ step = 4 => pc = "answer" /\ Answered
    /\ 4 < step /\ (step < Nav \/ (step = Nav /\ pc = "send")) =>
         \A i \in 1..Len(replies) : Awaited \notin replies[i].names
    /\ step > Nav \/ (step = Nav /\ pc = "answer") =>
         (document # "page" \/ Awaited \notin reached => Unseen)
    /\ step > Nav + 1 => Awaited \in reached

Inv == StepInv /\ CommandInv /\ PageInv /\ SeenInv /\ SettledInv

----------------------------------------------------------------------------
(* What the steps use *)

(* The same of the operation under way.                                    *)
LEMMA Places ==
  ASSUME operation \in Operations
  PROVE  /\ Nav \in {5, 6} /\ Last \in Nat /\ Last > Nav + 1
         /\ \A i \in 1..Last :
              /\ Command(i) \in Methods
              /\ Command(i) = "createTarget" <=> i = 1
              /\ Command(i) = "setLifecycleEventsEnabled" <=> i = 4
              /\ Command(i) = "navigate" <=> i = Nav
              /\ Command(i) = "wait" <=> i = Nav + 1
              /\ Command(i) = TakeCommand[operation.kind] <=> i = Last
<1>1. Shaped(Script(operation), operation)
  BY ScriptShape
<1> QED
  BY <1>1 DEF Shaped, Nav, Navigation, Command, Last

(* A script stays the same.                                                *)
LEMMA ScriptKept ==
  ASSUME operation' = operation
  PROVE  /\ Nav' = Nav /\ Last' = Last /\ Awaited' = Awaited
         /\ \A i : Command(i)' = Command(i)
BY DEF Nav, Last, Awaited, Command

(* A queue after an element was put into it.                               *)
LEMMA Appended ==
  ASSUME NEW S, NEW s \in Seq(S), NEW e \in S
  PROVE  /\ Append(s, e) \in Seq(S) /\ Len(Append(s, e)) = Len(s) + 1
         /\ \A i \in 1..Len(s) : Append(s, e)[i] = s[i]
         /\ Append(s, e)[Len(s) + 1] = e
OBVIOUS

(* A queue that is not empty, and what is left without its head.           *)
LEMMA Consumed ==
  ASSUME NEW S, NEW s \in Seq(S), s # <<>>
  PROVE  /\ Len(s) > 0 /\ Head(s) = s[1] /\ Head(s) \in S
         /\ Tail(s) \in Seq(S) /\ Len(Tail(s)) = Len(s) - 1
         /\ \A i \in 1..(Len(s) - 1) : Tail(s)[i] = s[i + 1]
OBVIOUS

(* The types that an invariant needs, by position.                         *)
LEMMA Types ==
  ASSUME StepInv
  PROVE  /\ operation \in Operations /\ Awaited \in Names
         /\ pc \in {"connect", "send", "answer", "wait", "done", "failed"}
         /\ step \in 1..Last /\ nextId \in 1..(Last + 1)
         /\ nextId \in Nat /\ step \in Nat /\ Last \in Nat
         /\ lifecycleEvents \subseteq Names
         /\ \A i \in 1..Len(requests) : requests[i].id \in 1..(nextId - 1)
         /\ \A i \in 1..Len(replies) :
              /\ replies[i].id \in 0..(nextId - 1)
              /\ replies[i].ok \in BOOLEAN /\ replies[i].names \subseteq Names
<1>1. TypeOK /\ operation \in Operations
  BY DEF StepInv, TypeOK
<1>2. DOMAIN requests = 1..Len(requests) /\ DOMAIN replies = 1..Len(replies)
  BY DEF StepInv
<1>3. Awaited \in Names
  BY <1>1, RestAssumption DEF Awaited
<1>4. Last \in Nat
  BY <1>1, Places
<1> QED
  BY <1>1, <1>2, <1>3, <1>4 DEF TypeOK, Last

(* And back.                                                               *)
LEMMA TypesBack ==
  ASSUME operation' \in Operations,
         pc' \in {"connect", "send", "answer", "wait", "done", "failed"},
         step' \in 1..Last', nextId' \in 1..(Last' + 1),
         lifecycleEvents' \subseteq Names,
         requests' \in Seq(Requests), replies' \in Seq(Replies),
         \A i \in 1..Len(requests') : requests'[i].id \in 1..(nextId' - 1),
         \A i \in 1..Len(replies') : replies'[i].id \in 0..(nextId' - 1),
         document' \in {"none", "blank", "page"},
         taken' \in [document : {"none", "blank", "page"},
                     reached : SUBSET Names],
         reached' \subseteq Names, frameReached' \subseteq Names,
         open' \in BOOLEAN, framed' \in BOOLEAN, reporting' \in BOOLEAN,
         settled' \in BOOLEAN, navigating' \in 0..(nextId' - 1)
  PROVE  TypeOK'
<1>1. \A m \in {requests'[i] : i \in DOMAIN requests'} :
        m.id \in 1..(nextId' - 1)
  OBVIOUS
<1>2. \A m \in {replies'[i] : i \in DOMAIN replies'} :
        m.id \in 0..(nextId' - 1) /\ m.ok \in BOOLEAN /\ m.names \subseteq Names
  <2>1. \A i \in 1..Len(replies') : replies'[i] \in Replies
    OBVIOUS
  <2> QED
    BY <2>1 DEF Replies
<1> QED
  BY <1>1, <1>2 DEF TypeOK, Last

----------------------------------------------------------------------------
(* Every step keeps the invariant *)

(* The invariant holds before the connection is made.                      *)
LEMMA InvInitially ==
  ASSUME Init PROVE Inv
<1>1. /\ Nav \in {5, 6} /\ Last \in Nat /\ Last > Nav + 1
      /\ operation \in Operations
  BY Places DEF Init
<1>2. TypeOK
  <2>1. /\ \A m \in {requests[i] : i \in DOMAIN requests} : FALSE
        /\ \A m \in {replies[i] : i \in DOMAIN replies} : FALSE
    BY DEF Init
  <2>2. 1 \in 1..Last /\ nextId \in 1..(Last + 1) /\ step = 1
    BY <1>1 DEF Init
  <2>3. /\ taken.document = "none" /\ taken.reached = {}
        /\ {open, framed, reporting, settled} \subseteq BOOLEAN
        /\ navigating \in 0..(nextId - 1)
    <3>1. /\ open = TRUE /\ framed = FALSE /\ reporting = FALSE
          /\ settled = FALSE
      BY DEF Init
    <3>2. nextId = 1 /\ navigating = 0
      BY DEF Init
    <3>3. taken.document = "none" /\ taken.reached = {}
      BY DEF Init
    <3>4. {open, framed, reporting, settled} \subseteq BOOLEAN
      BY <3>1, Zenon
    <3>5. navigating \in 0..(nextId - 1)
      BY <3>2
    <3> QED
      BY <3>3, <3>4, <3>5
  <2>4. /\ step \in 1..Len(Script(operation))
        /\ nextId \in 1..(Len(Script(operation)) + 1)
    BY <2>2 DEF Last
  <2>5. /\ operation \in Operations /\ pc = "connect" /\ document = "none"
        /\ lifecycleEvents = {} /\ reached = {} /\ frameReached = {}
    BY DEF Init
  <2> QED
    BY <2>1, <2>3, <2>4, <2>5 DEF TypeOK
<1>3. StepInv
  BY <1>1, <1>2 DEF Init, StepInv, Requests, Replies
<1>4. CommandInv
  BY DEF Init, CommandInv, Eventful
<1>5. PageInv
  BY <1>1 DEF Init, PageInv
<1>6. SeenInv /\ SettledInv
  BY DEF Init, SeenInv, SettledInv
<1> QED
  BY <1>3, <1>4, <1>5, <1>6 DEF Inv

(* An operation that has failed has nothing left to keep.                  *)
LEMMA EndsInv ==
  ASSUME Inv, Timeout \/ Disconnected
  PROVE  Inv'
<1>1. /\ pc' = "failed" /\ UNCHANGED <<lifecycleEvents, replies>>
      /\ UNCHANGED <<operation, step, nextId, open, requests, pageVars,
                     navigating, taken, settled>>
  BY DEF Timeout, Disconnected, End
<1>2. TypeOK'
  BY <1>1 DEF Inv, StepInv, TypeOK, pageVars
<1>3. StepInv'
  BY <1>1, <1>2, ScriptKept DEF Inv, StepInv, Requests, Replies
<1>4. CommandInv' /\ PageInv' /\ SeenInv' /\ SettledInv'
  BY <1>1, ScriptKept
  DEF Inv, CommandInv, PageInv, SeenInv, SettledInv, Active, pageVars
<1> QED
  BY <1>3, <1>4 DEF Inv

(* Connecting changes nothing but where the handler is.                    *)
LEMMA ConnectInv ==
  ASSUME Inv, Connect
  PROVE  Inv'
<1>1. /\ pc = "connect" /\ pc' = "send"
      /\ UNCHANGED <<operation, step, nextId, lifecycleEvents, open, requests,
                     replies, pageVars, navigating, taken, settled>>
  BY DEF Connect
<1>2. Nav \in {5, 6} /\ step = 1
  BY <1>1, Places, Types DEF Inv, StepInv
<1>3. TypeOK'
  BY <1>1 DEF Inv, StepInv, TypeOK, pageVars
<1>4. StepInv'
  BY <1>1, <1>2, <1>3, ScriptKept DEF Inv, StepInv, Requests, Replies
<1>5. CommandInv'
  BY <1>1 DEF Inv, CommandInv, Eventful
<1>6. PageInv' /\ SeenInv'
  BY <1>1, <1>2, ScriptKept DEF Inv, PageInv, SeenInv, Active, pageVars
<1>7. SettledInv'
  BY <1>1, <1>2, ScriptKept DEF Inv, SettledInv, Active, pageVars
<1> QED
  BY <1>4, <1>5, <1>6, <1>7 DEF Inv

(* The end of the connection leaves what was sent over it to be read.      *)
LEMMA BrowserGoneInv ==
  ASSUME Inv, BrowserGone
  PROVE  Inv'
<1>1. /\ open' = FALSE
      /\ UNCHANGED <<eigerVars, requests, replies, pageVars, navigating, taken,
                     settled>>
  BY DEF BrowserGone
<1>2. TypeOK'
  BY <1>1 DEF Inv, StepInv, TypeOK, pageVars, eigerVars
<1>3. StepInv'
  BY <1>1, <1>2, ScriptKept DEF Inv, StepInv, Requests, Replies, eigerVars
<1>4. /\ Asked' <=> Asked
      /\ UnderWay' <=> UnderWay
      /\ Eventful' <=> Eventful
      /\ Achieved' <=> Achieved
      /\ Unseen' <=> Unseen
  BY <1>1, ScriptKept
  DEF Asked, UnderWay, Eventful, Achieved, Unseen, eigerVars, pageVars
<1>5. Answered' <=> Answered
  BY <1>1, <1>4, ScriptKept DEF Answered, AnsweredAt, eigerVars
<1>6. CommandInv'
  BY <1>1, <1>4, <1>5, ScriptKept DEF Inv, CommandInv, eigerVars, pageVars
<1>7. PageInv' /\ SeenInv'
  BY <1>1, ScriptKept DEF Inv, PageInv, SeenInv, Active, eigerVars, pageVars
<1>8. SettledInv'
  BY <1>1, <1>4, <1>5, ScriptKept
  DEF Inv, SettledInv, Active, eigerVars, pageVars
<1> QED
  BY <1>3, <1>6, <1>7, <1>8 DEF Inv

(* A command is sent when nothing else is on its way; navigate_page        *)
(* forgets the events read so far.                                         *)
LEMMA SendInv ==
  ASSUME Inv, Send
  PROVE  Inv'
<1> DEFINE command == [id |-> nextId, method |-> Command(step)]
<1>1. /\ pc = "send" /\ pc' = "answer"
      /\ lifecycleEvents' = IF Command(step) = "navigate" THEN {}
                            ELSE lifecycleEvents
      /\ requests' = Append(requests, command)
      /\ nextId' = nextId + 1
      /\ UNCHANGED <<operation, step, open, replies, pageVars, navigating,
                     taken, settled>>
  BY DEF Send, EventsAtSend, IdIncremented, Command
<1>2. /\ Nav \in {5, 6} /\ Last \in Nat /\ Last > Nav + 1
      /\ step \in 1..Last /\ step # Nav + 1 /\ nextId <= step
      /\ Command(step) \in Methods
      /\ Command(step) = "navigate" <=> step = Nav
      /\ requests = <<>> /\ navigating = 0 /\ Eventful
      /\ nextId \in Nat /\ nextId >= 1
  BY <1>1, Places, Types DEF Inv, StepInv, CommandInv
<1>3. command \in Requests
  BY <1>2 DEF Requests
<1> HIDE DEF command
<1>4. /\ requests' = <<command>> /\ requests' \in Seq(Requests)
      /\ Len(requests') = 1 /\ requests'[1] = command
  BY <1>1, <1>2, <1>3
<1>5. TypeOK'
  <2>1. \A i \in 1..Len(requests') : requests'[i].id \in 1..(nextId' - 1)
    BY <1>1, <1>2, <1>4 DEF command
  <2>2. \A i \in 1..Len(replies') : replies'[i].id \in 0..(nextId' - 1)
    BY <1>1, <1>2, Types DEF Inv
  <2>3. lifecycleEvents' \subseteq Names /\ nextId' \in 1..(Last' + 1)
    BY <1>1, <1>2, Types, ScriptKept DEF Inv
  <2>4. navigating' \in 0..(nextId' - 1)
    BY <1>1, <1>2
  <2> QED
    BY <1>1, <1>2, <1>4, <2>1, <2>2, <2>3, <2>4, TypesBack, ScriptKept
    DEF Inv, StepInv, TypeOK, pageVars
<1>6. StepInv'
  BY <1>1, <1>2, <1>4, <1>5, ScriptKept DEF Inv, StepInv, Replies
<1>7. Asked'
  BY <1>1, <1>2, <1>4, ScriptKept DEF Asked, Eventful, command
<1>8. CommandInv'
  BY <1>1, <1>7 DEF CommandInv
<1>9. PageInv'
  BY <1>1, <1>2, ScriptKept DEF Inv, PageInv, Active, pageVars
<1>10. SeenInv'
  BY <1>1, <1>2, ScriptKept DEF Inv, SeenInv, PageInv, Active, pageVars
<1>11. SettledInv'
  <2> SUFFICES ASSUME settled, ~framed PROVE SettledInv'
    BY <1>1 DEF SettledInv, pageVars
  <2>1. step > 4 /\ (document # "page" => Awaited \in reached)
    BY <1>1, <1>2 DEF Inv, SettledInv, Active
  <2>2. step < Nav => \A i \in 1..Len(replies') : Awaited \notin replies'[i].names
    BY <1>1, <1>2, <2>1 DEF Inv, SettledInv, Active
  <2>3. step = Nav => Unseen'
    BY <1>1, <1>2, <2>1, ScriptKept DEF Inv, SettledInv, Active, Unseen
  <2>4. step > Nav => (document # "page" \/ Awaited \notin reached => Unseen')
    BY <1>1, <1>2, <2>1, ScriptKept DEF Inv, SettledInv, Active, Unseen
  <2>5. step > Nav + 1 => Awaited \in reached
    BY <1>1, <1>2, <2>1 DEF Inv, SettledInv, Active
  <2> QED
    BY <1>1, <1>2, <2>1, <2>2, <2>3, <2>4, <2>5, ScriptKept
    DEF SettledInv, pageVars
<1> QED
  BY <1>6, <1>8, <1>9, <1>10, <1>11 DEF Inv

(* While Chrome has a navigation to answer.                                *)
LEMMA Navigates ==
  ASSUME Inv, Active, navigating # 0
  PROVE  /\ pc = "answer" /\ UnderWay /\ ~Asked /\ ~Answered
         /\ Nav \in {5, 6} /\ Last \in Nat /\ Last > Nav + 1
         /\ step = Nav /\ nextId \in Nat /\ nextId > 1
<1>1. pc \in {"connect", "send", "answer", "wait"}
  BY Types DEF Inv, Active
<1>2. pc = "answer" /\ UnderWay
  BY <1>1 DEF Inv, CommandInv, Asked, Answered, AnsweredAt
<1> QED
  BY <1>2, Places, Types
  DEF Inv, StepInv, UnderWay, Asked, Answered, AnsweredAt

(* The new document starts with nothing reached, so that about:blank can   *)
(* complete the wait no more.                                              *)
LEMMA CommitInv ==
  ASSUME Inv, Commit
  PROVE  Inv'
<1>1. /\ Active /\ navigating # 0 /\ document = "blank"
      /\ document' = "page" /\ reached' = {}
      /\ framed' \in BOOLEAN /\ frameReached' = {}
      /\ UNCHANGED <<eigerVars, open, requests, replies, reporting, navigating,
                     taken, settled>>
  BY DEF Commit, Serving, Active
<1>2. /\ pc = "answer" /\ UnderWay
      /\ Nav \in {5, 6} /\ Last \in Nat /\ Last > Nav + 1 /\ step = Nav
  BY <1>1, Navigates
<1>3. TypeOK'
  BY <1>1 DEF Inv, StepInv, TypeOK, eigerVars
<1>4. StepInv'
  BY <1>1, <1>3, ScriptKept DEF Inv, StepInv, Requests, Replies, eigerVars
<1>5. CommandInv'
  BY <1>1, <1>2, ScriptKept DEF CommandInv, UnderWay, Eventful, eigerVars
<1>6. PageInv' /\ SeenInv'
  BY <1>1, <1>2, ScriptKept DEF Inv, PageInv, SeenInv, Active, eigerVars
<1>7. SettledInv'
  <2>1. ~framed
    BY <1>1 DEF Inv, PageInv
  <2>2. settled => Unseen
    BY <1>1, <1>2, <2>1 DEF Inv, SettledInv
  <2>3. Unseen' <=> Unseen
    BY <1>1, ScriptKept DEF Unseen, eigerVars
  <2> QED
    BY <1>1, <1>2, <2>1, <2>2, <2>3, ScriptKept
    DEF SettledInv, eigerVars
<1> QED
  BY <1>4, <1>5, <1>6, <1>7 DEF Inv

(* Page.navigate is taken up and not answered yet.                         *)
LEMMA BeginNavigationInv ==
  ASSUME Inv, BeginNavigation
  PROVE  Inv'
<1>1. /\ Active /\ requests # <<>>
      /\ Head(requests).method = "navigate"
      /\ navigating' = Head(requests).id
      /\ requests' = Tail(requests)
      /\ UNCHANGED <<eigerVars, open, replies, pageVars, taken, settled>>
  BY DEF BeginNavigation, Serving, Active
<1>2. pc = "answer" /\ Asked
  <2>1. pc \in {"connect", "send", "answer", "wait"}
    BY <1>1, Types DEF Inv, Active
  <2> QED
    BY <1>1, <2>1 DEF Inv, CommandInv, UnderWay, Answered, AnsweredAt
<1>3. Head(requests) = [id |-> nextId - 1, method |-> Command(step)]
      /\ requests' = <<>>
  BY <1>1, <1>2 DEF Asked
<1>4. /\ Nav \in {5, 6} /\ Last \in Nat /\ Last > Nav + 1 /\ step = Nav
      /\ nextId \in Nat /\ nextId > 1 /\ navigating' = nextId - 1
  BY <1>1, <1>2, <1>3, Places, Types DEF Inv, StepInv
<1>5. TypeOK'
  <2>1. /\ \A i \in 1..Len(requests') : requests'[i].id \in 1..(nextId' - 1)
        /\ requests' \in Seq(Requests)
    BY <1>3
  <2>2. \A i \in 1..Len(replies') : replies'[i].id \in 0..(nextId' - 1)
    BY <1>1, Types DEF Inv, eigerVars
  <2>3. navigating' \in 0..(nextId' - 1)
    BY <1>1, <1>4 DEF eigerVars
  <2> QED
    BY <1>1, <2>1, <2>2, <2>3, TypesBack, Types, ScriptKept
    DEF Inv, StepInv, TypeOK, eigerVars, pageVars
<1>6. StepInv'
  BY <1>1, <1>2, <1>3, <1>4, <1>5, ScriptKept
  DEF Inv, StepInv, Replies, eigerVars
<1>7. UnderWay'
  BY <1>1, <1>2, <1>3, <1>4, ScriptKept
  DEF UnderWay, Asked, Eventful, eigerVars
<1>8. CommandInv'
  BY <1>1, <1>2, <1>7 DEF CommandInv, eigerVars
<1>9. PageInv' /\ SeenInv'
  BY <1>1, ScriptKept DEF Inv, PageInv, SeenInv, Active, eigerVars, pageVars
<1>10. SettledInv'
  <2>1. Unseen' <=> Unseen
    BY <1>1, ScriptKept DEF Unseen, eigerVars
  <2> QED
    BY <1>1, <1>2, <1>4, <2>1, ScriptKept
    DEF Inv, SettledInv, Active, eigerVars, pageVars
<1> QED
  BY <1>6, <1>8, <1>9, <1>10 DEF Inv

(* Page.navigate is answered once the document is there, or with an error. *)
LEMMA AnswerNavigationInv ==
  ASSUME Inv, AnswerNavigation
  PROVE  Inv'
<1> DEFINE answer == Answer(navigating, document = "page")
<1>1. /\ Active /\ navigating # 0 /\ navigating' = 0
      /\ replies' = Append(replies, answer)
      /\ UNCHANGED <<eigerVars, open, requests, pageVars, taken, settled>>
  BY DEF AnswerNavigation, Serving, Active
<1>2. /\ pc = "answer" /\ UnderWay
      /\ Nav \in {5, 6} /\ Last \in Nat /\ Last > Nav + 1 /\ step = Nav
      /\ nextId \in Nat /\ nextId > 1 /\ navigating = nextId - 1
  BY <1>1, Navigates DEF UnderWay
<1>3. /\ answer \in Replies /\ answer.id = nextId - 1 /\ answer.names = {}
      /\ answer.ok <=> document = "page"
  <2>1. navigating \in Nat
    BY <1>2
  <2>2. CASE document = "page"
    <3>1. answer = Answer(navigating, TRUE)
      BY <2>2, Zenon
    <3> HIDE DEF answer
    <3> QED
      BY <1>2, <2>1, <2>2, <3>1 DEF Answer, Replies
  <2>3. CASE document # "page"
    <3>1. answer = Answer(navigating, FALSE)
      BY <2>3, Zenon
    <3> HIDE DEF answer
    <3> QED
      BY <1>2, <2>1, <2>3, <3>1 DEF Answer, Replies
  <2> QED
    BY <2>2, <2>3
<1> HIDE DEF answer
<1>4. /\ replies' \in Seq(Replies) /\ Len(replies') = Len(replies) + 1
      /\ Len(replies) \in Nat
      /\ \A i \in 1..Len(replies) : replies'[i] = replies[i]
      /\ replies'[Len(replies) + 1] = answer
  BY <1>1, <1>3, Appended DEF Inv, StepInv
<1>5. TypeOK'
  <2>1. \A i \in 1..Len(replies') : replies'[i].id \in 0..(nextId' - 1)
    BY <1>1, <1>2, <1>3, <1>4, Types DEF Inv, eigerVars
  <2>2. \A i \in 1..Len(requests') : requests'[i].id \in 1..(nextId' - 1)
    BY <1>1, Types DEF Inv, eigerVars
  <2> QED
    BY <1>1, <1>2, <1>4, <2>1, <2>2, TypesBack, Types, ScriptKept
    DEF Inv, StepInv, TypeOK, eigerVars, pageVars
<1>6. StepInv'
  BY <1>1, <1>4, <1>5, ScriptKept DEF Inv, StepInv, Requests, eigerVars
<1>7. Answered'
  <2>1. PICK k \in Nat : k = Len(replies) + 1
    BY <1>4
  <2>2. replies'[k] = answer /\ k \in 1..Len(replies') /\ k = Len(replies')
    BY <1>4, <2>1
  <2>3. \A i \in 1..Len(replies') : i # k => replies'[i].id = 0
    BY <1>2, <1>4, <2>1 DEF UnderWay, Eventful
  <2>4. replies'[k].ok => Achieved'
    BY <1>1, <1>2, <1>3, <2>2, ScriptKept DEF Achieved, eigerVars, pageVars
  <2>5. AnsweredAt(k)'
    BY <1>1, <1>2, <1>3, <2>2, <2>3, <2>4, ScriptKept
    DEF AnsweredAt, UnderWay, eigerVars
  <2> QED
    BY <2>2, <2>5 DEF Answered
<1>8. CommandInv'
  BY <1>1, <1>2, <1>4, <1>7 DEF CommandInv, Answered, eigerVars
<1>9. PageInv'
  BY <1>1, ScriptKept DEF Inv, PageInv, Active, eigerVars, pageVars
<1>10. SeenInv'
  BY <1>1, <1>2, <1>4, ScriptKept
  DEF Inv, SeenInv, eigerVars, pageVars
<1>11. SettledInv'
  <2>1. Unseen' <=> Unseen
    BY <1>1, <1>3, <1>4, ScriptKept DEF Unseen, eigerVars
  <2> QED
    BY <1>1, <1>2, <2>1, ScriptKept
    DEF Inv, SettledInv, Active, eigerVars, pageVars
<1> QED
  BY <1>6, <1>8, <1>9, <1>10, <1>11 DEF Inv

(* What a frame reaches is reported after what was reported before.        *)
LEMMA ReachesInv ==
  ASSUME Inv, NEW name \in Names,
         MainFrameReaches(name) \/ FrameReaches(name)
  PROVE  Inv'
<1>1. /\ Active
      /\ replies' = IF reporting THEN Append(replies, Event({name})) ELSE replies
      /\ UNCHANGED <<eigerVars, open, requests, document, framed, reporting,
                     navigating, taken, settled>>
      /\ reached \subseteq reached' /\ reached' \subseteq reached \cup {name}
      /\ reached' \subseteq Names /\ frameReached' \subseteq Names
  BY DEF MainFrameReaches, FrameReaches, Report, Serving, Active, Inv, StepInv,
     TypeOK
<1>2. /\ Nav \in {5, 6} /\ Last \in Nat /\ Last > Nav + 1
      /\ step \in Nat /\ nextId \in Nat /\ nextId >= 1
      /\ pc \in {"connect", "send", "answer", "wait"}
  BY <1>1, Places, Types DEF Inv, Active
<1>3. settled /\ ~framed /\ (document # "page" \/ Awaited \notin reached') =>
        name # Awaited
  BY <1>1 DEF Inv, SettledInv, MainFrameReaches, FrameReaches
<1> DEFINE event == Event({name})
<1>4. event \in Replies /\ event.id = 0 /\ event.names = {name}
  BY DEF Event, Replies
<1> HIDE DEF event
<1>5. /\ replies' \in Seq(Replies) /\ Len(replies) \in Nat
      /\ Len(replies') = IF reporting THEN Len(replies) + 1 ELSE Len(replies)
      /\ \A i \in 1..Len(replies) : replies'[i] = replies[i]
      /\ reporting => replies'[Len(replies) + 1] = event
  <2>1. replies' = IF reporting THEN Append(replies, event) ELSE replies
    BY <1>1 DEF event
  <2>2. replies \in Seq(Replies)
    BY DEF Inv, StepInv
  <2> QED
    BY <1>4, <2>1, <2>2, Appended
<1>6. /\ \A i \in 1..Len(replies') :
           i \in 1..Len(replies) \/ replies'[i] = event
      /\ \A i \in 1..Len(replies) : i \in 1..Len(replies')
  BY <1>5
<1>7. TypeOK'
  <2>1. \A i \in 1..Len(replies') : replies'[i].id \in 0..(nextId' - 1)
    BY <1>1, <1>2, <1>4, <1>5, <1>6, Types DEF Inv, eigerVars
  <2>2. \A i \in 1..Len(requests') : requests'[i].id \in 1..(nextId' - 1)
    BY <1>1, Types DEF Inv, eigerVars
  <2> QED
    BY <1>1, <1>5, <2>1, <2>2, TypesBack, Types, ScriptKept
    DEF Inv, StepInv, TypeOK, eigerVars
<1>8. StepInv'
  BY <1>1, <1>5, <1>7, ScriptKept DEF Inv, StepInv, Requests, eigerVars
<1>9. Eventful => Eventful'
  BY <1>4, <1>5, <1>6 DEF Eventful
<1>10. Answered => Answered'
  <2> SUFFICES ASSUME NEW k \in 1..Len(replies), AnsweredAt(k)
               PROVE  Answered'
    BY DEF Answered
  <2>1. k \in 1..Len(replies') /\ replies'[k] = replies[k]
    BY <1>5, <1>6
  <2>2. Achieved => Achieved'
    BY <1>1, ScriptKept DEF Achieved, eigerVars
  <2>3. step = 4 /\ settled => name # Awaited
    BY <1>1, <1>2, <1>3 DEF Inv, PageInv
  <2>4. step = 4 /\ settled =>
          \A i \in (k + 1)..Len(replies') : Awaited \notin replies'[i].names
    BY <1>4, <1>5, <1>6, <2>3 DEF AnsweredAt
  <2>5. \A i \in 1..Len(replies') : i # k => replies'[i].id = 0
    BY <1>4, <1>5, <1>6 DEF AnsweredAt
  <2>6. AnsweredAt(k)'
    BY <1>1, <2>1, <2>2, <2>4, <2>5, ScriptKept DEF AnsweredAt, eigerVars
  <2> QED
    BY <2>1, <2>6 DEF Answered
<1>11. CommandInv'
  BY <1>1, <1>9, <1>10, ScriptKept
  DEF Inv, CommandInv, Asked, UnderWay, Active, eigerVars
<1>12. PageInv'
  BY <1>1, ScriptKept DEF Inv, PageInv, Active, eigerVars
<1>13. SeenInv'
  <2> SUFFICES ASSUME pc \in {"answer", "wait"}, step \in {Nav, Nav + 1},
                      document = "page", Awaited \in reached',
                      Awaited \notin lifecycleEvents
               PROVE  \E i \in 1..Len(replies') : Awaited \in replies'[i].names
    BY <1>1, ScriptKept DEF Inv, SeenInv, eigerVars
  <2>1. reporting
    BY <1>1, <1>2 DEF Inv, PageInv
  <2>2. CASE Awaited \in reached
    BY <1>5, <1>6, <2>2 DEF Inv, SeenInv
  <2>3. CASE Awaited \notin reached
    <3>1. name = Awaited
      BY <1>1, <2>3
    <3>2. Len(replies) + 1 \in 1..Len(replies')
      BY <1>5, <2>1
    <3> QED
      BY <1>4, <1>5, <2>1, <3>1, <3>2
  <2> QED
    BY <2>2, <2>3
<1>14. SettledInv'
  <2> SUFFICES ASSUME settled, ~framed PROVE SettledInv'
    BY <1>1 DEF SettledInv
  <2>1. Unseen /\ name # Awaited => Unseen'
    BY <1>1, <1>4, <1>6, <1>5, ScriptKept DEF Unseen, eigerVars
  <2>2. step < Nav \/ (step = Nav /\ pc = "send") => name # Awaited
    BY <1>1, <1>2, <1>3 DEF Inv, PageInv
  <2>3. 4 < step /\ (step < Nav \/ (step = Nav /\ pc = "send")) =>
          \A i \in 1..Len(replies') : Awaited \notin replies'[i].names
    BY <1>1, <1>4, <1>5, <1>6, <2>2 DEF Inv, SettledInv
  <2>4. step > Nav \/ (step = Nav /\ pc = "answer") =>
          (document # "page" \/ Awaited \notin reached' => Unseen')
    BY <1>1, <1>3, <2>1 DEF Inv, SettledInv
  <2> QED
    BY <1>1, <1>10, <2>3, <2>4, ScriptKept DEF Inv, SettledInv, eigerVars
<1> QED
  BY <1>8, <1>11, <1>12, <1>13, <1>14 DEF Inv

(* What next_json_message does to the events that are seen.                *)
LEMMA Received ==
  ASSUME Inv, Receive
  PROVE  /\ pc \in {"answer", "wait"}
         /\ UNCHANGED <<operation, nextId, open, requests, pageVars, navigating,
                        taken, settled>>
         /\ lifecycleEvents' = lifecycleEvents \cup replies[1].names
         /\ lifecycleEvents' \subseteq Names
         /\ Len(replies) \in Nat /\ Len(replies) > 0
         /\ Len(replies') = Len(replies) - 1 /\ replies' \in Seq(Replies)
         /\ \A i \in 1..(Len(replies) - 1) : replies'[i] = replies[i + 1]
         /\ \A i \in 1..Len(replies') : replies'[i].id \in 0..(nextId - 1)
         /\ Unseen' <=> Unseen
<1>1. /\ replies # <<>>
      /\ lifecycleEvents' = lifecycleEvents \cup Head(replies).names
      /\ pc \in {"answer", "wait"}
      /\ replies' = Tail(replies)
      /\ UNCHANGED <<operation, nextId, open, requests, pageVars, navigating,
                     taken, settled>>
  BY DEF Receive, Record, ReceiveInCommand, ReceiveInWait
<1>2. replies \in Seq(Replies)
  BY DEF Inv, StepInv
<1>3. /\ Len(replies) \in Nat /\ Len(replies) > 0 /\ Head(replies) = replies[1]
      /\ Len(replies') = Len(replies) - 1 /\ replies' \in Seq(Replies)
      /\ \A i \in 1..(Len(replies) - 1) : replies'[i] = replies[i + 1]
  BY <1>1, <1>2, Consumed
<1>4. lifecycleEvents' = lifecycleEvents \cup replies[1].names
  BY <1>1, <1>3
<1>5. /\ replies[1].names \subseteq Names /\ lifecycleEvents \subseteq Names
      /\ \A i \in 1..Len(replies) : replies[i].id \in 0..(nextId - 1)
  BY <1>3, Types DEF Inv
<1>6. \A i \in 1..Len(replies') : replies'[i].id \in 0..(nextId - 1)
  BY <1>3, <1>5
<1>7. ASSUME Unseen PROVE Unseen'
  BY <1>1, <1>3, <1>4, <1>7, ScriptKept DEF Unseen
<1>8. ASSUME Unseen' PROVE Unseen
  <2>1. Awaited \notin lifecycleEvents /\ Awaited \notin replies[1].names
    BY <1>1, <1>4, <1>8, ScriptKept DEF Unseen
  <2>2. ASSUME NEW i \in 1..Len(replies) PROVE Awaited \notin replies[i].names
    <3>1. CASE i = 1
      BY <2>1, <3>1
    <3>2. CASE i # 1
      <4>1. i - 1 \in 1..Len(replies') /\ replies'[i - 1] = replies[i]
        BY <1>3, <3>2
      <4> QED
        BY <1>1, <1>8, <4>1, ScriptKept DEF Unseen
    <3> QED
      BY <3>1, <3>2
  <2> QED
    BY <2>1, <2>2 DEF Unseen
<1> QED
  BY <1>1, <1>3, <1>4, <1>5, <1>6, <1>7, <1>8

(* Types, wherever the operation goes on to.                               *)
LEMMA ReceivedTypes ==
  ASSUME Inv, Receive, step' \in 1..Last,
         pc' \in {"send", "answer", "wait", "done", "failed"}
  PROVE  TypeOK'
<1>1. /\ operation' = operation /\ nextId' = nextId /\ requests' = requests
      /\ UNCHANGED <<open, pageVars, navigating, taken, settled>>
      /\ lifecycleEvents' \subseteq Names /\ replies' \in Seq(Replies)
      /\ \A i \in 1..Len(replies') : replies'[i].id \in 0..(nextId - 1)
  BY Received
<1>2. \A i \in 1..Len(requests') : requests'[i].id \in 1..(nextId' - 1)
  BY <1>1, Types DEF Inv
<1> QED
  BY <1>1, <1>2, TypesBack, Types, ScriptKept
  DEF Inv, StepInv, TypeOK, pageVars

(* An event read before the answer is kept for the wait.                   *)
LEMMA ReceiveEventInv ==
  ASSUME Inv, Receive, pc = "answer", ~AnswersCommand(Head(replies))
  PROVE  Inv'
<1>1. /\ UNCHANGED <<operation, nextId, open, requests, pageVars, navigating,
                     taken, settled>>
      /\ Len(replies) \in Nat /\ Len(replies) > 0
      /\ Len(replies') = Len(replies) - 1 /\ replies' \in Seq(Replies)
      /\ \A i \in 1..(Len(replies) - 1) : replies'[i] = replies[i + 1]
      /\ Unseen' <=> Unseen
      /\ lifecycleEvents \subseteq lifecycleEvents'
  BY Received
<1>2. pc' = pc /\ step' = step
  BY DEF Receive, ReceiveInCommand, ReceiveInWait
<1>3. replies[1].id # nextId - 1
  <2>1. Head(replies) = replies[1]
    BY <1>1, Consumed DEF Inv, StepInv
  <2> QED
    BY <2>1 DEF AnswersCommand
<1>4. TypeOK'
  BY <1>2, ReceivedTypes, Types DEF Inv
<1>5. StepInv'
  BY <1>1, <1>2, <1>4, ScriptKept DEF Inv, StepInv, Requests
<1>6. Eventful => Eventful'
  BY <1>1 DEF Eventful
<1>7. Answered => Answered'
  <2> SUFFICES ASSUME NEW k \in 1..Len(replies), AnsweredAt(k)
               PROVE  Answered'
    BY DEF Answered
  <2>1. k # 1
    BY <1>3 DEF AnsweredAt
  <2>2. PICK j \in 1..Len(replies') : j + 1 = k
    <3>1. k - 1 \in 1..Len(replies') /\ (k - 1) + 1 = k
      BY <1>1, <2>1
    <3> QED
      BY <3>1
  <2>3. replies'[j] = replies[k]
    BY <1>1, <2>2
  <2>4. \A i \in 1..Len(replies') : i # j => replies'[i].id = 0
    BY <1>1, <2>2 DEF AnsweredAt
  <2>5. step = 4 /\ settled =>
          \A i \in (j + 1)..Len(replies') : Awaited \notin replies'[i].names
    BY <1>1, <2>2 DEF AnsweredAt
  <2>6. Achieved => Achieved'
    BY <1>1, <1>2, ScriptKept DEF Achieved, pageVars
  <2>7. AnsweredAt(j)'
    BY <1>1, <1>2, <2>3, <2>4, <2>5, <2>6, ScriptKept DEF AnsweredAt
  <2> QED
    BY <2>7 DEF Answered
<1>8. CommandInv'
  BY <1>1, <1>2, <1>6, <1>7, ScriptKept DEF Inv, CommandInv, Asked, UnderWay
<1>9. PageInv'
  BY <1>1, <1>2, ScriptKept DEF Inv, PageInv, Active, pageVars
<1>10. SeenInv'
  BY <1>1, <1>2, ScriptKept DEF Inv, SeenInv, Unseen, pageVars
<1>11. SettledInv'
  BY <1>1, <1>2, <1>7, ScriptKept DEF Inv, SettledInv, Active, pageVars
<1> QED
  BY <1>5, <1>8, <1>9, <1>10, <1>11 DEF Inv

(* The operation goes on: to its next command, or to the wait.             *)
LEMMA AdvanceInv ==
  ASSUME Inv, Receive, pc' \in {"send", "wait"},
         step' \in 1..Last, nextId <= step', step' > step,
         pc' = "wait" <=> step' = Nav + 1,
         requests = <<>>, navigating = 0, Eventful',
         step' > Nav =>
           /\ document = "page"
           /\ step > Nav \/ (step = Nav /\ pc = "answer"),
         step' = Nav + 1 => step = Nav /\ Awaited \notin lifecycleEvents',
         step' > Nav + 1 => step > Nav + 1 \/ Awaited \in lifecycleEvents',
         step' > 4 => reporting,
         document = "page" => step' > Nav,
         settled /\ ~framed =>
           /\ step' > 4
           /\ step' <= Nav => \A i \in 1..Len(replies') :
                                Awaited \notin replies'[i].names
  PROVE  Inv'
<1>1. /\ pc \in {"answer", "wait"}
      /\ UNCHANGED <<operation, nextId, open, requests, pageVars, navigating,
                     taken, settled>>
      /\ replies' \in Seq(Replies) /\ (Unseen' <=> Unseen)
  BY Received
<1>2. /\ Nav \in {5, 6} /\ Last \in Nat /\ Last > Nav + 1
      /\ step \in Nat /\ nextId \in Nat
  BY Places, Types DEF Inv
<1>3. TypeOK'
  BY ReceivedTypes
<1>4. StepInv'
  <2>1. Nav' = Nav /\ nextId' = nextId /\ step' \in Nat
    BY <1>1, <1>2, ScriptKept
  <2>2. nextId' <= step' + 1 /\ nextId' <= step'
    <3>1. PICK n \in Nat : n = step'
      BY <2>1
    <3>2. nextId <= n
      BY <3>1
    <3>3. nextId <= n + 1
      BY <1>2, <3>2
    <3> QED
      BY <2>1, <3>1, <3>2, <3>3
  <2>3. /\ requests' \in Seq(Requests)
        /\ taken' \in [document : {"none", "blank", "page"},
                      reached : SUBSET Names]
    BY <1>1 DEF Inv, StepInv, Requests
  <2>4. /\ pc' \in {"send", "answer"} => step' # Nav' + 1
        /\ pc' = "wait" => step' = Nav' + 1
    BY <2>1
  <2> QED
    BY <1>1, <1>3, <2>2, <2>3, <2>4 DEF StepInv, Replies
<1>5. CommandInv'
  BY <1>1 DEF CommandInv
<1>6. PageInv'
  BY <1>1, <1>2, ScriptKept DEF Inv, PageInv, Active, pageVars
<1>7. SeenInv'
  BY <1>1, <1>2, ScriptKept DEF Inv, SeenInv, Unseen, pageVars
<1>8. SettledInv'
  <2> SUFFICES ASSUME settled, ~framed PROVE SettledInv'
    BY <1>1 DEF SettledInv, pageVars
  <2>1. Active
    BY <1>1 DEF Active
  <2>2. step' > Nav => (document # "page" \/ Awaited \notin reached => Unseen')
    BY <1>1, <2>1 DEF Inv, SettledInv
  <2>3. step' > Nav + 1 => Awaited \in reached
    <3>1. CASE step > Nav + 1
      BY <2>1, <3>1 DEF Inv, SettledInv
    <3>2. CASE step <= Nav + 1 /\ step' > Nav + 1
      BY <1>1, <1>2, <2>2, <3>2, ScriptKept DEF Unseen
    <3> QED
      BY <1>2, <3>1, <3>2
  <2>4. document # "page" => Awaited \in reached
    BY <2>1 DEF Inv, SettledInv
  <2> QED
    BY <1>1, <1>2, <2>2, <2>3, <2>4, ScriptKept DEF SettledInv, pageVars
<1> QED
  BY <1>4, <1>5, <1>6, <1>7, <1>8 DEF Inv

(* An event read in wait_for_lifecycle ends the wait or is kept.           *)
LEMMA ReceiveInWaitInv ==
  ASSUME Inv, Receive, pc = "wait"
  PROVE  Inv'
<1>1. /\ UNCHANGED <<operation, nextId, open, requests, pageVars, navigating,
                     taken, settled>>
      /\ Len(replies) \in Nat /\ Len(replies) > 0
      /\ Len(replies') = Len(replies) - 1 /\ replies' \in Seq(Replies)
      /\ \A i \in 1..(Len(replies) - 1) : replies'[i] = replies[i + 1]
      /\ Unseen' <=> Unseen
  BY Received
<1>2. /\ Nav \in {5, 6} /\ Last \in Nat /\ Last > Nav + 1
      /\ step = Nav + 1 /\ nextId \in Nat /\ nextId <= step
      /\ requests = <<>> /\ navigating = 0 /\ Eventful
      /\ document = "page" /\ reporting
  BY Places, Types DEF Inv, StepInv, CommandInv, PageInv, Active
<1>3. Eventful'
  BY <1>1, <1>2 DEF Eventful
<1>4. CASE Awaited \in lifecycleEvents'
  <2>1. pc' = "send" /\ step' = step + 1
    BY <1>1, <1>4 DEF Receive, ReceiveInCommand, ReceiveInWait, Awaited
  <2> QED
    BY <1>2, <1>3, <1>4, <2>1, AdvanceInv
<1>5. CASE Awaited \notin lifecycleEvents'
  <2>1. pc' = "wait" /\ step' = step
    BY <1>1, <1>5 DEF Receive, ReceiveInCommand, ReceiveInWait, Awaited
  <2>2. TypeOK'
    BY <1>2, <2>1, ReceivedTypes
  <2>3. StepInv'
    BY <1>1, <2>1, <2>2, ScriptKept DEF Inv, StepInv, Requests
  <2>4. CommandInv'
    BY <1>1, <1>2, <1>3, <2>1 DEF CommandInv
  <2>5. PageInv'
    BY <1>1, <2>1, ScriptKept DEF Inv, PageInv, Active, pageVars
  <2>6. SeenInv'
    BY <1>1, <1>5, <2>1, ScriptKept DEF Inv, SeenInv, Unseen, pageVars
  <2>7. SettledInv'
    BY <1>1, <1>2, <2>1, ScriptKept DEF Inv, SettledInv, Active, pageVars
  <2> QED
    BY <2>3, <2>4, <2>5, <2>6, <2>7 DEF Inv
<1> QED
  BY <1>4, <1>5

(* The answer to the command under way moves the handler on.               *)
LEMMA ReceiveAnswerInv ==
  ASSUME Inv, Receive, pc = "answer", AnswersCommand(Head(replies))
  PROVE  Inv'
<1>1. /\ UNCHANGED <<operation, nextId, open, requests, pageVars, navigating,
                     taken, settled>>
      /\ Len(replies) \in Nat /\ Len(replies) > 0
      /\ Len(replies') = Len(replies) - 1 /\ replies' \in Seq(Replies)
      /\ \A i \in 1..(Len(replies) - 1) : replies'[i] = replies[i + 1]
      /\ lifecycleEvents' = lifecycleEvents \cup replies[1].names
      /\ Unseen' <=> Unseen
  BY Received
<1>2. Head(replies) = replies[1] /\ replies[1].id = nextId - 1
  BY <1>1, Consumed DEF Inv, StepInv, AnswersCommand
<1>3. /\ Nav \in {5, 6} /\ Last \in Nat /\ Last > Nav + 1
      /\ step \in 1..Last /\ step # Nav + 1
      /\ nextId \in Nat /\ nextId > 1 /\ nextId <= step + 1
      /\ replies[1].ok \in BOOLEAN
  BY <1>1, Places, Types DEF Inv, StepInv
<1>4. AnsweredAt(1)
  BY <1>1, <1>2, <1>3
  DEF Inv, CommandInv, Asked, UnderWay, Eventful, Answered, AnsweredAt
<1>5. /\ requests = <<>> /\ navigating = 0 /\ Eventful'
      /\ step = 4 /\ settled =>
           \A i \in 1..Len(replies') : Awaited \notin replies'[i].names
  BY <1>1, <1>4 DEF AnsweredAt, Eventful
<1>6. CASE ~replies[1].ok
  <2>1. pc' = "failed" /\ step' = step
    BY <1>2, <1>6 DEF Receive, ReceiveInCommand, ReceiveInWait
  <2>2. TypeOK'
    BY <1>3, <2>1, ReceivedTypes
  <2>3. StepInv'
    BY <1>1, <2>1, <2>2, ScriptKept DEF Inv, StepInv, Requests
  <2> QED
    BY <1>1, <2>1, <2>3
    DEF Inv, CommandInv, PageInv, SeenInv, SettledInv, Active, pageVars
<1>7. CASE replies[1].ok
  <2>1. Achieved /\ Proceed
    BY <1>2, <1>4, <1>7 DEF AnsweredAt, Receive, ReceiveInCommand, ReceiveInWait
  <2>2. CASE step = Last
    <3>1. pc' = "done" /\ step' = step
      BY <2>1, <2>2 DEF Proceed, Last
    <3>2. TypeOK'
      BY <1>3, <3>1, ReceivedTypes
    <3>3. StepInv'
      BY <1>1, <3>1, <3>2, ScriptKept DEF Inv, StepInv, Requests
    <3>4. CommandInv'
      BY <1>1, <2>1, <2>2, <3>1, ScriptKept DEF CommandInv, Achieved, pageVars
    <3> QED
      BY <1>1, <3>1, <3>3, <3>4
      DEF Inv, PageInv, SeenInv, SettledInv, Active, pageVars
  <2>3. CASE step # Last
    <3>1. /\ step + 1 \in 1..Last
          /\ Command(step + 1) = "wait" <=> step = Nav
      BY <1>3, <2>3, Places, Types DEF Inv
    <3>2. /\ step # Nav => pc' = "send" /\ step' = step + 1
          /\ step = Nav =>
               IF Awaited \notin lifecycleEvents'
               THEN pc' = "wait" /\ step' = step + 1
               ELSE pc' = "send" /\ step' = step + 2
      BY <2>1, <2>3, <3>1 DEF Proceed, Last, Command, Awaited
    <3>3. /\ step = Nav => document = "page"
          /\ step = 4 => reporting
          /\ step > Nav => document = "page"
          /\ step > 4 => reporting
          /\ document = "page" => step >= Nav
      BY <1>3, <2>1 DEF Achieved, Inv, PageInv, Active
    <3>4. settled /\ ~framed =>
            /\ step >= 4
            /\ 4 < step /\ step < Nav =>
                 \A i \in 1..Len(replies) : Awaited \notin replies[i].names
      BY DEF Inv, SettledInv, Active
    <3>5. settled /\ ~framed /\ step < Nav =>
            \A i \in 1..Len(replies') : Awaited \notin replies'[i].names
      BY <1>1, <1>3, <1>5, <3>4
    <3>6. CASE step # Nav
      BY <1>3, <1>5, <3>1, <3>2, <3>3, <3>4, <3>5, <3>6, AdvanceInv
    <3>7. CASE step = Nav
      BY <1>3, <1>5, <3>1, <3>2, <3>3, <3>4, <3>7, AdvanceInv
    <3> QED
      BY <3>6, <3>7
  <2> QED
    BY <2>2, <2>3
<1> QED
  BY <1>3, <1>6, <1>7

(* Reading a message keeps the invariant.                                  *)
LEMMA ReceiveInv ==
  ASSUME Inv, Receive
  PROVE  Inv'
<1>1. pc \in {"answer", "wait"}
  BY Received
<1> QED
  BY <1>1, ReceiveEventInv, ReceiveAnswerInv, ReceiveInWaitInv

(* An empty queue.                                                         *)
LEMMA Emptied ==
  ASSUME NEW S, NEW s, s = <<>>
  PROVE  s \in Seq(S) /\ \A i \in 1..Len(s) : FALSE
OBVIOUS

(* While a command is on its way to Chrome.                                *)
LEMMA Commanded ==
  ASSUME Inv, Active, requests # <<>>
  PROVE  /\ pc = "answer" /\ Asked /\ Eventful /\ navigating = 0 /\ ~Answered
         /\ Head(requests) = [id |-> nextId - 1, method |-> Command(step)]
         /\ Tail(requests) = <<>>
         /\ step \in 1..Last /\ nextId \in Nat /\ nextId > 1
<1>1. pc \in {"connect", "send", "answer", "wait"}
  BY Types DEF Inv, Active
<1>2. pc = "answer" /\ Asked /\ ~Answered
  BY <1>1 DEF Inv, CommandInv, UnderWay, Answered, AnsweredAt
<1> QED
  BY <1>2, Types DEF Inv, StepInv, Asked

(* An answer is appended, after reports or not, and has achieved what it   *)
(* says.                                                                   *)
LEMMA AnswerInv ==
  ASSUME Inv, Active, requests # <<>>, requests' = Tail(requests),
         UNCHANGED <<eigerVars, navigating, framed>>,
         NEW reply \in Replies, reply.id = nextId - 1, reply.names = {},
         NEW k \in Nat, Len(replies') = k, k > Len(replies),
         replies' \in Seq(Replies), replies'[k] = reply,
         \A i \in 1..Len(replies) : replies'[i] = replies[i],
         \A i \in (Len(replies) + 1)..(k - 1) :
           replies'[i].id = 0 /\ replies'[i].names \subseteq Names,
         reply.ok => Achieved'
  PROVE  /\ Answered' /\ CommandInv' /\ requests' \in Seq(Requests)
         /\ \A i \in 1..Len(requests') : FALSE
         /\ \A i \in 1..Len(replies') : replies'[i].id \in 0..(nextId' - 1)
<1>1. /\ pc = "answer" /\ Eventful /\ navigating = 0
      /\ Tail(requests) = <<>> /\ nextId \in Nat /\ nextId > 1
  BY Commanded
<1>2. requests' = <<>> /\ navigating' = 0 /\ nextId' = nextId /\ pc' = "answer"
  BY <1>1 DEF eigerVars
<1>3. \A i \in 1..Len(replies') : i # k => replies'[i].id = 0
  <2> SUFFICES ASSUME NEW i \in 1..Len(replies'), i # k
               PROVE  replies'[i].id = 0
    OBVIOUS
  <2>1. i \in 1..Len(replies) \/ i \in (Len(replies) + 1)..(k - 1)
    <3>1. Len(replies) \in Nat
      BY DEF Inv, StepInv
    <3> QED
      BY <3>1
  <2> QED
    BY <1>1, <2>1 DEF Eventful
<1>4. AnsweredAt(k)'
  <2>1. \A i \in (k + 1)..Len(replies') : FALSE
    OBVIOUS
  <2> QED
    BY <1>2, <1>3, <2>1 DEF AnsweredAt
<1>5. k \in 1..Len(replies')
  <2>1. Len(replies) \in Nat
    BY DEF Inv, StepInv
  <2> QED
    BY <2>1
<1>6. Answered'
  BY <1>4, <1>5 DEF Answered
<1>7. CommandInv'
  BY <1>2, <1>6 DEF CommandInv
<1>8. \A i \in 1..Len(replies') : replies'[i].id \in 0..(nextId' - 1)
  BY <1>1, <1>2, <1>3, <1>5
<1>9. requests' \in Seq(Requests) /\ \A i \in 1..Len(requests') : FALSE
  BY <1>2, Emptied
<1> QED
  BY <1>6, <1>7, <1>8, <1>9

(* A command that is answered with an error has had no effect.             *)
LEMMA ExecuteFailsInv ==
  ASSUME Inv, Active, requests # <<>>, requests' = Tail(requests),
         Head(requests).method # "navigate",
         replies' = Append(replies, Answer(Head(requests).id, FALSE)),
         UNCHANGED <<pageVars, taken, settled, eigerVars, open, navigating>>
  PROVE  Inv'
<1> DEFINE reply == Answer(nextId - 1, FALSE)
<1>1. /\ pc = "answer" /\ Head(requests).id = nextId - 1
      /\ Head(requests).method = Command(step)
      /\ step \in 1..Last /\ nextId \in Nat /\ nextId > 1 /\ ~Answered
  BY Commanded
<1>2. /\ reply \in Replies /\ reply.id = nextId - 1 /\ reply.names = {}
      /\ reply.ok = FALSE
  BY <1>1 DEF Answer, Replies
<1>3. replies' = Append(replies, reply)
  BY <1>1
<1> HIDE DEF reply
<1>4. /\ replies' \in Seq(Replies) /\ Len(replies') = Len(replies) + 1
      /\ Len(replies) \in Nat
      /\ \A i \in 1..Len(replies) : replies'[i] = replies[i]
      /\ replies'[Len(replies) + 1] = reply
  <2>1. replies \in Seq(Replies)
    BY DEF Inv, StepInv
  <2>2. Len(replies) \in Nat
    BY <2>1
  <2>3. /\ Append(replies, reply) \in Seq(Replies)
        /\ Len(Append(replies, reply)) = Len(replies) + 1
        /\ \A i \in 1..Len(replies) : Append(replies, reply)[i] = replies[i]
        /\ Append(replies, reply)[Len(replies) + 1] = reply
    BY <1>2, <2>1, Appended
  <2> QED
    BY <1>3, <2>2, <2>3
<1>5. /\ Answered' /\ CommandInv' /\ requests' \in Seq(Requests)
      /\ \A i \in 1..Len(requests') : FALSE
      /\ \A i \in 1..Len(replies') : replies'[i].id \in 0..(nextId' - 1)
  <2>1. PICK k \in Nat : k = Len(replies) + 1
    BY <1>4
  <2>2. \A i \in (Len(replies) + 1)..(k - 1) : FALSE
    BY <1>4, <2>1
  <2>3. UNCHANGED <<eigerVars, navigating, framed>>
    BY DEF pageVars
  <2>4. Len(replies') = k /\ k > Len(replies)
    BY <1>4, <2>1
  <2>5. replies'[k] = reply /\ ~reply.ok
    BY <1>2, <1>4, <2>1
  <2> QED
    BY <1>2, <1>4, <2>2, <2>3, <2>4, <2>5, AnswerInv
<1>6. TypeOK'
  BY <1>4, <1>5, TypesBack, Types, ScriptKept
  DEF Inv, StepInv, TypeOK, eigerVars, pageVars
<1>7. StepInv'
  BY <1>4, <1>5, <1>6, ScriptKept DEF Inv, StepInv, eigerVars
<1>8. PageInv'
  BY ScriptKept DEF Inv, PageInv, Active, eigerVars, pageVars
<1>9. /\ Nav \in {5, 6} /\ Last \in Nat /\ Last > Nav + 1 /\ step # Nav
  BY <1>1, Places, Types DEF Inv
<1>10. Unseen => Unseen'
  <2> SUFFICES ASSUME Unseen PROVE Unseen'
    OBVIOUS
  <2>1. Awaited' = Awaited /\ lifecycleEvents' = lifecycleEvents
    BY ScriptKept DEF eigerVars
  <2>2. ASSUME NEW i \in 1..Len(replies')
        PROVE  Awaited \notin replies'[i].names
    <3>1. i \in 1..Len(replies) \/ i = Len(replies) + 1
      BY <1>4
    <3> QED
      BY <1>2, <1>4, <3>1 DEF Unseen
  <2> QED
    BY <2>1, <2>2 DEF Unseen
<1>11. SeenInv'
  BY <1>1, <1>9, ScriptKept DEF Inv, SeenInv, StepInv, eigerVars, pageVars
<1>12. SettledInv'
  <2> SUFFICES ASSUME settled, ~framed PROVE SettledInv'
    BY DEF SettledInv, pageVars
  <2>1. /\ step >= 4 /\ (document # "page" => Awaited \in reached)
        /\ step > Nav + 1 => Awaited \in reached
        /\ 4 < step /\ step < Nav =>
             \A i \in 1..Len(replies) : Awaited \notin replies[i].names
        /\ step > Nav => (document # "page" \/ Awaited \notin reached => Unseen)
    BY DEF Inv, SettledInv
  <2>2. ASSUME 4 < step, step < Nav, NEW i \in 1..Len(replies')
        PROVE  Awaited \notin replies'[i].names
    <3>1. i \in 1..Len(replies) \/ i = Len(replies) + 1
      BY <1>4
    <3> QED
      BY <1>2, <1>4, <2>1, <2>2, <3>1
  <2>3. /\ UNCHANGED <<step, pc, document, reached>>
        /\ Nav' = Nav /\ Awaited' = Awaited
    BY ScriptKept DEF eigerVars, pageVars
  <2> QED
    BY <1>1, <1>5, <1>9, <1>10, <2>1, <2>2, <2>3 DEF SettledInv
<1> QED
  BY <1>5, <1>7, <1>8, <1>11, <1>12 DEF Inv

(* What a command does to the page, by its place in the script.            *)
LEMMA EffectOf ==
  ASSUME Inv, Active, requests # <<>>, operation' = operation,
         Head(requests).method # "navigate", Effect(Head(requests).method)
  PROVE  /\ Nav \in {5, 6} /\ Last \in Nat /\ Last > Nav + 1
         /\ step \in 1..Last /\ step # Nav /\ step # Nav + 1
         /\ UNCHANGED <<reached, framed, frameReached>>
         /\ document' = IF step = 1 THEN "blank" ELSE document
         /\ step # 4 => UNCHANGED <<reporting, settled>>
         /\ step = 4 => reporting' /\ (settled' <=> Awaited \in reached)
         /\ settled' \in BOOLEAN /\ reporting' \in BOOLEAN
         /\ step = Last =>
              taken' = [document |-> document, reached |-> reached]
         /\ step # Last => taken' = taken
<1>1. /\ pc = "answer" /\ Head(requests).method = Command(step)
      /\ step \in 1..Last
  BY Commanded
<1>2. /\ Nav \in {5, 6} /\ Last \in Nat /\ Last > Nav + 1
      /\ Command(step) = "createTarget" <=> step = 1
      /\ Command(step) = "setLifecycleEventsEnabled" <=> step = 4
      /\ Command(step) = "navigate" <=> step = Nav
      /\ Command(step) = TakeCommand[operation.kind] <=> step = Last
  BY <1>1, Places, Types DEF Inv
<1>3. step # Nav /\ step # Nav + 1
  BY <1>1, <1>2 DEF Inv, StepInv
<1>4. Effect(Command(step))
  BY <1>1
<1>5. /\ UNCHANGED <<reached, framed, frameReached>>
      /\ document' = IF step = 1 THEN "blank" ELSE document
  BY <1>2, <1>4 DEF Effect
<1>6. /\ step = Last => taken' = [document |-> document, reached |-> reached]
      /\ step # Last => taken' = taken
  BY <1>2, <1>4 DEF Effect
<1>7. ASSUME step # 4 PROVE UNCHANGED <<reporting, settled>>
  <2>1. Command(step) # "setLifecycleEventsEnabled"
    BY <1>2, <1>7
  <2>2. settled' = settled
    BY <1>4, <2>1 DEF Effect
  <2>3. reporting' = (reporting \/ Command(step) = "setLifecycleEventsEnabled")
    BY <1>4 DEF Effect
  <2>4. reporting \in BOOLEAN
    BY DEF Inv, StepInv, TypeOK
  <2> QED
    BY <2>1, <2>2, <2>3, <2>4
<1>8. ASSUME step = 4 PROVE reporting' /\ (settled' <=> Awaited \in reached)
  BY <1>2, <1>4, <1>8 DEF Effect, Awaited
<1>9. settled' \in BOOLEAN /\ reporting' \in BOOLEAN
  <2>1. settled \in BOOLEAN
    BY DEF Inv, StepInv, TypeOK
  <2>2. reporting' \in BOOLEAN
    BY <1>4, Zenon DEF Effect
  <2>3. settled' = IF Command(step) = "setLifecycleEventsEnabled"
                   THEN operation.waitUntil \in reached ELSE settled
    BY <1>4, Zenon DEF Effect
  <2>4. settled' \in BOOLEAN
    <3>1. CASE Command(step) = "setLifecycleEventsEnabled"
      <4>1. settled' = (operation.waitUntil \in reached)
        BY <2>3, <3>1, Zenon
      <4> QED
        BY <4>1, SMT
    <3>2. CASE Command(step) # "setLifecycleEventsEnabled"
      BY <2>1, <2>3, <3>2, Zenon
    <3> QED
      BY <3>1, <3>2, Zenon
  <2> QED
    BY <2>2, <2>4
<1> QED
  BY <1>1, <1>2, <1>3, <1>5, <1>6, <1>7, <1>8, <1>9

(* A command that is answered without an error has had its effect, after   *)
(* the events it reports.                                                  *)
LEMMA ExecuteSucceedsInv ==
  ASSUME Inv, Active, requests # <<>>, requests' = Tail(requests),
         Head(requests).method # "navigate", Effect(Head(requests).method),
         replies' = replies
                    \o If(Head(requests).method = "setLifecycleEventsEnabled",
                          <<Event(reached)>>)
                    \o <<Answer(Head(requests).id, TRUE)>>,
         UNCHANGED <<eigerVars, open, navigating>>
  PROVE  Inv'
<1> DEFINE reply == Answer(nextId - 1, TRUE)
           event == Event(reached)
<1>1. /\ pc = "answer" /\ Head(requests).id = nextId - 1
      /\ Head(requests).method = Command(step)
      /\ nextId \in Nat /\ nextId > 1 /\ ~Answered
  BY Commanded
<1>2. /\ Nav \in {5, 6} /\ Last \in Nat /\ Last > Nav + 1
      /\ step \in 1..Last /\ step # Nav /\ step # Nav + 1
      /\ UNCHANGED <<reached, framed, frameReached>>
      /\ document' = IF step = 1 THEN "blank" ELSE document
      /\ step # 4 => UNCHANGED <<reporting, settled>>
      /\ step = 4 => reporting' /\ (settled' <=> Awaited \in reached)
      /\ settled' \in BOOLEAN /\ reporting' \in BOOLEAN
      /\ step = Last =>
           taken' = [document |-> document, reached |-> reached]
      /\ step # Last => taken' = taken
  BY EffectOf DEF eigerVars
<1>3. /\ reply \in Replies /\ reply.id = nextId - 1 /\ reply.names = {}
      /\ reply.ok = TRUE
  BY <1>1 DEF Answer, Replies
<1>4. event \in Replies /\ event.id = 0 /\ event.names \subseteq Names
  BY DEF Event, Replies, Inv, StepInv, TypeOK
<1>5. Command(step) = "setLifecycleEventsEnabled" <=> step = 4
  BY <1>2, Places, Types DEF Inv
<1>6. replies' = replies
                 \o If(Command(step) = "setLifecycleEventsEnabled", <<event>>)
                 \o <<reply>>
  BY <1>1
<1>7. replies \in Seq(Replies) /\ Len(replies) \in Nat
  BY DEF Inv, StepInv
<1> HIDE DEF reply, event
<1>8. PICK k \in Nat :
        /\ k = IF step = 4 THEN Len(replies) + 2 ELSE Len(replies) + 1
        /\ replies' \in Seq(Replies) /\ Len(replies') = k /\ replies'[k] = reply
        /\ \A i \in 1..Len(replies) : replies'[i] = replies[i]
        /\ step = 4 => replies'[Len(replies) + 1] = event
  <2>1. CASE step = 4
    <3>1. replies' = replies \o <<event>> \o <<reply>>
      BY <1>5, <1>6, <2>1 DEF If
    <3>2. /\ replies' \in Seq(Replies) /\ Len(replies') = Len(replies) + 2
          /\ \A i \in 1..Len(replies) : replies'[i] = replies[i]
          /\ replies'[Len(replies) + 1] = event
          /\ replies'[Len(replies) + 2] = reply
      <4> DEFINE t == replies \o <<event>>
      <4>1. /\ t \in Seq(Replies) /\ Len(t) = Len(replies) + 1
            /\ \A i \in 1..Len(replies) : t[i] = replies[i]
            /\ t[Len(replies) + 1] = event
        BY <1>4, <1>7
      <4>2. replies' = t \o <<reply>>
        BY <3>1
      <4> HIDE DEF t
      <4>3. /\ t \o <<reply>> \in Seq(Replies)
            /\ Len(t \o <<reply>>) = Len(t) + 1
            /\ (t \o <<reply>>)[Len(t) + 1] = reply
            /\ \A i \in 1..Len(t) : (t \o <<reply>>)[i] = t[i]
        BY <1>3, <4>1
      <4>4. /\ replies' \in Seq(Replies) /\ Len(replies') = Len(t) + 1
            /\ replies'[Len(t) + 1] = reply
            /\ \A i \in 1..Len(t) : replies'[i] = t[i]
        BY <4>2, <4>3, Zenon
      <4>5. /\ Len(t) + 1 = Len(replies) + 2
            /\ Len(replies) + 1 \in 1..Len(t)
            /\ \A i \in 1..Len(replies) : i \in 1..Len(t)
        BY <1>7, <4>1
      <4>6. /\ replies' \in Seq(Replies) /\ Len(replies') = Len(replies) + 2
            /\ replies'[Len(replies) + 2] = reply
        BY <4>4, <4>5, Zenon
      <4>7. /\ \A i \in 1..Len(replies) : replies'[i] = replies[i]
            /\ replies'[Len(replies) + 1] = event
        BY <4>1, <4>4, <4>5, Zenon
      <4> QED
        BY <4>6, <4>7, Zenon
    <3>3. Len(replies) + 2 \in Nat
      BY <1>7
    <3> QED
      BY <2>1, <3>2, <3>3
  <2>2. CASE step # 4
    <3>1. replies' = replies \o <<>> \o <<reply>>
      BY <1>5, <1>6, <2>2 DEF If
    <3>2. /\ replies' \in Seq(Replies) /\ Len(replies') = Len(replies) + 1
          /\ \A i \in 1..Len(replies) : replies'[i] = replies[i]
          /\ replies'[Len(replies) + 1] = reply
      <4>0. replies \o <<>> = replies
        BY <1>7
      <4>1. replies' = replies \o <<reply>>
        BY <3>1, <4>0, Zenon
      <4>2. /\ replies \o <<reply>> \in Seq(Replies)
            /\ Len(replies \o <<reply>>) = Len(replies) + 1
            /\ (replies \o <<reply>>)[Len(replies) + 1] = reply
            /\ \A i \in 1..Len(replies) : (replies \o <<reply>>)[i] = replies[i]
        BY <1>3, <1>7
      <4> QED
        BY <4>1, <4>2
    <3>3. Len(replies) + 1 \in Nat
      BY <1>7
    <3> QED
      BY <2>2, <3>2, <3>3
  <2> QED
    BY <2>1, <2>2
<1>9. Achieved'
  <2>1. step > Nav => document = "page"
    BY <1>1 DEF Inv, PageInv, Active
  <2>2. settled /\ ~framed /\ step > Nav + 1 => Awaited \in reached
    BY DEF Inv, SettledInv
  <2>3. step' = step /\ Nav' = Nav /\ Last' = Last /\ Awaited' = Awaited
    BY ScriptKept DEF eigerVars
  <2>4. step = Last => taken'.document = "page" /\ taken'.reached = reached
    BY <1>2, <2>1
  <2> QED
    BY <1>2, <2>2, <2>3, <2>4 DEF Achieved
<1>10. /\ Answered' /\ CommandInv' /\ requests' \in Seq(Requests)
       /\ \A i \in 1..Len(requests') : FALSE
       /\ \A i \in 1..Len(replies') : replies'[i].id \in 0..(nextId' - 1)
  <2>1. \A i \in (Len(replies) + 1)..(k - 1) :
          replies'[i].id = 0 /\ replies'[i].names \subseteq Names
    <3>1. \A i \in (Len(replies) + 1)..(k - 1) :
            step = 4 /\ i = Len(replies) + 1
      BY <1>7, <1>8
    <3> QED
      BY <1>4, <1>8, <3>1
  <2>2. k > Len(replies)
    BY <1>7, <1>8
  <2> QED
    BY <1>2, <1>3, <1>8, <1>9, <2>1, <2>2, AnswerInv
<1>11. /\ UNCHANGED <<operation, pc, step, nextId, lifecycleEvents>>
       /\ Nav' = Nav /\ Last' = Last /\ Awaited' = Awaited
  BY ScriptKept DEF eigerVars
<1>12. /\ document \in {"none", "blank", "page"} /\ reached \subseteq Names
       /\ taken \in [document : {"none", "blank", "page"},
                     reached : SUBSET Names]
  BY DEF Inv, StepInv, TypeOK
<1>13. /\ taken' \in [document : {"none", "blank", "page"},
                      reached : SUBSET Names]
       /\ document' \in {"none", "blank", "page"}
  BY <1>2, <1>12
<1>14. TypeOK'
  BY <1>2, <1>8, <1>10, <1>11, <1>13, TypesBack, Types DEF Inv, StepInv, TypeOK
<1>15. StepInv'
  BY <1>8, <1>10, <1>11, <1>13, <1>14 DEF Inv, StepInv
<1>16. PageInv'
  BY <1>1, <1>2, <1>11 DEF Inv, PageInv, Active
<1>17. SeenInv'
  BY <1>1, <1>2, <1>11 DEF SeenInv
<1>18. SettledInv'
  <2> SUFFICES ASSUME settled', ~framed PROVE SettledInv'
    BY <1>2 DEF SettledInv
  <2>1. CASE step = 4
    BY <1>1, <1>2, <1>10, <1>11, <2>1 DEF SettledInv
  <2>2. CASE step # 4
    <3>0. settled /\ step >= 4
      BY <1>2, <2>2 DEF Inv, SettledInv
    <3>1. /\ step > 4 /\ (document # "page" => Awaited \in reached)
          /\ step > Nav + 1 => Awaited \in reached
          /\ 4 < step /\ step < Nav =>
               \A i \in 1..Len(replies) : Awaited \notin replies[i].names
          /\ step > Nav =>
               (document # "page" \/ Awaited \notin reached => Unseen)
      BY <1>2, <2>2, <3>0 DEF Inv, SettledInv
    <3>2. \A i \in 1..Len(replies') : i \in 1..Len(replies) \/ i = k
      BY <1>7, <1>8, <2>2
    <3>3. 4 < step /\ step < Nav =>
            \A i \in 1..Len(replies') : Awaited \notin replies'[i].names
      BY <1>3, <1>8, <3>1, <3>2
    <3>4. Unseen => Unseen'
      BY <1>3, <1>8, <1>11, <3>2 DEF Unseen
    <3>5. document' = document
      BY <1>2, <3>1
    <3>6. pc' = "answer" /\ reached' = reached
      BY <1>1, <1>2, <1>11
    <3>7. /\ step' >= 4 /\ step' # 4
          /\ document' # "page" => Awaited' \in reached'
          /\ step' > Nav' + 1 => Awaited' \in reached'
      <4>1. step' = step /\ Nav' = Nav /\ Awaited' = Awaited
        BY <1>11
      <4>2. step' >= 4 /\ step' # 4
        BY <2>2, <3>0, <4>1
      <4>3. document' # "page" => Awaited' \in reached'
        BY <3>1, <3>5, <3>6, <4>1
      <4>4. step' > Nav' + 1 => Awaited' \in reached'
        BY <3>1, <3>6, <4>1
      <4> QED
        BY <4>2, <4>3, <4>4
    <3>8. 4 < step' /\ (step' < Nav' \/ (step' = Nav' /\ pc' = "send")) =>
            \A i \in 1..Len(replies') : Awaited' \notin replies'[i].names
      BY <1>11, <3>3, <3>6
    <3>9. step' > Nav' \/ (step' = Nav' /\ pc' = "answer") =>
            (document' # "page" \/ Awaited' \notin reached' => Unseen')
      BY <1>2, <1>11, <3>1, <3>4, <3>5, <3>6
    <3> QED
      BY <3>7, <3>8, <3>9 DEF SettledInv
  <2> QED
    BY <2>1, <2>2
<1> QED
  BY <1>10, <1>15, <1>16, <1>17, <1>18 DEF Inv

(* Carrying out a command keeps the invariant.                             *)
LEMMA ExecuteInv ==
  ASSUME Inv, Execute
  PROVE  Inv'
<1>1. Active /\ requests # <<>>
  BY DEF Execute, Serving, Active
<1> QED
  BY <1>1, ExecuteSucceedsInv, ExecuteFailsInv DEF Execute

(* Every step keeps the invariant.                                         *)
LEMMA InvStep ==
  ASSUME Inv, [Next]_vars
  PROVE  Inv'
<1>1. CASE UNCHANGED vars
  <2>1. /\ UNCHANGED <<eigerVars, open, requests, replies, pageVars, navigating,
                       taken, settled>>
    BY <1>1 DEF vars
  <2>2. TypeOK'
    BY <2>1 DEF Inv, StepInv, TypeOK, pageVars, eigerVars
  <2>3. StepInv'
    BY <2>1, <2>2, ScriptKept DEF Inv, StepInv, Requests, Replies, eigerVars
  <2>4. /\ Asked' <=> Asked
        /\ UnderWay' <=> UnderWay
        /\ Eventful' <=> Eventful
        /\ Achieved' <=> Achieved
        /\ Unseen' <=> Unseen
    BY <2>1, ScriptKept
    DEF Asked, UnderWay, Eventful, Achieved, Unseen, eigerVars, pageVars
  <2>5. Answered' <=> Answered
    BY <2>1, <2>4, ScriptKept DEF Answered, AnsweredAt, eigerVars
  <2>6. CommandInv'
    BY <2>1, <2>4, <2>5, ScriptKept DEF Inv, CommandInv, eigerVars, pageVars
  <2>7. PageInv' /\ SeenInv'
    BY <2>1, ScriptKept DEF Inv, PageInv, SeenInv, Active, eigerVars, pageVars
  <2>8. SettledInv'
    BY <2>1, <2>4, <2>5, ScriptKept
    DEF Inv, SettledInv, Active, eigerVars, pageVars
  <2> QED
    BY <2>3, <2>6, <2>7, <2>8 DEF Inv
<1>2. CASE Eiger
  BY <1>2, ConnectInv, SendInv, ReceiveInv, EndsInv DEF Eiger
<1>3. CASE Chrome
  BY <1>3, ExecuteInv, BeginNavigationInv, CommitInv, AnswerNavigationInv,
     ReachesInv, BrowserGoneInv DEF Chrome
<1> QED
  BY <1>1, <1>2, <1>3 DEF Next

----------------------------------------------------------------------------
(* The theorems *)

(* The inductive invariant: one command is under way at a time, and what   *)
(* it has achieved holds once its answer has been read.                    *)
THEOREM Invariance == Spec => []Inv
BY InvInitially, InvStep, PTL DEF Spec

(* Every variable keeps its type.                                          *)
THEOREM RestTypes == Spec => []TypeOK
<1>1. Inv => TypeOK
  BY DEF Inv, StepInv
<1> QED
  BY <1>1, Invariance, PTL

(* What scrape_with_session, screenshot_with_session and pdf_with_session  *)
(* return was taken from the page they were asked for, whatever events     *)
(* stand between their commands and the answers.                           *)
THEOREM FromPage == Spec => []TakenFromPage
<1>1. Inv => TakenFromPage
  BY DEF Inv, CommandInv, TakenFromPage
<1> QED
  BY <1>1, Invariance, PTL

(* For a page without frames, and an about:blank that has reached the      *)
(* event before, wait_for_lifecycle ends no earlier than the page is there. *)
THEOREM WhenReached == Spec => []TakenWhenReached
<1>1. Inv => TakenWhenReached
  BY DEF Inv, CommandInv, TakenWhenReached, Awaited
<1> QED
  BY <1>1, Invariance, PTL

(* wait_for_lifecycle does not wait for an event that has been read and    *)
(* forgotten.                                                              *)
THEOREM NotMissed == Spec => []EventNotMissed
<1>1. Inv => EventNotMissed
  <2> SUFFICES ASSUME Inv, pc = "wait", document = "page", Awaited \in reached
               PROVE  \E i \in DOMAIN replies : Awaited \in replies[i].names
    BY DEF EventNotMissed, Awaited
  <2>1. \E i \in 1..Len(replies) : Awaited \in replies[i].names
    <3>1. step \in {Nav, Nav + 1}
      BY DEF Inv, StepInv
    <3> QED
      BY <3>1 DEF Inv, SeenInv
  <2>2. DOMAIN replies = 1..Len(replies)
    BY DEF Inv, StepInv
  <2> QED
    BY <2>1, <2>2
<1> QED
  BY <1>1, Invariance, PTL

=============================================================================
