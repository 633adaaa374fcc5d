---------------------------- MODULE RestOperation ----------------------------
(***************************************************************************)
(* One REST operation of eiger-api on the browser of its session: a new    *)
(* page, a navigation, the wait for a lifecycle event, and what is taken   *)
(* from the page, over one CdpConnection and next to what Chrome does.     *)
(*                                                                         *)
(* The connection is first-in first-out both ways.  Chrome need not answer *)
(* at all; if it answers, then in order.  Page.navigate is answered when   *)
(* the new document is committed, and a document reports what its frames   *)
(* reach from when lifecycle events are enabled, what it reached earlier   *)
(* at that moment.                                                         *)
(***************************************************************************)
EXTENDS Naturals, Sequences

CONSTANTS Operations,   \* the operations that may be asked for
          Names         \* the lifecycle events that frames report

Kinds == {"scrape", "screenshot", "pdf"}
WaitUntil == {"load", "DOMContentLoaded", "networkIdle", "networkAlmostIdle"}

ASSUME RestAssumption ==
  /\ Names \subseteq WaitUntil
  /\ Operations \subseteq
       [kind : Kinds, waitUntil : Names, fullPage : BOOLEAN,
        omitBackground : BOOLEAN, selector : BOOLEAN]

VARIABLES operation,         \* what was asked for
          pc, step,          \* where its handler is
          nextId,            \* CdpConnection::next_id
          lifecycleEvents,   \* CdpConnection::lifecycle_events
          open,              \* Chrome still serves the connection
          requests,          \* commands on their way to Chrome
          replies,           \* answers and events on their way to Eiger
          document,          \* what the page shows
          reached,           \* what its main frame has reached
          framed,            \* it has a frame of its own
          frameReached,      \* what that frame has reached
          reporting,         \* lifecycle events are enabled
          navigating,        \* id of the Page.navigate to answer, or 0
          taken,             \* history: the page at the moment it was taken
          settled            \* history: about:blank had reached waitUntil
                             \* when lifecycle events were enabled

eigerVars == <<operation, pc, step, nextId, lifecycleEvents>>
pageVars == <<document, reached, framed, frameReached, reporting>>
vars == <<eigerVars, open, requests, replies, pageVars, navigating, taken,
          settled>>

(* A reply answers a command or, with id 0, reports what a frame reached.  *)
Answer(id, ok) == [id |-> id, ok |-> ok, names |-> {}]
Event(names) == [id |-> 0, ok |-> TRUE, names |-> names]

----------------------------------------------------------------------------
(* The commands of an operation, and "wait" for wait_for_lifecycle *)

If(condition, commands) == IF condition THEN commands ELSE <<>>

PreparePageTarget ==
  <<"createTarget", "attachToTarget", "enable", "setLifecycleEventsEnabled">>

NavigatePage == <<"navigate", "wait">>

TakeCommand ==
  [scrape |-> "evaluate", screenshot |-> "captureScreenshot",
   pdf |-> "printToPDF"]

Script(op) ==
  PreparePageTarget
  \o If(op.kind = "pdf", <<"setDeviceMetricsOverride">>)
  \o NavigatePage
  \o If(op.kind = "screenshot",
        If(op.fullPage, <<"getLayoutMetrics", "setDeviceMetricsOverride">>)
        \o If(op.omitBackground, <<"setDefaultBackgroundColorOverride">>)
        \o If(op.selector, <<"evaluateSelector">>))
  \o <<TakeCommand[op.kind]>>

TypeOK ==
  /\ operation \in Operations
  /\ pc \in {"connect", "send", "answer", "wait", "done", "failed"}
  /\ step \in 1..Len(Script(operation))
  /\ nextId \in 1..(Len(Script(operation)) + 1)
  /\ lifecycleEvents \subseteq Names
  /\ \A m \in {requests[i] : i \in DOMAIN requests} :
       m.id \in 1..(nextId - 1)
  /\ \A m \in {replies[i] : i \in DOMAIN replies} :
       m.id \in 0..(nextId - 1) /\ m.ok \in BOOLEAN /\ m.names \subseteq Names
  /\ document \in {"none", "blank", "page"}
  /\ taken.document \in {"none", "blank", "page"} /\ taken.reached \subseteq Names
  /\ reached \subseteq Names /\ frameReached \subseteq Names
  /\ {open, framed, reporting, settled} \subseteq BOOLEAN
  /\ navigating \in 0..(nextId - 1)

Init ==
  /\ operation \in Operations
  /\ pc = "connect" /\ step = 1
  /\ nextId = 1 /\ lifecycleEvents = {}
  /\ open = TRUE /\ requests = <<>> /\ replies = <<>>
  /\ document = "none" /\ reached = {}
  /\ framed = FALSE /\ frameReached = {}
  /\ reporting = FALSE /\ navigating = 0
  /\ taken = [document |-> "none", reached |-> {}]
  /\ settled = FALSE

----------------------------------------------------------------------------
(* Eiger *)

End(result) ==
  /\ pc' = result
  /\ UNCHANGED <<operation, step, nextId, open, requests, pageVars,
                 navigating, taken, settled>>

(* connect_async has no timeout: nothing says that it returns.             *)
Connect ==
  /\ pc = "connect"
  /\ open
  /\ pc' = "send"
  /\ UNCHANGED <<operation, step, nextId, lifecycleEvents, open, requests,
                 replies, pageVars, navigating, taken, settled>>

(* Mutant: navigate_page keeps the events of the page it leaves.           *)
KeepEvents == lifecycleEvents

(* navigate_page clears what about:blank has reported so far.              *)
EventsAtSend ==
  IF Script(operation)[step] = "navigate" THEN {} ELSE lifecycleEvents

(* Mutant: the next command reuses the id.                                 *)
IdKept == nextId

IdIncremented == nextId + 1

Send ==
  /\ pc = "send"
  /\ open
  /\ lifecycleEvents' = EventsAtSend
  /\ requests' = Append(requests,
                        [id |-> nextId, method |-> Script(operation)[step]])
  /\ nextId' = IdIncremented
  /\ pc' = "answer"
  /\ UNCHANGED <<operation, step, open, replies, pageVars, navigating, taken,
                 settled>>

(* A step is done.  wait_for_lifecycle first looks at what it has seen.    *)
Proceed ==
  LET awaited == operation.waitUntil \notin lifecycleEvents' IN
  IF step = Len(Script(operation)) THEN pc' = "done" /\ UNCHANGED step
  ELSE IF Script(operation)[step + 1] # "wait"
    THEN pc' = "send" /\ step' = step + 1
  ELSE IF awaited THEN pc' = "wait" /\ step' = step + 1
  ELSE pc' = "send" /\ step' = step + 2

(* Mutant: whatever comes next is the answer.                              *)
AnswersAnything(m) == TRUE

AnswersCommand(m) == m.id = nextId - 1

(* Mutant: events are recorded by wait_for_lifecycle alone.                *)
RecordWhileWaiting(m) ==
  IF pc = "wait" THEN lifecycleEvents \cup m.names ELSE lifecycleEvents

(* next_json_message records the name of an event, whatever document or    *)
(* frame reports it.                                                       *)
Record(m) == lifecycleEvents \cup m.names

ReceiveInCommand(m) ==
  /\ pc = "answer"
  /\ IF ~AnswersCommand(m) THEN UNCHANGED <<pc, step>>
     ELSE IF m.ok THEN Proceed
     ELSE pc' = "failed" /\ UNCHANGED step

ReceiveInWait ==
  /\ pc = "wait"
  /\ IF operation.waitUntil \in lifecycleEvents'
     THEN pc' = "send" /\ step' = step + 1
     ELSE UNCHANGED <<pc, step>>

Receive ==
  /\ replies # <<>>
  /\ lifecycleEvents' = Record(Head(replies))
  /\ ReceiveInCommand(Head(replies)) \/ ReceiveInWait
  /\ replies' = Tail(replies)
  /\ UNCHANGED <<operation, nextId, open, requests, pageVars, navigating,
                 taken, settled>>

(* Mutant: only command has a timeout.                                     *)
CommandTimed == {"answer"}

(* timeoutMs is for each command and the wait, not for the operation.      *)
Timed == {"answer", "wait"}

Timeout ==
  /\ pc \in Timed
  /\ End("failed")
  /\ UNCHANGED <<lifecycleEvents, replies>>

(* The connection ends; what was received before it did is read first.     *)
Disconnected ==
  /\ ~open
  /\ pc \in {"connect", "send"} \/ (pc \in Timed /\ replies = <<>>)
  /\ End("failed")
  /\ UNCHANGED <<lifecycleEvents, replies>>

----------------------------------------------------------------------------
(* Chrome *)

(* An operation that ends drops its connection.                            *)
Serving == open /\ pc \notin {"done", "failed"}

(* What a command does before it is answered.                              *)
Effect(method) ==
  /\ IF method = "createTarget"
     THEN document' = "blank" /\ UNCHANGED <<reached, framed, frameReached>>
     ELSE UNCHANGED <<document, reached, framed, frameReached>>
  /\ reporting' = (reporting \/ method = "setLifecycleEventsEnabled")
  /\ settled' = IF method = "setLifecycleEventsEnabled"
                THEN operation.waitUntil \in reached ELSE settled
  /\ taken' = IF method = TakeCommand[operation.kind]
              THEN [document |-> document, reached |-> reached] ELSE taken

Execute ==
  /\ Serving /\ requests # <<>>
  /\ LET c == Head(requests) IN
       /\ c.method # "navigate"
       /\ \/ /\ Effect(c.method)
             /\ replies' = replies
                           \o If(c.method = "setLifecycleEventsEnabled",
                                 <<Event(reached)>>)
                           \o <<Answer(c.id, TRUE)>>
          \/ /\ replies' = Append(replies, Answer(c.id, FALSE))
             /\ UNCHANGED <<pageVars, taken, settled>>
  /\ requests' = Tail(requests)
  /\ UNCHANGED <<eigerVars, open, navigating>>

BeginNavigation ==
  /\ Serving /\ requests # <<>>
  /\ Head(requests).method = "navigate"
  /\ navigating' = Head(requests).id
  /\ requests' = Tail(requests)
  /\ UNCHANGED <<eigerVars, open, replies, pageVars, taken, settled>>

Commit ==
  /\ Serving /\ navigating # 0 /\ document = "blank"
  /\ document' = "page" /\ reached' = {}
  /\ framed' \in BOOLEAN /\ frameReached' = {}
  /\ UNCHANGED <<eigerVars, open, requests, replies, reporting, navigating,
                 taken, settled>>

(* A page may report before the navigation to it is answered.              *)
AnswerNavigation ==
  /\ Serving /\ navigating # 0
  /\ replies' = Append(replies, Answer(navigating, document = "page"))
  /\ navigating' = 0
  /\ UNCHANGED <<eigerVars, open, requests, pageVars, taken, settled>>

Report(name) ==
  /\ replies' = IF reporting THEN Append(replies, Event({name})) ELSE replies
  /\ UNCHANGED <<eigerVars, open, requests, document, framed, reporting,
                 navigating, taken, settled>>

(* A document is loaded, and its network idle, after its DOM is there.     *)
MainFrameReaches(name) ==
  /\ Serving /\ document # "none"
  /\ name \in Names \ reached
  /\ name = "DOMContentLoaded" \/ "DOMContentLoaded" \in reached
  /\ reached' = reached \cup {name}
  /\ Report(name)
  /\ UNCHANGED frameReached

FrameReaches(name) ==
  /\ Serving /\ framed
  /\ name \in Names \ frameReached
  /\ frameReached' = frameReached \cup {name}
  /\ Report(name)
  /\ UNCHANGED reached

BrowserGone ==
  /\ Serving
  /\ open' = FALSE
  /\ UNCHANGED <<eigerVars, requests, replies, pageVars, navigating, taken,
                 settled>>

----------------------------------------------------------------------------
(* The specification *)

Eiger == Connect \/ Send \/ Receive \/ Timeout \/ Disconnected

Chrome ==
  \/ Execute \/ BeginNavigation \/ Commit \/ AnswerNavigation
  \/ \E name \in Names : MainFrameReaches(name) \/ FrameReaches(name)
  \/ BrowserGone

Next == Eiger \/ Chrome

Spec == Init /\ [][Next]_vars

(* The runtime polls the handler and its timers; Chrome owes nothing.      *)
Fairness == WF_vars(Send) /\ WF_vars(Timeout) /\ WF_vars(Disconnected)

FairSpec == Spec /\ Fairness

----------------------------------------------------------------------------
(* Properties *)

(* What an operation returns was taken from the page it was asked for, not *)
(* from about:blank, whatever else Chrome sends meanwhile.                 *)
TakenFromPage == pc = "done" => taken.document = "page"

(* The wait for waitUntil can be relied on if the page has no frames and   *)
(* about:blank has reported what it will before navigate_page clears it.   *)
TakenWhenReached ==
  pc = "done" /\ settled /\ ~framed => operation.waitUntil \in taken.reached

(* The wait cannot miss the event: as long as it goes on the page has not  *)
(* got there, or the event is on its way.                                  *)
EventNotMissed ==
  pc = "wait" /\ document = "page" /\ operation.waitUntil \in reached =>
    \E i \in DOMAIN replies : operation.waitUntil \in replies[i].names

(* Once it is connected an operation ends, although Chrome may never       *)
(* answer a command or the page never get as far as waitUntil.             *)
OperationEnds == pc = "send" ~> pc \in {"done", "failed"}

(* README: the operations accept waitUntil.  What is returned shows the    *)
(* page when it has got that far.                                          *)
WaitUntilReached == pc = "done" => operation.waitUntil \in taken.reached

=============================================================================
