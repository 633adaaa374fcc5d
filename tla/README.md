# A TLA+ model of Eiger

Eiger hands out headless Chrome browsers over HTTP and WebSocket. This
directory holds TLA+ modules that model its session pool, the handlers that
share it, the browser processes it owns and the connections to them; TLC
configurations that check them; and theorems about them that TLAPS proves. Paths below are relative to the repository; `pool:318` stands for
`crates/eiger-pool/src/lib.rs:318`, likewise `api`, `browser`, `metrics`,
`config`.

## The system

| Component | State | Operations | Correct when |
|---|---|---|---|
| Launch permits (`pool:116`) | a fair tokio semaphore | acquire with a timeout, release by the last reference to an entry | no permit is lost or doubled |
| Session pool (`eiger-pool`) | map of entries, each with state, kill reason, browser, permit; launch status | create, connect, mark in use, touch, terminate, list | browsers stay within the bound, are always owned, are shut down once; what is listed is usable |
| Maintenance (`pool:404`) | a snapshot of the map, the entry it visits | lifetime, idle, memory, process and CDP checks, termination | sessions past a limit are recycled |
| API handlers (`eiger-api`) | one handler future or upgraded task per call | create, connect (new or existing), REST, list, delete | each session is served or ended |
| WebSocket proxy (`api:748`) | two directions, a sender lock, a counter of command ids | forward, inject stealth commands | commands in order, scripts before commands, own answers hidden and no others, neither side blocks the other for good |
| REST operations (`api:998`) | a CDP connection, next id, lifecycle events seen | navigate, wait, evaluate, capture | the answer belongs to the command and the page |
| Browser process (`eiger-browser`) | child, pid, profile directory | launch, shut down, drop | the process ends and is reaped; no stranger is signalled |
| Stealth controller (`browser:427`) | a connection, the targets it is told of | auto-attach, discover, attach, inject, resume | a page runs only with the scripts in it, no target stays paused |
| Process sampling (`metrics:67`) | none | sum a process tree from `ps` | each descendant counts once, whatever the order of the rows |
| Configuration, server, stealth scripts, Node client | constants | parsing, start-up | pure or library code |

Handlers run concurrently on tokio's threads. They share entries by
`Arc<SessionEntry>` and interleave at every lock and await. When a client goes
away hyper drops the future of its handler, wherever it is suspended; the task
of an upgraded WebSocket is on its own. An entry's browser and permit are
dropped with the last reference to it. That is where the difficulty of this code is:
`create_session`, `connect_session`, `terminate_session` and maintenance each
do several steps on an entry that the others may meanwhile take out of the map,
and any of them may stop half way. `PROJECT.json` lists the hazards line by line.

## The modules

| Module | Models | Correspondence |
|---|---|---|
| `LaunchQueue` | the semaphore, as `pool:222` and `pool:157` use it | `permits`, `queue` of waiters, `owners`: who holds a permit. A released permit is assigned to the oldest waiter at once, before that waiter runs again. |
| `SessionPool` | the map and the operations on it | `sessions` are the keys of the map; `state`, `killReason`, `browser` the fields of an entry; `pc`, `op`, `target`, `clones` are where a task is and what it holds. One action per section of code between two awaits. |
| `PoolMaintenance` | `maintenance_pass` and `kill_reason_for` | `target[Maintenance]` is the entry visited, `clones[Maintenance]` the rest of the snapshot, `op[Maintenance]` the verdict. |
| `SessionServer` | the handlers, cancellation, browsers and clocks; `Next`, fairness, properties | each call of the API is a path of `pc`; `CancelLaunch` and `CancelHandler` are a dropped future. |
| `SessionLifecycle` | the promise: a session is free, starting, listed, retired, and holds one slot meanwhile | `SessionServer` implements it by the mapping `Lifecycle` |
| `MCSessionServer` | instances for TLC | |
| `BrowserProcess` | `launch_chrome`, `LaunchedBrowser::shutdown` and `Drop`, next to Chrome and the kernel | `pc` is where launching or shutting down is suspended, `chrome` the child (a zombie keeps its pid), `port` where it listens, `portFile` what `DevToolsActivePort` of each directory holds, `basePort` and `endpoint` the `http_base_url` and the `browser_ws_url` of a launch. |
| `RestOperation` | `scrape_with_session`, `screenshot_with_session`, `pdf_with_session` on a `CdpConnection` | `Script` is the sequence of commands, `step` and `pc` where the handler is in it, `requests` and `replies` the two directions of the WebSocket; `document`, `reached`, `framed` the page. |
| `ProcessLifecycle` | the promise: a process that was handed out has an owner until it is ending, and only a launch can leave one to itself | `BrowserProcess` and `SessionServer` both implement it, by mappings of the same name |
| `CdpProxy` | `proxy_websocket` | `pc` is where `client_to_upstream` and `upstream_to_client` are; `lock` who asked for `upstream_sender`, its holder first; `batch` how far `send_stealth_commands` is; `sent`, `upstream`, `delivered` only grow, and `taken`, `executed`, `seen` say how much of them was read. |
| `StealthController` | `run_stealth_controller` next to Chrome | `controller` is the task, `commands` and `events` the two directions of its connection, `held` the targets that Chrome holds paused for it, `patched` those with the scripts in them, `ran` what each ran with. |
| `StealthTargets` | one browser with a proxy and a controller | composes the two: a target is created once and reported to both, `waited` are the targets that Chrome holds for the client. |
| `ProcessTree` | `sample_process_tree`, `sample_process` | `at` is the loop that a sample is in, `rows` what `ps` listed, `descendants` and `cursor` the growing list and the place in it, `row` the place in a loop over the rows; sums over rows are the set `counted`. |
| `MCBrowserProcess`, `MCRestOperation`, `MCStealthTargets` | instances for TLC | |
| `LaunchQueueProofs`, `SessionServerProofs`, `SessionRefinementProofs`, `BrowserProcessProofs`, `CdpProxyProofs`, `StealthTargetsProofs`, `RestOperationProofs`, `ProcessTreeProofs` | lemmas and theorems | |

`SessionPool` extends `LaunchQueue`, `PoolMaintenance` extends `SessionPool`
and `SessionServer` composes them all. `BrowserProcess`, `RestOperation` and
`CdpProxy` take apart what `SessionServer` does in one step: a launch
(`LaunchSucceeds`, `LaunchFails`, `CancelLaunch`), a shutdown
(`ShutdownBrowser`), an operation (`RestCompletes`) and a proxied connection
(`ProxyCloses`, `ProxyLosesBrowser`). What `SessionServer` assumes of them they
check: a shutdown leaves no process (`ReapedAtEnd`, `ShutdownEnds`), a REST
operation ends (`OperationEnds`), a proxy returns (`ProxyReturns`). The two
levels of a process are tied together by `ProcessLifecycle`, which both
implement. `StealthTargets` extends `CdpProxy` and `StealthController`, two
tasks that never talk to each other and meet at the targets of one Chrome.

Three choices keep the model small and finite without a bound on histories.

* A request of the model serves one API call after another, and a session is
  named after the request that created it. The name is used again only when
  nothing in the server remembers it (`Fresh`), just as no `Uuid` is used twice.
* References are derived (`Referenced`), not counted. A step that lets go of one
  (`DropEntry`) frees the entry if by the state it leaves nothing refers to it.
* Time is two sets, `idle` and `expired`, that sessions enter by themselves.

External behaviour the model relies on: tokio's semaphore is first-in first-out and
passes a permit on from a dropped waiter; a dropped tokio `Child` is reaped by
the runtime, one that is neither dropped nor waited for stays a zombie; hyper
drops the handler of a client that disconnected; axum spawns the upgraded task
and drops its callback if the upgrade fails. Of Chrome: it writes
`DevToolsActivePort` once it listens, a browser names its own WebSocket URL, a
connection is answered in order, and `Page.navigate` is answered when the new
document is committed. It keeps sessions, and what it holds paused, for each
connection by itself, and reports that it attached a connection to a target
before it answers or obeys anything in that session. A WebSocket URL holds an
identifier that no two Chromes share, so it never leads to another one. Of the
kernel: no two processes listen on one port at a time. A port is free again as
soon as its Chrome has exited, and any other may get it. Of `tempfile`: a
temporary directory is new, nobody else's, and removed with its handle. Only
Eiger's own Chromes are modelled: what else listens on a port gives no answer or
one that is no version.

## The runs

| Run | Instance | Shows |
|---|---|---|
| `pool_requests` | 3 requests, 1 permit; create, REST, connect, delete; clients leave | capacity, permits, ownership, what is listed, one client per session, one shutdown, the reason of an exit, the refinement of `SessionLifecycle` |
| `pool_two_browsers` | 2 requests, 2 permits; proxied sessions and lists; clients leave, browsers hang, `ps` fails | permits and the map stay accurate with two browsers at once, every failure, and clones that outlive their sessions; the processes of sessions are those of `ProcessLifecycle` |
| `pool_recycling` | 2 requests, 1 permit, fair | a session past its lifetime loses its browser, and its slot is free in the end |
| `orphaned_launch` | violated | a cancelled launch leaves Chrome running beyond the bound |
| `shared_session` | violated | a session created for one client is connected to by another |
| `hung_browser` | violated | one hung browser ends all recycling |
| `abandoned_session` | violated | a cancelled REST request leaves its session in use by nobody |
| `browser_process` | 2 browsers, 2 ports, a temporary directory and a persistent one that both may use at once, fair | signals only to the own child, everything reaped, the endpoint of a session in a temporary directory is its running child's although ports are used again, launches and shutdowns end, the refinement of `ProcessLifecycle`; and what a sample of a process tree counts, and that it ends |
| `shared_profile` | violated | two sessions of one persistent profile drive one browser |
| `rest_operation` | a scrape, the longest screenshot, a PDF, fair | what is returned comes from the page, no event is missed, the wait is right for a page without frames, an operation ends |
| `stealth_targets` | four settings of proxy and controller, fair | commands in order, scripts before commands and before pages run, batches whole, own answers hidden and no others, commands reach Chrome, a proxy returns, no target stays paused (`TargetsGoOn`) because none is forgotten (`HeldNotForgotten`) |
| `early_capture` | violated | a screenshot is taken before the page has reached `waitUntil` |

Bounds of the first seven. The number of requests is the only one. Three requests over one permit
give an owner, a waiter that the permit is assigned to while it gives up, and a
third that connects to, deletes or lists the session meanwhile; maintenance is
a fourth task. Two browsers at once need two permits and two creators, and
their enumeration needs clones of both. A race needs a session and two tasks
that meet at it, and every race of the code has a third, which maintenance or a
deleting request plays. The requests are interchangeable in the code, and the
two large runs use that symmetry; the run with fairness does not.
They check deadlock: the server can always take a call.

Bounds of the others. A browser of `browser_process` is launched again and again
(`Forget`), so that directories and ports have a history. Two browsers are
enough for one to read what another wrote, or to get the port that another had
while its number is still in a file or about to be asked; two ports let both
listen at once, on either port; and of two directories one is of each kind.
The instances of
`rest_operation` differ in script and awaited event. Three events are one to
wait for, one that comes before it and one that comes after; `networkAlmostIdle`
behaves like `networkIdle`. Queues are bounded by what Chrome can report of
about:blank, the page and one frame. `rest_operation` checks no deadlock: an
operation ends for good.

The settings of `stealth_targets` are chosen in `Init`. The proxy of two pages,
with a client that navigates one and queries the other, lets the batches of
both directions meet at the lock. The proxy of one page with a client that uses
an id of Eiger's range and closes covers the ends. The controller alone has two
pages and a worker, as a worker is held and resumed without scripts. Both share
one page that the client has Chrome hold. `EigerIdStart` is 8, which leaves ids
below it for the client; Chrome's buffer of 2 is smaller than a batch, so
that a batch stops half way, and the client's is 1. The proxy ends for good, so
deadlock is not checked here either: that neither side waits for ever is
`CommandForwarded` and `ProxyReturns`.

The samples of `browser_process` (`MCNext` takes a step of the browsers, or of a
sample while nothing has been launched, so that the two do not multiply) read any
table of at most three rows over three processes, and any of four processes, in
every order and with every parent: a grandchild before its parent, a cycle, a
pid listed twice, and a process beside the tree all occur.

Fairness (`FairSpec`) of `SessionServer`. The tokio runtime polls every task that can run, its timers
fire, and the maintenance interval ticks again: weak fairness of the
maintenance task, of `terminate_session` and of launches and handlers. Clients are
owed nothing and owe nothing: none must arrive, disconnect or close its
WebSocket. A proxy returns when its browser is gone (`ProxyLosesBrowser`); this
takes a client that reads what it is sent. A REST operation returns if its
browser is not hung (`RestAnswered`). `HealthTimesOut`, a hung browser that
still answered the WebSocket handshake, is under no fairness. `pool_recycling`
has neither hanging browsers, which refute it (`hung_browser`), nor
disconnecting clients: a `DELETE` cancelled between `sessions.remove` and
`take` leaves a session that no limit applies to any more, for as long as a
proxy still uses it.

Fairness of `BrowserProcess`. The runtime polls launches and shutdowns. A launch that
waits for the answer of a hung browser is exempt (`~Stuck`), as no timeout
covers it. The launch timeout is looked at before each poll, and between two
looks a launch may ask a port where nobody listens any more: strong fairness of
`LaunchTimeout`. Nothing is assumed of Chrome; every wait of a shutdown has a
timeout. Of a sample only the loops are fair (`TreeStep`): `ps` need not answer. Fairness of `RestOperation`. The handler is polled and timers fire.
Chrome owes nothing, and connecting is not assumed to end. `Send` is: Chrome
takes a short command off the connection. Fairness of `StealthTargets`. Both
halves of the proxy and the controller are polled, and Chrome reads what it was
sent on each connection (`ExecuteForProxy`, `ExecuteForController`). Neither
connection need be established, targets need not run, and the client need not
read, send or leave: a client that does not read holds up what Chrome sends
it, and `ProxyReturns` exempts it, but not what it sends (`CommandForwarded`).

## What the code does otherwise than its documents say

* **A launch that is cancelled leaves its Chrome running** (`browser:142`). The
  `Child` has `kill_on_drop(false)` and `LaunchedBrowser`, whose `Drop` kills,
  is built only when Chrome is ready. The permit is returned, so Chrome
  processes exceed the "global concurrency bound". `ChromeProcessesBounded`
  fails; `BrowsersWithinCapacity`, of the processes the server owns, holds.
* **A fresh session can be taken by another client** (`pool:289`). It is listed
  as Ready until its own WebSocket is upgraded, and `mark_in_use` does not look.
* **A browser that never answers a WebSocket handshake stops maintenance**
  (`browser:387`): only the answer to the command has a timeout.
* **A REST request whose client leaves abandons its session** (`api:988`), which
  stays listed as in use until the lifetime limit.
* **Browser exits are never counted as such** (`metrics:203`): nobody waits for
  the child, so it stays in the output of `ps`; the exit is found by the health
  check. `ExitNeverTheReason` holds of the model, against the help text of the counter.
* **Two sessions of one persistent profile share a browser** (`browser:705`).
  The second launch finds the port file of the first, whose browser answers,
  before its own Chrome has noticed that the profile is in use. Whoever ends
  first closes the browser of both. `FreshBrowserEach` fails. Using a
  profile by one session at a time does not help: the file of its last user holds
  an ephemeral port, and if another Chrome has got that meanwhile it is taken for
  the one that was launched, as nothing compares pids or profiles. Even in a
  temporary directory a child that exits after its port was read and before it is
  asked can be taken for whoever got the port. These are the ways there are
  (`OwnBrowser`): in a temporary directory and with the child running the
  endpoint is the child's (`EndpointOwn`).
* **The wait for `waitUntil` can end early** (`api:1510`). Lifecycle events are
  recorded by name: the `load` of an iframe is taken for that of the page, and
  the `networkIdle` that about:blank reports while a slow navigation is under
  way for that of the page. `WaitUntilReached` fails; `TakenWhenReached` says
  when it can be relied on.
* **An answer to a command with an id of 9000000000 or more is dropped**
  (`api:966`), as if the command were Eiger's. No document names a range of ids
  for clients. `AnswersKept` holds of smaller ids, which is all that it claims.

## What is proved

`LaunchQueueProofs` proves what acquiring, releasing, leaving and abandoning do
to the semaphore: `permits + Cardinality(owners)` is constant, nobody waits
twice, no owner waits, and the permit goes to at most one waiter. It goes to the
oldest one, no waiter overtakes another (`InTurn`), and nobody waits while a
permit is free (`NoIdlePermit`).
`SessionServerProofs` proves, for every finite set of requests, every capacity in
`Nat` (`CapacityAssumption`), and whatever failures are allowed:

* `Invariance`: `Spec => []Inv`;
* `TypeCorrect`, `Capacity`, `Permits`, `Owned`, `Listed`: invariants that
  `pool_requests` checks;
* `OneShutdown`: the action property `ShutdownOnce`;
* `PermitsNotIdle` and `ServedInTurn`: the two facts about the queue above, the
  second as an action property, in every state and step of the server. A
  cancelled waiter that was just given the permit passes it on in the same way.

None of the safety properties is inductive. `Capacity` needs every live browser
to belong to the owner of a permit, thus `BrowserInv` (who owns a browser),
`RefInv` (an entry exists exactly as long as something refers to it) and
`OwnerInv` (permits belong to launches and entries, one to one). `RefInv` is
preserved by a launch only if nobody knows the session beforehand (`NameInv`),
and by an iteration only if its clones are empty when it begins (`ClonesInv`).
`ShutdownOnce` needs `ShutdownInv`: a session being shut down is not listed, and one
task shuts it down. Steps that keep every reference have one lemma each with
one step per part of the invariant; those that let go of one are instances of
`QuietDropInv`, and the ends of a launch of `LaunchEndsInv`. TLC checked `Inv`
with two requests before the proof.

`BrowserProcessProofs` proves, for every set of browsers, directories and ports:

* `BrowserInvariance`: types, that a child is reaped only on the way out
  (`ChildInv`) and that Chrome runs in the directory it was given (`ProfileInv`);
  from them `Signals` and `Reaped`;
* `OwnInvariance`, and from it `OwnEndpoint`: `EndpointOwn`. No two Chromes listen
  on one port (`PortInv`), a temporary directory has one user and no file from
  before (`TemporaryInv`), while that Chrome runs its file names its port or none
  (`FileInv`), and hence its launch asks the child and nobody else (`LookInv`).
  Only the port tells whom a launch asks, so the argument needs the child to
  run until it has answered; from then on the URL is enough, which is why
  `Browser.close` goes to no other Chrome though the child may have exited.
* `OwnBrowser`: where `FreshBrowserEach`, which `shared_profile` violates, fails,
  one of the two sessions is in a persistent directory or its child has exited
  (`SharedOnlyIf`). Nothing is claimed of persistent directories, shared or not.
* `ProcessRefinement`: it implements `ProcessLifecycle`, whoever shares directories.
  `LaunchedInv` says that nobody owns a browser before its health check has
  passed, nor when its handle is gone.

`SessionRefinementProofs` continues from the invariant of `SessionServerProofs`:

* `SessionRefinement`: `Spec => Lifecycle!Spec`. Every action moves one session
  or none; that a slot is free when a session starts follows from `PermitsAccounted`.
* `ProcessRefinement`: `Spec => Process!Spec`. `ProcInv` ties the phase of a
  process to the entry that owns it, so that one is an orphan only through
  `CancelLaunch`.
* `OneClient` needs `ConnectedInv` (who connected to a session found it Ready
  and left it InUse, and none becomes Ready again), `ExitUnreported` needs
  `ExitInv` (a session found to have exited was taken off the list before).

Its last section says under which conditions what the violated runs refute does hold,
and so what each of them is down to:

* `PatientClientsBounded`: `ChromeProcessesBounded`, if no client disconnects
  while it is served;
* `UnsharedWithoutConnect`: `FreshSessionUnshared`, if nobody connects by id. Its
  invariant `OwnSessionInv` says that whoever uses a session has created it;
* `ServedByPatientClients`: `InUseSessionServed`, under both conditions: a session
  that is listed as in use has a creator that serves it (`ServedInv`).

These are hypotheses on what clients do (`ClientsMayDisconnect` and `Ops`), and the
first is that of `pool_recycling`.

`CdpProxyProofs` proves, for any sessions, commands and buffers:

* `ProxyInvariance`: `ControlInv` (the lock is held by a half that sends, and
  awaited by one that is about to), `BatchInv` (the commands of a batch under way
  are the last ones sent), `InjectionInv` (an event that has been forwarded comes
  after the scripts for its page), `NavigationInv` (a navigation whose batch is sent
  only waits to be forwarded), and `OwnInv` (what Eiger sends, and the answers to
  it, have ids from `EigerIdStart` on);
* from it `ScriptsFirst`, `WholeBatches`, `ScriptsAgain`, `OwnAnswers` and
  `ClientAnswers`. `AnswerOf` relates what was executed to what is on its way or
  was delivered;
* `CommandsInOrder`: `ForwardedInOrder`. The n-th command of the client on the
  connection is the n-th that it sent, counted by the cardinality of the places
  (`ForwardInv`), so that no recursion is needed;
* `LockNeverOnClient`: the lock is held or awaited by exactly the halves that
  have something to send (`AskedInv` and `LockInv`), never by one that waits for the
  client. This is why `CommandForwarded` needs no client that reads.

`StealthTargetsProofs` proves, under `Stealth` and for any targets and settings:

* `ProxyBesideController`: the above holds of the proxy next to a controller,
  since each step of `StealthTargets` is one of the proxy or leaves it alone;
* `TargetTypes`, and `ScriptsBeforePages`: `PatchedBeforeRunning`. `OrderInv` says
  that a command to resume a target comes after the scripts in the queue to
  Chrome, `HeldInv` that a target created under auto-attach is held until then,
  and `EffectInv` that scripts the proxy has had executed are in their page;
* `NoTargetForgotten`: `HeldNotForgotten`. For every held target the report or
  the command that lets it go is under way, whatever other reports and commands
  are in between (`ReleaseInv`, which also says that Chrome holds nothing before
  the controller has connected).

`RestOperationProofs` proves, for any operations and lifecycle events:

* `ScriptShape`: in the script of every operation the page is created first,
  lifecycle events are enabled fourth, the wait follows the one navigation, and
  what is returned is taken last;
* `Invariance`: `CommandInv` (one command is under way, on its way to Chrome, in
  Chrome as a navigation, or answered behind events, and an answer without error
  means that it has achieved what it is for), `PageInv` (where the document is
  when the handler is at a command), `SeenInv` (from the navigation on what the page
  reaches has been read or is queued) and `SettledInv` (what about:blank reached
  was reported before the navigation forgot it);
* from it `RestTypes`, `FromPage`, `WhenReached` and `NotMissed`. None is
  inductive: that a wait misses nothing depends on `navigate_page` clearing the
  recorded events before Chrome can commit the document.

`ProcessTreeProofs` proves, for any tables of `ps` and any browser:

* `SampleInvariance`: `ListInv` (the list holds descendants of the browser, each
  once), `WalkInv` (the children of those that the cursor has passed are in the
  list, or further down among the rows) and `CountInv`;
* `SampleCorrect`: `SampleIsTree`. The family of a process is the least set that
  is closed under children; that the list is it at the end of the walk takes both
  directions, by `ListInv` and by `WalkInv`, and no induction over the table;
* `SampleProgress`: every step of the loops takes the natural number `StepsLeft`
  down, also if parents form a cycle. It is the safety part of `SampleEnds`.

The assumptions are those that the modules name: `CapacityAssumption`,
`TaskAssumption` (the maintenance task and the absent session are no requests),
`BrowserAssumption` (temporary directories are directories, and the constants
that are no browser, directory or port differ from those that are), `ProxyAssumption`, `ControllerAssumption`, `TargetAssumption` (types of
the constants; a client's session is named after its target),
`RestAssumption` (types again: an operation waits for an event that frames report)
and `TableAssumption` (types of the tables, which are otherwise arbitrary).

Only model-checked: liveness (`ExpiredRecycled`, `SlotReturned`, `CommandForwarded`,
`ProxyReturns`, `TargetsGoOn`, `LaunchEnds`, `ShutdownEnds`, `OperationEnds`,
`SampleEnds`), which is out of the prover's reach. Every invariant and every
action property of the passing runs is a theorem.

## What is not modelled

* The counters of `GET /metrics`, which nothing else reads, and `GET /ready`:
  the two flags it reads are written one after the other by concurrent
  launches, and no document says how they relate.
* The resident memory of a browser, which may exceed its limit at any sample.
* Configuration, authorization, rate limits and rendering, which have no state
  that sessions depend on; `eiger-server`, which only starts them. A signal ends
  the process without shutting sessions down, and nothing survives a restart.
* What commands carry and how results are decoded; the scripts of
  `eiger-stealth`, which are constants, and the Node client, which wraps HTTP.
* Loss, duplication or reordering of messages: every connection is TCP, and the
  end of one is a step of the models.

## What is left

The precedence of query, launch options and body as a function
(`SessionOptions`); `RestOperation` next to `StealthController`, which
drive the same page over two connections.
