-------------------------- MODULE MCStealthTargets --------------------------
(***************************************************************************)
(* Instances of StealthTargets for TLC, all in one run: the proxy of two   *)
(* pages, and of one page with a client that closes and uses a large id;   *)
(* the controller of two pages and a worker; and both, on one page.        *)
(***************************************************************************)
EXTENDS StealthTargets

CONSTANTS p1, p2, worker

AllTargets == {p1, p2, worker}
TwoPages == {p1, p2}

Command(id, s, m) ==
  [from |-> "client", id |-> id, session |-> s, method |-> m]

Navigate == Command(1, p1, "navigate")
Query == Command(EigerIdStart - 1, p2, "other")
Resume == Command(3, p1, "resume")
LargeId == Command(EigerIdStart, NoSession, "other")
Close == Command(0, NoSession, "close")

AllCommands == {Navigate, Query, Resume, LargeId, Close}

Setting(proxied, controlled, waits, targets, someCommands) ==
  [proxied |-> proxied, controlled |-> controlled, waits |-> waits,
   targets |-> targets, commands |-> someCommands]

FourSettings ==
  {Setting(TRUE, FALSE, FALSE, TwoPages, {Navigate, Query}),
   Setting(TRUE, FALSE, FALSE, {p1}, {LargeId, Close}),
   Setting(FALSE, TRUE, FALSE, AllTargets, {}),
   Setting(TRUE, TRUE, TRUE, {p1}, {Resume})}

=============================================================================
