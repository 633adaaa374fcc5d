-------------------------- MODULE MCBrowserProcess --------------------------
(***************************************************************************)
(* Instances of BrowserProcess and ProcessTree for TLC, in one run: either *)
(* two browsers at a time are launched over and over again, or nothing     *)
(* happens to them and one is sampled over and over again, from any three  *)
(* rows of three processes and from any four processes, in any order, each *)
(* the child of any one or of one that is not listed.                      *)
(***************************************************************************)
EXTENDS BrowserProcess, ProcessTree

CONSTANTS b1, b2, p1, p2, n1, n2

TwoBrowsers == {b1, b2}
TwoProfiles == {p1, p2}
TheFirst == {p1}
OneProfile == {p1}
NoProfile == {}
TwoPorts == {n1, n2}

UpToFour == 0..4

ThreeRows == UNION {[1..n -> [pid : 1..3, ppid : 0..3]] : n \in 0..3}

(* The browser is 1; the others are numbered as they are listed.           *)
FourRows ==
  {[i \in 1..4 |->
      [ppid |-> parent[i],
       pid |-> IF i = place THEN 1 ELSE IF i < place THEN i + 1 ELSE i]] :
     parent \in [1..4 -> 0..4], place \in 1..4}

SmallTables == ThreeRows \cup FourRows
NoRows == {<<>>}

MCInit == Init /\ SampleStart

MCNext ==
  \/ at = "ps" /\ Next /\ UNCHANGED sampleVars
  \/ Init /\ SampleNext /\ UNCHANGED vars

(* ps need not answer; the loops over what it listed do not wait.          *)
MCSpec ==
  /\ MCInit /\ [][MCNext]_<<vars, sampleVars>>
  /\ Fairness /\ WF_sampleVars(TreeStep)

=============================================================================
