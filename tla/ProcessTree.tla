---------------------------- MODULE ProcessTree ----------------------------
(***************************************************************************)
(* sample_process_tree of eiger-metrics: the memory, the share of the CPU  *)
(* and the number of the processes that descend from a browser, as ps      *)
(* lists them, in any order.  A row is a process and its parent; what is   *)
(* summed up over rows is kept as the set of the rows that were counted.   *)
(* One step of the loops is one action.                                    *)
(***************************************************************************)
EXTENDS Naturals, SequencesExt

CONSTANTS Pids,    \* numbers of processes
          Root,    \* that of the browser that is sampled
          Tables   \* what ps may list: the rows that parse

(* ps reads the table process by process: a pid that is used again         *)
(* meanwhile may give two rows, and parents may form a cycle.              *)
ASSUME TableAssumption ==
  /\ Root \in Pids
  /\ Tables \subseteq Seq([pid : Pids, ppid : Pids])

VARIABLES at,           \* where the sample is
          rows,         \* what ps has listed
          descendants,  \* found so far, <<>> if the tree is not walked
          cursor,       \* the next of them to look for children of
          current,      \* the one whose children are looked for
          row,          \* the next row of a loop over the rows
          counted       \* rows that are part of the sample

sampleVars == <<at, rows, descendants, cursor, current, row, counted>>

SampleStart ==
  /\ at = "ps" /\ rows = <<>> /\ descendants = <<>>
  /\ cursor = 1 /\ current = Root /\ row = 1 /\ counted = {}

Listed(pid, table) == \E i \in DOMAIN table : table[i].pid = pid

(* ps cannot be run, or cannot list all processes: then the browser alone  *)
(* is sampled.                                                             *)
PsFails ==
  /\ at = "ps"
  /\ at' \in {"none", "one"}
  /\ UNCHANGED <<rows, descendants, cursor, current, row, counted>>

ListProcesses ==
  /\ at = "ps"
  /\ rows' \in Tables
  /\ IF Listed(Root, rows')
     THEN at' = "walk" /\ descendants' = <<Root>>
     ELSE at' = "none" /\ UNCHANGED descendants
  /\ UNCHANGED <<cursor, current, row, counted>>

(* sample_process: ps -p lists the browser or fails.                       *)
SampleProcess ==
  /\ at = "one"
  /\ rows' \in Tables
  /\ IF Listed(Root, rows')
     THEN at' = "some" /\ \E i \in DOMAIN rows' :
                            rows'[i].pid = Root /\ counted' = {i}
     ELSE at' = "none" /\ UNCHANGED counted
  /\ UNCHANGED <<descendants, cursor, current, row>>

(* Mutant: the list is walked as long as it was when the loop began.       *)
RootToVisit == cursor <= 1

(* The list grows while the cursor walks along it.                         *)
ToVisit == cursor <= Len(descendants)

(* Mutant: the cursor stays where it is.                                   *)
SameCursor == cursor

NextCursor == cursor + 1

VisitNext ==
  /\ at = "walk" /\ ToVisit
  /\ current' = descendants[cursor]
  /\ cursor' = NextCursor
  /\ row' = 1
  /\ at' = "scan"
  /\ UNCHANGED <<rows, descendants, counted>>

IsNewChild(r) == r.ppid = current /\ ~Contains(descendants, r.pid)

ScanRow ==
  /\ at = "scan" /\ row <= Len(rows)
  /\ descendants' = IF IsNewChild(rows[row])
                    THEN Append(descendants, rows[row].pid) ELSE descendants
  /\ row' = row + 1
  /\ UNCHANGED <<at, rows, cursor, current, counted>>

ScanEnds ==
  /\ at = "scan" /\ row > Len(rows)
  /\ at' = "walk"
  /\ UNCHANGED <<rows, descendants, cursor, current, row, counted>>

WalkEnds ==
  /\ at = "walk" /\ ~ToVisit
  /\ row' = 1
  /\ at' = "count"
  /\ UNCHANGED <<rows, descendants, cursor, current, counted>>

CountRow ==
  /\ at = "count" /\ row <= Len(rows)
  /\ counted' = counted \cup IF Contains(descendants, rows[row].pid)
                             THEN {row} ELSE {}
  /\ row' = row + 1
  /\ UNCHANGED <<at, rows, descendants, cursor, current>>

CountEnds ==
  /\ at = "count" /\ row > Len(rows)
  /\ at' = "some"
  /\ UNCHANGED <<rows, descendants, cursor, current, row, counted>>

(* Maintenance, GET /sessions and GET /metrics sample again and again.     *)
SampleAgain ==
  /\ at \in {"some", "none"}
  /\ at' = "ps" /\ rows' = <<>> /\ descendants' = <<>>
  /\ cursor' = 1 /\ current' = Root /\ row' = 1 /\ counted' = {}

TreeStep ==
  \/ VisitNext \/ ScanRow \/ ScanEnds \/ WalkEnds
  \/ CountRow \/ CountEnds

SampleNext ==
  PsFails \/ ListProcesses \/ SampleProcess \/ TreeStep \/ SampleAgain

SampleSpec == SampleStart /\ [][SampleNext]_sampleVars

----------------------------------------------------------------------------
(* Properties *)

(* The processes that a path of parents leads from to pid, and pid itself. *)
ClosedUnderChildren(S, table) ==
  \A i \in DOMAIN table : table[i].ppid \in S => table[i].pid \in S

Family(pid, table) ==
  {q \in Pids : \A S \in SUBSET Pids :
                  pid \in S /\ ClosedUnderChildren(S, table) => q \in S}

(* A sample counts every row of the browser and its descendants and no     *)
(* other, whatever their order, even if parents form a cycle; where ps     *)
(* does not list all processes it counts the browser once; and there is    *)
(* none, which maintenance takes for an exit, only if the browser is not   *)
(* listed or ps cannot be run (no rows at all).                            *)
SampleIsTree ==
  /\ at = "some" /\ descendants # <<>> =>
       counted = {i \in DOMAIN rows : rows[i].pid \in Family(Root, rows)}
  /\ at = "some" /\ descendants = <<>> =>
       \E i \in DOMAIN rows : rows[i].pid = Root /\ counted = {i}
  /\ at = "none" => ~Listed(Root, rows)

(* Once ps has answered the loops end, whoever is whose parent: nobody     *)
(* enters the list twice.                                                  *)
SampleEnds == at = "walk" ~> at = "some"

=============================================================================
