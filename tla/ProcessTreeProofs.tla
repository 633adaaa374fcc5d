------------------------- MODULE ProcessTreeProofs -------------------------
(***************************************************************************)
(* What a sample of a process tree counts, and that it ends, for every     *)
(* table of processes: parents need not precede their children, pids may   *)
(* occur twice and parents form cycles.                                    *)
(***************************************************************************)
EXTENDS ProcessTree, FiniteSetTheorems, TLAPS

Row == [pid : Pids, ppid : Pids]

SampleTypeOK ==
  /\ at \in {"ps", "one", "walk", "scan", "count", "some", "none"}
  /\ rows \in Seq(Row)
  /\ descendants \in Seq(Pids)
  /\ cursor \in Nat \ {0} /\ row \in Nat \ {0}
  /\ current \in Pids

(* Before ps has answered there is nothing.                                *)
StartInv ==
  at \in {"ps", "one"} =>
    /\ rows = <<>> /\ descendants = <<>> /\ counted = {}
    /\ cursor = 1 /\ row = 1

(* The list holds descendants of the browser only, each one once, the      *)
(* browser first.                                                          *)
ListInv ==
  /\ \A j, k \in 1..Len(descendants) :
       descendants[j] = descendants[k] => j = k
  /\ \A k \in 1..Len(descendants) :
       Listed(descendants[k], rows) /\ descendants[k] \in Family(Root, rows)
  /\ at \in {"walk", "scan", "count"} => descendants # <<>>
  /\ descendants # <<>> => descendants[1] = Root

(* The children of those that the cursor has passed are in the list, or    *)
(* further down among the rows.                                            *)
WalkInv ==
  /\ cursor <= Len(descendants) + 1
  /\ at = "scan" => cursor > 1 /\ current = descendants[cursor - 1]
  /\ at = "scan" => row <= Len(rows) + 1
  /\ descendants # <<>> =>
       \A i \in 1..Len(rows), k \in 1..(cursor - 1) :
         rows[i].ppid = descendants[k]
           /\ (at = "scan" /\ k = cursor - 1 => i < row) =>
         Contains(descendants, rows[i].pid)
  /\ at \in {"count", "some"} /\ descendants # <<>> =>
       cursor = Len(descendants) + 1

(* The rows of those in the list are counted.                              *)
CountInv ==
  /\ at \in {"walk", "scan"} => counted = {}
  /\ at = "count" =>
       /\ row <= Len(rows) + 1
       /\ counted = {i \in 1..(row - 1) : Contains(descendants, rows[i].pid)}
  /\ at = "some" /\ descendants # <<>> =>
       counted = {i \in 1..Len(rows) : Contains(descendants, rows[i].pid)}
  /\ at = "some" /\ descendants = <<>> =>
       \E i \in 1..Len(rows) : rows[i].pid = Root /\ counted = {i}
  /\ at = "none" => ~Listed(Root, rows)

SampleInv == SampleTypeOK /\ StartInv /\ ListInv /\ WalkInv /\ CountInv

----------------------------------------------------------------------------
(* Families and lists *)

(* The browser belongs to its family.                                      *)
LEMMA FamilyRoot ==
  ASSUME NEW table
  PROVE  Root \in Family(Root, table)
BY TableAssumption DEF Family

(* What a row of a table is.                                               *)
LEMMA RowTyped ==
  ASSUME NEW table \in Seq(Row)
  PROVE  /\ DOMAIN table = 1..Len(table) /\ Len(table) \in Nat
         /\ \A i \in 1..Len(table) : table[i].pid \in Pids
<1>1. \A i \in 1..Len(table) : table[i] \in Row
  OBVIOUS
<1>2. \A i \in 1..Len(table) : table[i].pid \in Pids
  BY <1>1 DEF Row
<1> QED
  BY <1>2

(* What ps may list is a sequence of rows.                                 *)
LEMMA TableTyped == \A table \in Tables : table \in Seq(Row)
BY TableAssumption DEF Row

(* With a process its children do.                                         *)
LEMMA FamilyChild ==
  ASSUME NEW table \in Seq(Row), NEW i \in 1..Len(table),
         table[i].ppid \in Family(Root, table)
  PROVE  table[i].pid \in Family(Root, table)
<1>1. table[i].pid \in Pids /\ i \in DOMAIN table
  BY RowTyped
<1>2. ASSUME NEW S \in SUBSET Pids, Root \in S, ClosedUnderChildren(S, table)
      PROVE  table[i].pid \in S
  <2>1. table[i].ppid \in S
    BY <1>2 DEF Family
  <2> QED
    BY <1>1, <1>2, <2>1 DEF ClosedUnderChildren
<1> QED
  BY <1>1, <1>2 DEF Family

(* It is the least set of that kind.                                       *)
LEMMA FamilyLeast ==
  ASSUME NEW table, NEW S \in SUBSET Pids, Root \in S,
         ClosedUnderChildren(S, table)
  PROVE  Family(Root, table) \subseteq S
BY DEF Family

(* What a longer list contains.                                            *)
LEMMA ContainsAppended ==
  ASSUME NEW list \in Seq(Pids), NEW e \in Pids
  PROVE  /\ Append(list, e) \in Seq(Pids)
         /\ Len(Append(list, e)) = Len(list) + 1
         /\ \A k \in 1..Len(list) : Append(list, e)[k] = list[k]
         /\ Append(list, e)[Len(list) + 1] = e
         /\ \A p : Contains(Append(list, e), p) <=> Contains(list, p) \/ p = e
<1>1. /\ Append(list, e) \in Seq(Pids)
      /\ Len(Append(list, e)) = Len(list) + 1
      /\ \A k \in 1..Len(list) : Append(list, e)[k] = list[k]
      /\ Append(list, e)[Len(list) + 1] = e
  OBVIOUS
<1>2. \A k : k \in 1..(Len(list) + 1) <=> k \in 1..Len(list) \/ k = Len(list) + 1
  OBVIOUS
<1>3. \A p : Contains(Append(list, e), p) <=> Contains(list, p) \/ p = e
  BY <1>1, <1>2 DEF Contains
<1> QED
  BY <1>1, <1>3

----------------------------------------------------------------------------
(* The steps of a sample *)

(* Nothing is sampled yet.                                                 *)
LEMMA SampleStarts == SampleStart => SampleInv
<1> SUFFICES ASSUME SampleStart PROVE SampleInv
  OBVIOUS
<1> USE DEF SampleStart
<1>1. SampleTypeOK
  BY TableAssumption DEF SampleTypeOK
<1>2. Len(descendants) = 0 /\ Len(rows) = 0
  OBVIOUS
<1>3. StartInv /\ ListInv /\ WalkInv /\ CountInv
  BY <1>2 DEF StartInv, ListInv, WalkInv, CountInv
<1> QED
  BY <1>1, <1>3 DEF SampleInv

(* ps answers, and there is something to walk over, or the sample ends.    *)
LEMMA PsInv ==
  ASSUME SampleInv, PsFails \/ ListProcesses \/ SampleProcess
  PROVE  SampleInv'
<1> USE DEF SampleInv
<1>1. /\ at \in {"ps", "one"} /\ rows = <<>> /\ descendants = <<>>
      /\ counted = {} /\ cursor = 1 /\ row = 1 /\ current \in Pids
  BY DEF PsFails, ListProcesses, SampleProcess, StartInv, SampleTypeOK
<1>2. CASE PsFails
  <2>1. /\ at' \in {"none", "one"}
        /\ UNCHANGED <<rows, descendants, cursor, current, row, counted>>
    BY <1>2 DEF PsFails
  <2>2. Len(descendants) = 0 /\ Len(rows) = 0
    BY <1>1
  <2>3. SampleTypeOK'
    BY <1>1, <2>1 DEF SampleTypeOK
  <2>4. StartInv' /\ ListInv' /\ WalkInv' /\ CountInv'
    BY <1>1, <2>1, <2>2 DEF StartInv, ListInv, WalkInv, CountInv, Listed
  <2> QED
    BY <2>3, <2>4
<1>3. CASE SampleProcess
  <2>1. /\ rows' \in Seq(Row)
        /\ UNCHANGED <<descendants, cursor, current, row>>
        /\ DOMAIN rows' = 1..Len(rows')
    BY <1>3, TableTyped, RowTyped DEF SampleProcess
  <2>2. \/ /\ at' = "some"
           /\ \E i \in 1..Len(rows') : rows'[i].pid = Root /\ counted' = {i}
        \/ at' = "none" /\ ~Listed(Root, rows') /\ counted' = {}
    BY <1>1, <1>3, <2>1 DEF SampleProcess
  <2>3. Len(descendants') = 0 /\ descendants' = <<>> /\ cursor' = 1
    BY <1>1, <2>1
  <2>4. SampleTypeOK'
    BY <1>1, <2>1, <2>2 DEF SampleTypeOK
  <2>5. StartInv' /\ ListInv' /\ WalkInv'
    BY <2>2, <2>3 DEF StartInv, ListInv, WalkInv
  <2>6. CountInv'
    BY <2>2, <2>3 DEF CountInv
  <2> QED
    BY <2>4, <2>5, <2>6
<1>4. CASE ListProcesses
  <2>1. /\ rows' \in Seq(Row) /\ DOMAIN rows' = 1..Len(rows')
        /\ UNCHANGED <<cursor, current, row, counted>>
    BY <1>4, TableTyped, RowTyped DEF ListProcesses
  <2>2. CASE Listed(Root, rows')
    <3>1. at' = "walk" /\ descendants' = <<Root>> /\ Len(descendants') = 1
          /\ descendants'[1] = Root
      BY <1>4, <2>2 DEF ListProcesses
    <3>2. SampleTypeOK'
      BY <1>1, <2>1, <3>1, TableAssumption DEF SampleTypeOK
    <3>3. StartInv' /\ WalkInv' /\ CountInv'
      BY <1>1, <2>1, <3>1 DEF StartInv, WalkInv, CountInv
    <3>4. ListInv'
      <4>1. \A k \in 1..Len(descendants') : k = 1
        BY <3>1
      <4> QED
        BY <2>2, <3>1, <4>1, FamilyRoot DEF ListInv
    <3> QED
      BY <3>2, <3>3, <3>4
  <2>3. CASE ~Listed(Root, rows')
    <3>1. at' = "none" /\ descendants' = <<>> /\ Len(descendants') = 0
      BY <1>1, <1>4, <2>3 DEF ListProcesses
    <3>2. SampleTypeOK'
      BY <1>1, <2>1, <3>1 DEF SampleTypeOK
    <3>3. StartInv' /\ ListInv' /\ WalkInv' /\ CountInv'
      BY <1>1, <2>1, <2>3, <3>1 DEF StartInv, ListInv, WalkInv, CountInv
    <3> QED
      BY <3>2, <3>3
  <2> QED
    BY <2>2, <2>3
<1> QED
  BY <1>2, <1>3, <1>4

(* The cursor moves on: nothing is known yet of the children of the one it *)
(* has passed, and it will be.                                             *)
LEMMA VisitInv == SampleInv /\ VisitNext => SampleInv'
<1> SUFFICES ASSUME SampleInv, VisitNext PROVE SampleInv'
  OBVIOUS
<1> USE DEF SampleInv
<1>1. /\ at = "walk" /\ at' = "scan" /\ row' = 1
      /\ cursor' = cursor + 1 /\ current' = descendants[cursor]
      /\ cursor <= Len(descendants)
      /\ UNCHANGED <<rows, descendants, counted>>
  BY DEF VisitNext, NextCursor, ToVisit
<1>2. /\ cursor \in Nat \ {0} /\ Len(descendants) \in Nat /\ Len(rows) \in Nat
      /\ descendants \in Seq(Pids)
  BY DEF SampleTypeOK
<1>3. SampleTypeOK'
  <2>1. current' \in Pids
    BY <1>1, <1>2
  <2> QED
    BY <1>1, <2>1 DEF SampleTypeOK
<1>4. StartInv' /\ CountInv'
  BY <1>1 DEF StartInv, CountInv
<1>5. ListInv'
  BY <1>1 DEF ListInv
<1>6. WalkInv'
  <2>1. cursor' > 1 /\ cursor' - 1 = cursor /\ cursor' <= Len(descendants') + 1
    BY <1>1, <1>2
  <2>2. row' <= Len(rows') + 1
    BY <1>1, <1>2
  <2>3. ASSUME NEW i \in 1..Len(rows), NEW k \in 1..(cursor' - 1),
               rows[i].ppid = descendants[k], k = cursor' - 1 => i < row',
               descendants # <<>>
        PROVE  Contains(descendants, rows[i].pid)
    <3>1. k # cursor
      BY <1>1, <1>2, <2>1, <2>3
    <3>2. k \in 1..(cursor - 1)
      BY <1>2, <2>1, <3>1
    <3> QED
      BY <1>1, <2>3, <3>2 DEF WalkInv
  <2> QED
    BY <1>1, <2>1, <2>2, <2>3 DEF WalkInv
<1> QED
  BY <1>3, <1>4, <1>5, <1>6

(* A row is looked at: its process is in the list afterwards, if it is a   *)
(* child of the one at hand.                                               *)
LEMMA ScanInv == SampleInv /\ ScanRow => SampleInv'
<1> SUFFICES ASSUME SampleInv, ScanRow PROVE SampleInv'
  OBVIOUS
<1> USE DEF SampleInv
<1>1. /\ at = "scan" /\ row <= Len(rows) /\ row' = row + 1
      /\ descendants' = IF IsNewChild(rows[row])
                        THEN Append(descendants, rows[row].pid)
                        ELSE descendants
      /\ UNCHANGED <<at, rows, cursor, current, counted>>
  BY DEF ScanRow
<1>2. /\ row \in 1..Len(rows) /\ rows \in Seq(Row) /\ Len(rows) \in Nat
      /\ descendants \in Seq(Pids) /\ Len(descendants) \in Nat
      /\ cursor \in Nat \ {0} /\ row \in Nat \ {0}
  BY <1>1 DEF SampleTypeOK
<1>3. rows[row].pid \in Pids /\ row \in DOMAIN rows
  BY <1>2, RowTyped
<1>4. /\ cursor > 1 /\ current = descendants[cursor - 1]
      /\ cursor <= Len(descendants) + 1 /\ descendants # <<>>
  BY <1>1 DEF WalkInv, ListInv
<1>5. /\ cursor - 1 \in 1..Len(descendants)
      /\ current \in Family(Root, rows)
  <2>1. cursor - 1 \in 1..Len(descendants)
    BY <1>2, <1>4
  <2> QED
    BY <1>4, <2>1 DEF ListInv
<1>6. /\ descendants' \in Seq(Pids)
      /\ Len(descendants') \in {Len(descendants), Len(descendants) + 1}
      /\ \A k \in 1..Len(descendants) : descendants'[k] = descendants[k]
      /\ \A k \in 1..Len(descendants') :
           \/ k \in 1..Len(descendants)
           \/ /\ k = Len(descendants) + 1 /\ descendants'[k] = rows[row].pid
              /\ IsNewChild(rows[row])
      /\ \A p : Contains(descendants, p) => Contains(descendants', p)
      /\ rows[row].ppid = current => Contains(descendants', rows[row].pid)
  <2>1. CASE IsNewChild(rows[row])
    <3> DEFINE longer == Append(descendants, rows[row].pid)
    <3>1. /\ longer \in Seq(Pids) /\ Len(longer) = Len(descendants) + 1
          /\ \A k \in 1..Len(descendants) : longer[k] = descendants[k]
          /\ longer[Len(descendants) + 1] = rows[row].pid
          /\ \A p : Contains(longer, p)
                      <=> Contains(descendants, p) \/ p = rows[row].pid
      BY <1>2, <1>3, ContainsAppended
    <3>2. descendants' = longer
      BY <1>1, <2>1
    <3> HIDE DEF longer
    <3>3. \A k \in 1..Len(longer) :
            k \in 1..Len(descendants) \/ k = Len(descendants) + 1
      BY <1>2, <3>1
    <3> QED
      BY <2>1, <3>1, <3>2, <3>3
  <2>2. CASE ~IsNewChild(rows[row])
    <3>1. descendants' = descendants
      BY <1>1, <2>2
    <3>2. rows[row].ppid = current => Contains(descendants, rows[row].pid)
      BY <2>2 DEF IsNewChild
    <3> QED
      BY <1>2, <3>1, <3>2
  <2> QED
    BY <2>1, <2>2
<1>7. SampleTypeOK'
  BY <1>1, <1>2, <1>6 DEF SampleTypeOK
<1>8. StartInv' /\ CountInv'
  BY <1>1 DEF StartInv, CountInv
<1>9. ListInv'
  <2>1. ASSUME NEW k \in 1..Len(descendants')
        PROVE  /\ Listed(descendants'[k], rows)
               /\ descendants'[k] \in Family(Root, rows)
    <3>1. CASE k \in 1..Len(descendants)
      BY <1>6, <3>1 DEF ListInv
    <3>2. CASE descendants'[k] = rows[row].pid /\ IsNewChild(rows[row])
      <4>1. rows[row].ppid \in Family(Root, rows)
        BY <1>5, <3>2 DEF IsNewChild
      <4>2. rows[row].pid \in Family(Root, rows)
        BY <1>2, <4>1, FamilyChild
      <4>3. Listed(rows[row].pid, rows)
        BY <1>3 DEF Listed
      <4> QED
        BY <3>2, <4>2, <4>3
    <3> QED
      BY <1>6, <2>1, <3>1, <3>2
  <2>2. ASSUME NEW j \in 1..Len(descendants'), NEW k \in 1..Len(descendants'),
               descendants'[j] = descendants'[k]
        PROVE  j = k
    <3>1. ASSUME NEW m \in 1..Len(descendants), IsNewChild(rows[row])
          PROVE  descendants[m] # rows[row].pid
      BY <3>1 DEF IsNewChild, Contains
    <3>2. CASE j \in 1..Len(descendants) /\ k \in 1..Len(descendants)
      BY <1>6, <2>2, <3>2 DEF ListInv
    <3>3. CASE j \in 1..Len(descendants) /\ k \notin 1..Len(descendants)
      BY <1>6, <2>2, <3>1, <3>3
    <3>4. CASE j \notin 1..Len(descendants) /\ k \in 1..Len(descendants)
      BY <1>6, <2>2, <3>1, <3>4
    <3>5. CASE j \notin 1..Len(descendants) /\ k \notin 1..Len(descendants)
      BY <1>6, <3>5
    <3> QED
      BY <3>2, <3>3, <3>4, <3>5
  <2>3. descendants' # <<>> /\ descendants'[1] = Root
    <3>1. 1 \in 1..Len(descendants) /\ descendants[1] = Root
      BY <1>2, <1>4 DEF ListInv
    <3>2. Len(descendants') # 0
      BY <1>2, <1>6, <3>1
    <3>3. descendants' # <<>>
      BY <1>6, <3>2
    <3> QED
      BY <1>6, <3>1, <3>3
  <2> QED
    BY <1>1, <2>1, <2>2, <2>3 DEF ListInv
<1>10. WalkInv'
  <2>1. cursor' <= Len(descendants') + 1 /\ row' <= Len(rows') + 1
    BY <1>1, <1>2, <1>4, <1>6
  <2>2. cursor' > 1 /\ current' = descendants'[cursor' - 1]
    BY <1>1, <1>4, <1>5, <1>6
  <2>3. ASSUME NEW i \in 1..Len(rows), NEW k \in 1..(cursor - 1),
               rows[i].ppid = descendants'[k], k = cursor - 1 => i < row'
        PROVE  Contains(descendants', rows[i].pid)
    <3>1. k \in 1..Len(descendants) /\ rows[i].ppid = descendants[k]
      BY <1>2, <1>4, <1>6, <2>3
    <3>2. CASE k = cursor - 1 /\ i = row
      BY <1>4, <1>6, <3>1, <3>2
    <3>3. CASE ~(k = cursor - 1 /\ i = row)
      <4>1. k = cursor - 1 => i < row
        BY <1>1, <1>2, <2>3, <3>3
      <4>2. Contains(descendants, rows[i].pid)
        BY <1>4, <3>1, <4>1 DEF WalkInv
      <4> QED
        BY <1>6, <4>2
    <3> QED
      BY <3>2, <3>3
  <2> QED
    BY <1>1, <2>1, <2>2, <2>3 DEF WalkInv
<1> QED
  BY <1>7, <1>8, <1>9, <1>10

(* All rows have been looked at for the one at hand, or for all of them.   *)
LEMMA LoopEndsInv ==
  ASSUME SampleInv, ScanEnds \/ WalkEnds
  PROVE  SampleInv'
<1> USE DEF SampleInv
<1>2. /\ Len(rows) \in Nat /\ Len(descendants) \in Nat
      /\ cursor \in Nat \ {0} /\ row \in Nat \ {0}
  BY DEF SampleTypeOK
<1>1. /\ UNCHANGED <<rows, descendants, cursor, current, counted>>
      /\ \/ at = "scan" /\ at' = "walk" /\ row > Len(rows) /\ row' = row
         \/ at = "walk" /\ at' = "count" /\ row' = 1
              /\ cursor > Len(descendants)
  BY <1>2 DEF ScanEnds, WalkEnds, ToVisit
<1>3. SampleTypeOK'
  BY <1>1 DEF SampleTypeOK
<1>4. StartInv' /\ ListInv'
  BY <1>1 DEF StartInv, ListInv
<1>5. WalkInv'
  <2>1. cursor' <= Len(descendants') + 1
    BY <1>1 DEF WalkInv
  <2>2. at' = "count" => cursor' = Len(descendants') + 1
    BY <1>1, <1>2, <2>1
  <2>3. ASSUME NEW i \in 1..Len(rows), NEW k \in 1..(cursor - 1),
               rows[i].ppid = descendants[k], descendants # <<>>
        PROVE  Contains(descendants, rows[i].pid)
    <3>1. at = "scan" => i < row
      BY <1>1, <1>2
    <3> QED
      BY <2>3, <3>1 DEF WalkInv
  <2> QED
    BY <1>1, <2>1, <2>2, <2>3 DEF WalkInv
<1>6. CountInv'
  <2>1. CASE at' = "walk"
    BY <1>1, <2>1 DEF CountInv
  <2>2. CASE at' = "count"
    <3>1. counted' = {} /\ row' = 1
      BY <1>1, <2>2 DEF CountInv
    <3>2. {i \in 1..(row' - 1) : Contains(descendants', rows'[i].pid)} = {}
      BY <3>1
    <3>3. row' <= Len(rows') + 1
      BY <1>1, <1>2, <3>1
    <3> QED
      BY <2>2, <3>1, <3>2, <3>3 DEF CountInv
  <2> QED
    BY <1>1, <2>1, <2>2
<1> QED
  BY <1>3, <1>4, <1>5, <1>6

(* A row is counted if its process is in the list.                         *)
LEMMA CountStepInv ==
  ASSUME SampleInv, CountRow \/ CountEnds
  PROVE  SampleInv'
<1> USE DEF SampleInv
<1>1. /\ UNCHANGED <<rows, descendants, cursor, current>>
      /\ at = "count" /\ at' \in {"count", "some"}
  BY DEF CountRow, CountEnds
<1>2. /\ Len(rows) \in Nat /\ row \in Nat \ {0} /\ descendants # <<>>
      /\ row <= Len(rows) + 1
      /\ counted = {i \in 1..(row - 1) : Contains(descendants, rows[i].pid)}
  BY <1>1 DEF SampleTypeOK, ListInv, CountInv
<1>3. row' \in {row, row + 1}
  BY DEF CountRow, CountEnds
<1>4. SampleTypeOK'
  BY <1>1, <1>2, <1>3 DEF SampleTypeOK
<1>5. StartInv' /\ ListInv' /\ WalkInv'
  BY <1>1 DEF StartInv, ListInv, WalkInv
<1>6. CountInv'
  <2>1. CASE CountRow
    <3>1. /\ row <= Len(rows) /\ row' = row + 1 /\ at' = "count"
          /\ counted' = counted \cup IF Contains(descendants, rows[row].pid)
                                     THEN {row} ELSE {}
      BY <1>1, <2>1 DEF CountRow
    <3>2. \A i : i \in 1..(row' - 1) <=> i \in 1..(row - 1) \/ i = row
      BY <1>2, <3>1
    <3>3. counted' =
            {i \in 1..(row' - 1) : Contains(descendants, rows[i].pid)}
      BY <1>2, <3>1, <3>2
    <3>4. row' <= Len(rows) + 1
      BY <1>2, <3>1
    <3> QED
      BY <1>1, <3>1, <3>3, <3>4 DEF CountInv
  <2>2. CASE CountEnds
    <3>1. row > Len(rows) /\ at' = "some" /\ counted' = counted
      BY <2>2 DEF CountEnds
    <3>2. row - 1 = Len(rows)
      BY <1>2, <3>1
    <3> QED
      BY <1>1, <1>2, <3>1, <3>2 DEF CountInv
  <2> QED
    BY <2>1, <2>2
<1> QED
  BY <1>4, <1>5, <1>6

(* Every step keeps it.                                                    *)
LEMMA SampleInvStep == SampleInv /\ [SampleNext]_sampleVars => SampleInv'
<1> SUFFICES ASSUME SampleInv, [SampleNext]_sampleVars PROVE SampleInv'
  OBVIOUS
<1>1. CASE PsFails \/ ListProcesses \/ SampleProcess
  BY <1>1, PsInv
<1>2. CASE TreeStep
  BY <1>2, VisitInv, ScanInv, LoopEndsInv, CountStepInv DEF TreeStep
<1>3. CASE SampleAgain
  <2>1. SampleStart'
    BY <1>3 DEF SampleAgain, SampleStart
  <2>2. (SampleStart => SampleInv)'
    BY SampleStarts, PTL
  <2> QED
    BY <2>1, <2>2
<1>4. CASE UNCHANGED sampleVars
  BY <1>4
  DEF sampleVars, SampleInv, SampleTypeOK, StartInv, ListInv, WalkInv, CountInv
<1> QED
  BY <1>1, <1>2, <1>3, <1>4 DEF SampleNext

----------------------------------------------------------------------------
(* What a sample counts *)

(* The invariant of a sample, in every reachable state.                    *)
THEOREM SampleInvariance == SampleSpec => []SampleInv
<1>1. SampleStart => SampleInv
  BY SampleStarts
<1>2. SampleInv /\ [SampleNext]_sampleVars => SampleInv'
  BY SampleInvStep
<1> QED
  BY <1>1, <1>2, PTL DEF SampleSpec

(* When the walk is over the list is the family: nobody else is in it, and *)
(* as it is closed under children everybody is.                            *)
LEMMA ListIsFamily ==
  ASSUME SampleInv, at \in {"count", "some"}, descendants # <<>>
  PROVE  \A p : Contains(descendants, p) <=> p \in Family(Root, rows)
<1> USE DEF SampleInv
<1> DEFINE S == {p \in Pids : Contains(descendants, p)}
<1>1. /\ descendants \in Seq(Pids) /\ Len(descendants) \in Nat
      /\ Len(descendants) # 0 /\ cursor = Len(descendants) + 1
      /\ \A k \in 1..Len(descendants) : descendants[k] \in Pids
      /\ DOMAIN rows = 1..Len(rows)
  BY DEF SampleTypeOK, WalkInv
<1>2. \A p : Contains(descendants, p) =>
               p \in S /\ p \in Family(Root, rows)
  BY <1>1 DEF Contains, ListInv
<1>3. Root \in S
  <2>1. 1 \in 1..Len(descendants) /\ descendants[1] = Root
    BY <1>1 DEF ListInv
  <2>2. Contains(descendants, Root)
    BY <2>1 DEF Contains
  <2> QED
    BY <1>2, <2>2
<1>4. ClosedUnderChildren(S, rows)
  <2> SUFFICES ASSUME NEW i \in DOMAIN rows, rows[i].ppid \in S
               PROVE  rows[i].pid \in S
    BY DEF ClosedUnderChildren
  <2>1. PICK k \in 1..Len(descendants) : descendants[k] = rows[i].ppid
    BY DEF Contains
  <2>2. i \in 1..Len(rows) /\ k \in 1..(cursor - 1)
    BY <1>1, <2>1
  <2>3. Contains(descendants, rows[i].pid)
    BY <2>1, <2>2 DEF WalkInv
  <2> QED
    BY <1>2, <2>3
<1>5. S \subseteq Pids
  OBVIOUS
<1>6. Family(Root, rows) \subseteq S
  BY ONLY <1>3, <1>4, <1>5, FamilyLeast
<1> QED
  BY <1>2, <1>6

(* sample_process_tree counts the family of the browser, sample_process    *)
(* the browser, and maintenance is told of an exit only if it is not       *)
(* listed: for any table, with whatever parents and in whatever order.     *)
THEOREM SampleCorrect == SampleSpec => []SampleIsTree
<1>1. SampleInv => SampleIsTree
  <2> SUFFICES ASSUME SampleInv PROVE SampleIsTree
    OBVIOUS
  <2>1. DOMAIN rows = 1..Len(rows)
    BY DEF SampleInv, SampleTypeOK
  <2>2. at = "some" /\ descendants # <<>> =>
          counted = {i \in DOMAIN rows : rows[i].pid \in Family(Root, rows)}
    BY <2>1, ListIsFamily DEF SampleInv, CountInv
  <2>3. at = "some" /\ descendants = <<>> =>
          \E i \in DOMAIN rows : rows[i].pid = Root /\ counted = {i}
    BY <2>1 DEF SampleInv, CountInv
  <2>4. at = "none" => ~Listed(Root, rows)
    BY DEF SampleInv, CountInv
  <2> QED
    BY <2>2, <2>3, <2>4 DEF SampleIsTree
<1> QED
  BY <1>1, SampleInvariance, PTL

----------------------------------------------------------------------------
(* A sample ends *)

(* Each process enters the list once, so there are no more than rows.      *)
LEMMA ListBounded == SampleInv => Len(descendants) <= Len(rows)
<1> SUFFICES ASSUME SampleInv PROVE Len(descendants) <= Len(rows)
  OBVIOUS
<1> USE DEF SampleInv
<1> DEFINE n == Len(descendants)
           m == Len(rows)
           f == [k \in 1..n |->
                   CHOOSE i \in 1..m : rows[i].pid = descendants[k]]
<1>1. n \in Nat /\ m \in Nat /\ DOMAIN rows = 1..m
  BY DEF SampleTypeOK
<1>2. \A k \in 1..n : \E i \in 1..m : rows[i].pid = descendants[k]
  BY <1>1 DEF ListInv, Listed
<1>3. \A k \in 1..n : f[k] \in 1..m /\ rows[f[k]].pid = descendants[k]
  BY <1>2
<1>4. \A j, k \in 1..n : f[j] = f[k] => j = k
  BY <1>3 DEF ListInv
<1>5. f \in Injection(1..n, 1..m)
  <2>1. f \in [1..n -> 1..m]
    BY <1>3
  <2> HIDE DEF f
  <2> QED
    BY <1>4, <2>1 DEF Injection, IsInjective
<1>0. \A k \in Nat : IsFiniteSet(1..k) /\ Cardinality(1..k) = k
  BY FS_Interval
<1>6. /\ IsFiniteSet(1..m) /\ Cardinality(1..m) = m
      /\ Cardinality(1..n) = n
  BY <1>0, <1>1
<1>7. Cardinality(1..n) <= Cardinality(1..m)
  BY <1>5, <1>6, FS_Injection
<1> QED
  BY <1>6, <1>7

(* Steps of the loops that are left at most, for n rows: a visit of one in *)
(* the list is a round over all of them.                                   *)
StepsLeft ==
  LET n == Len(rows) IN
  CASE at = "walk" -> (n + 2 - cursor) * (n + 2)
    [] at = "scan" -> (n + 2 - cursor) * (n + 2) + (n + 2 - row)
    [] at = "count" -> n + 2 - row
    [] OTHER -> 0

(* One visit less is a round less.                                         *)
LEMMA OneRound ==
  ASSUME NEW v \in Nat, NEW n \in Nat
  PROVE  /\ v * (n + 2) \in Nat
         /\ (v + 1) * (n + 2) = v * (n + 2) + (n + 2)
OBVIOUS

(* The number is one, and before WalkEnds enough for the rows are left.    *)
LEMMA StepsLeftTyped ==
  ASSUME SampleInv
  PROVE  /\ StepsLeft \in Nat
         /\ at = "walk" => StepsLeft >= Len(rows) + 2
<1> USE DEF SampleInv
<1> DEFINE n == Len(rows)
<1>1. /\ n \in Nat /\ cursor \in Nat \ {0} /\ row \in Nat \ {0}
      /\ Len(descendants) \in Nat
  BY DEF SampleTypeOK
<1>2. cursor <= n + 1
  BY <1>1, ListBounded DEF WalkInv
<1>3. PICK v \in Nat : n + 2 - cursor = v + 1
  <2>1. n + 1 - cursor \in Nat
    BY <1>1, <1>2
  <2>2. n + 2 - cursor = (n + 1 - cursor) + 1
    BY <1>1, <1>2
  <2> QED
    BY <2>1, <2>2
<1>4. (n + 2 - cursor) * (n + 2) = v * (n + 2) + (n + 2)
      /\ v * (n + 2) \in Nat
  BY <1>1, <1>3, OneRound
<1>5. PICK visits \in Nat : /\ visits = (n + 2 - cursor) * (n + 2)
                            /\ visits >= n + 2
  BY <1>1, <1>4
<1>6. at \in {"scan", "count"} => n + 2 - row \in Nat
  BY <1>1 DEF WalkInv, CountInv
<1> HIDE DEF SampleInv
<1> QED
  BY <1>1, <1>5, <1>6 DEF StepsLeft

(* It is one in every state.                                               *)
LEMMA StepsLeftNat == SampleInv => StepsLeft \in Nat
BY StepsLeftTyped

(* Each step of the loops brings the end of the sample nearer, also if the *)
(* rows make a process its own ancestor: nobody is visited twice.          *)
THEOREM SampleProgress ==
  SampleSpec => [][TreeStep => /\ StepsLeft \in Nat /\ StepsLeft' \in Nat
                               /\ StepsLeft' < StepsLeft]_sampleVars
<1>1. ASSUME SampleInv, SampleInv', TreeStep
      PROVE  StepsLeft' < StepsLeft
  <2> DEFINE n == Len(rows)
  <2>1. /\ n \in Nat /\ cursor \in Nat \ {0} /\ row \in Nat \ {0}
        /\ Len(descendants) \in Nat
    BY <1>1 DEF SampleInv, SampleTypeOK
  <2>2. UNCHANGED rows
    BY <1>1
    DEF TreeStep, VisitNext, ScanRow, ScanEnds, WalkEnds, CountRow, CountEnds
  <2>3. CASE VisitNext
    <3>1. /\ at = "walk" /\ at' = "scan" /\ cursor' = cursor + 1 /\ row' = 1
          /\ cursor <= n
      BY <1>1, <2>1, <2>3, ListBounded DEF VisitNext, NextCursor, ToVisit
    <3>2. PICK v \in Nat : v = n + 1 - cursor
      BY <2>1, <3>1
    <3>3. n + 2 - cursor = v + 1 /\ n + 2 - cursor' = v
      BY <2>1, <3>1, <3>2
    <3>4. StepsLeft = (v + 1) * (n + 2)
      BY <3>1, <3>3 DEF StepsLeft
    <3>5. StepsLeft' = v * (n + 2) + (n + 1)
      <4>1. StepsLeft' = (n + 2 - cursor') * (n + 2) + (n + 2 - row')
        BY <2>2, <3>1 DEF StepsLeft
      <4>2. n + 2 - row' = n + 1
        BY <2>1, <3>1
      <4> QED
        BY <3>3, <4>1, <4>2
    <3>6. PICK w \in Nat : w = v * (n + 2) /\ (v + 1) * (n + 2) = w + (n + 2)
      BY <2>1, <3>2, OneRound
    <3> QED
      BY <2>1, <3>4, <3>5, <3>6
  <2>4. CASE ScanRow \/ ScanEnds
    <3>1. /\ at = "scan" /\ cursor' = cursor
          /\ \/ at' = "scan" /\ row' = row + 1
             \/ at' = "walk" /\ row' = row
      BY <2>4 DEF ScanRow, ScanEnds
    <3>2. row <= n + 1
      BY <1>1, <3>1 DEF SampleInv, WalkInv
    <3>3. cursor <= n + 1
      BY <1>1, <2>1, ListBounded DEF SampleInv, WalkInv
    <3>4. PICK w \in Nat : w = (n + 2 - cursor) * (n + 2)
      <4>1. n + 2 - cursor \in Nat
        BY <2>1, <3>3
      <4> QED
        BY <2>1, <4>1, OneRound
    <3>5. StepsLeft = w + (n + 2 - row)
      BY <3>1, <3>4 DEF StepsLeft
    <3>6. \/ StepsLeft' = w + (n + 2 - row') /\ row' = row + 1
          \/ StepsLeft' = w
      BY <2>2, <3>1, <3>4 DEF StepsLeft
    <3> QED
      BY <2>1, <3>2, <3>4, <3>5, <3>6
  <2>5. CASE WalkEnds
    <3>1. at = "walk" /\ at' = "count" /\ row' = 1
      BY <2>5 DEF WalkEnds
    <3>2. StepsLeft >= n + 2 /\ StepsLeft \in Nat
      BY <1>1, <3>1, StepsLeftTyped
    <3>3. StepsLeft' = n + 1
      <4>1. StepsLeft' = n + 2 - row'
        BY <2>2, <3>1 DEF StepsLeft
      <4> QED
        BY <2>1, <3>1, <4>1
    <3> QED
      BY <2>1, <3>2, <3>3
  <2>6. CASE CountRow \/ CountEnds
    <3>1. /\ at = "count"
          /\ \/ at' = "count" /\ row' = row + 1
             \/ at' = "some"
      BY <2>6 DEF CountRow, CountEnds
    <3>2. row <= n + 1
      BY <1>1, <3>1 DEF SampleInv, CountInv
    <3>3. StepsLeft = n + 2 - row
      BY <3>1 DEF StepsLeft
    <3>4. \/ StepsLeft' = n + 2 - row' /\ row' = row + 1
          \/ StepsLeft' = 0
      BY <2>2, <3>1 DEF StepsLeft
    <3> QED
      BY <2>1, <3>2, <3>3, <3>4
  <2> QED
    BY <1>1, <2>3, <2>4, <2>5, <2>6 DEF TreeStep
<1>2. SampleInv /\ SampleInv' /\ [SampleNext]_sampleVars =>
        [TreeStep => /\ StepsLeft \in Nat /\ StepsLeft' \in Nat
                     /\ StepsLeft' < StepsLeft]_sampleVars
  <2>1. (SampleInv => StepsLeft \in Nat)'
    BY StepsLeftNat, PTL
  <2> QED
    BY <1>1, <2>1, StepsLeftNat
<1> QED
  BY <1>2, SampleInvariance, PTL DEF SampleSpec

=============================================================================
