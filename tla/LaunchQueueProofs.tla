------------------------- MODULE LaunchQueueProofs -------------------------
(***************************************************************************)
(* What acquiring, releasing and abandoning a permit do to LaunchQueue.    *)
(* SessionServerProofs knows the queue by these three lemmas only.         *)
(***************************************************************************)
EXTENDS LaunchQueue, FiniteSetTheorems, SequenceTheorems, TLAPS

Waiters == {queue[i] : i \in 1..Len(queue)}

(* Permits are conserved, nobody waits twice, and no owner waits.          *)
QueueInv ==
  /\ QueueTypeOK
  /\ permits + Cardinality(owners) = MaxConcurrentSessions
  /\ \A i \in 1..Len(queue) : queue[i] \notin owners
  /\ \A i, j \in 1..Len(queue) : queue[i] = queue[j] => i = j

(* The semaphore starts with every permit free.                            *)
LEMMA QueueInitially == QueueInit => QueueInv /\ Waiters = {} /\ owners = {}
<1> SUFFICES ASSUME QueueInit PROVE QueueInv /\ Waiters = {} /\ owners = {}
  OBVIOUS
<1>1. queue \in Seq(Requests) /\ Len(queue) = 0
  BY DEF QueueInit
<1>2. Cardinality(owners) = 0
  BY FS_EmptySet DEF QueueInit
<1> QED
  BY <1>1, <1>2, CapacityAssumption
  DEF QueueInit, QueueInv, QueueTypeOK, Waiters

(* A set of owners is finite, because requests are.                        *)
LEMMA OwnersFinite ==
  ASSUME QueueTypeOK
  PROVE  IsFiniteSet(owners) /\ Cardinality(owners) \in Nat
BY CapacityAssumption, FS_Subset, FS_CardinalityType DEF QueueTypeOK

(* A permit is taken, or the request joins the waiters.                    *)
LEMMA AcquireEffect ==
  ASSUME NEW r \in Requests, QueueInv, r \notin owners, r \notin Waiters,
         Acquire(r)
  PROVE  /\ QueueInv'
         /\ owners \subseteq owners'
         /\ owners' \subseteq owners \cup {r}
         /\ Waiters' \subseteq Waiters \cup {r}
<1> USE CapacityAssumption
<1>0. QueueTypeOK /\ IsFiniteSet(owners) /\ Cardinality(owners) \in Nat
  BY OwnersFinite DEF QueueInv
<1>1. CASE PermitFree
  <2>1. Cardinality(owners \cup {r}) = Cardinality(owners) + 1
    BY <1>0, FS_AddElement
  <2>2. queue' = queue /\ owners' = owners \cup {r} /\ permits' = permits - 1
    BY <1>1 DEF Acquire
  <2>3. Waiters' = Waiters
    BY <2>2 DEF Waiters
  <2>4. \A i \in 1..Len(queue) : queue[i] # r
    BY DEF Waiters
  <2>5. permits \in Nat /\ permits > 0
    BY <1>0, <1>1 DEF PermitFree, QueueTypeOK
  <2>6. permits' \in Nat /\ permits' + Cardinality(owners') = MaxConcurrentSessions
    BY <1>0, <2>1, <2>2, <2>5 DEF QueueInv
  <2>7. QueueInv'
    BY <1>0, <2>2, <2>4, <2>6 DEF QueueInv, QueueTypeOK
  <2> QED
    BY <2>2, <2>3, <2>7
<1>2. CASE ~PermitFree
  <2>1. /\ queue' = Append(queue, r)
        /\ owners' = owners /\ permits' = permits
    BY <1>2 DEF Acquire
  <2>2. /\ queue' \in Seq(Requests)
        /\ Len(queue') = Len(queue) + 1
        /\ \A i \in 1..Len(queue) : queue'[i] = queue[i]
        /\ queue'[Len(queue) + 1] = r
    BY <1>0, <2>1, AppendProperties DEF QueueTypeOK
  <2>3. Len(queue) \in Nat
    BY <1>0 DEF QueueTypeOK
  <2>4. \A i \in 1..Len(queue') : i \in 1..Len(queue) \/ i = Len(queue) + 1
    BY <2>2, <2>3
  <2> QED
    BY <1>0, <2>1, <2>2, <2>3, <2>4 DEF QueueInv, QueueTypeOK, Waiters
<1> QED
  BY <1>1, <1>2

(* The permit becomes free or goes on to a waiter.                         *)
LEMMA ReleaseEffect ==
  ASSUME NEW r \in Requests, QueueInv, r \in owners, Release(r)
  PROVE  /\ QueueInv'
         /\ owners \ {r} \subseteq owners'
         /\ owners' \subseteq (owners \cup Waiters) \ {r}
         /\ Waiters' \subseteq Waiters \ {r}
<1> USE CapacityAssumption
<1>0. QueueTypeOK /\ IsFiniteSet(owners) /\ Cardinality(owners) \in Nat
  BY OwnersFinite DEF QueueInv
<1>1. /\ IsFiniteSet(owners \ {r})
      /\ Cardinality(owners \ {r}) = Cardinality(owners) - 1
  BY <1>0, FS_RemoveElement
<1>2. CASE queue = <<>>
  <2>1. queue' = queue /\ owners' = owners \ {r} /\ permits' = permits + 1
    BY <1>2 DEF Release
  <2>2. Len(queue) = 0 /\ Waiters = {} /\ Waiters' = {}
    BY <1>2, <2>1 DEF Waiters
  <2>3. permits' \in Nat /\ permits' + Cardinality(owners') = MaxConcurrentSessions
    BY <1>0, <1>1, <2>1 DEF QueueInv, QueueTypeOK
  <2>4. QueueInv'
    BY <1>0, <2>1, <2>2, <2>3 DEF QueueInv, QueueTypeOK
  <2> QED
    BY <2>1, <2>2, <2>4
<1>3. CASE queue # <<>>
  <2> DEFINE h == Head(queue)
  <2>1. /\ queue' = Tail(queue)
        /\ owners' = (owners \ {r}) \cup {h}
        /\ permits' = permits
    BY <1>3 DEF Release
  <2>2. /\ queue' \in Seq(Requests)
        /\ Len(queue) \in Nat /\ Len(queue) > 0
        /\ Len(queue') = Len(queue) - 1
        /\ \A i \in 1..Len(queue') : queue'[i] = queue[i + 1]
        /\ h = queue[1]
    BY <1>0, <1>3, <2>1, HeadTailProperties, EmptySeq DEF QueueTypeOK
  <2>3. h \in Requests /\ h \notin owners
    BY <1>0, <2>2 DEF QueueInv, QueueTypeOK
  <2>4. Cardinality(owners') = Cardinality(owners)
    <3>1. h \notin owners \ {r}
      BY <2>3
    <3>2. Cardinality((owners \ {r}) \cup {h}) = Cardinality(owners \ {r}) + 1
      BY <1>1, <3>1, FS_AddElement
    <3> HIDE DEF h
    <3> QED
      BY <1>0, <1>1, <2>1, <3>2
  <2>5. \A i \in 1..Len(queue') : i + 1 \in 1..Len(queue) /\ i + 1 # 1
    BY <2>2
  <2>6. \A i, j \in 1..Len(queue') : queue'[i] = queue'[j] => i = j
    BY <2>2, <2>5 DEF QueueInv
  <2>7. \A i \in 1..Len(queue') : queue'[i] \notin owners' /\ queue'[i] # r
    <3> SUFFICES ASSUME NEW i \in 1..Len(queue')
                 PROVE  queue'[i] \notin owners' /\ queue'[i] # r
      OBVIOUS
    <3>1. queue'[i] = queue[i + 1] /\ i + 1 \in 1..Len(queue) /\ 1 \in 1..Len(queue)
      BY <2>2, <2>5
    <3>2. queue[i + 1] # queue[1]
      BY <3>1, <2>5 DEF QueueInv
    <3> QED
      BY <3>1, <3>2, <2>1, <2>2 DEF QueueInv
  <2>8. Waiters' \subseteq Waiters \ {r}
    BY <2>2, <2>5, <2>7 DEF Waiters
  <2>9. owners' \subseteq (owners \cup Waiters) \ {r}
    BY <2>1, <2>2, <2>3 DEF Waiters
  <2>10. QueueInv'
    BY <1>0, <2>1, <2>2, <2>3, <2>4, <2>6, <2>7 DEF QueueInv, QueueTypeOK
  <2> QED
    BY <2>1, <2>8, <2>9, <2>10
<1> QED
  BY <1>2, <1>3

(* A waiter leaves the queue; the others keep their order.                 *)
LEMMA LeaveQueueOrder ==
  ASSUME NEW r \in Requests, QueueInv, LeaveQueue(r)
  PROVE  \E i \in 1..Len(queue) :
           /\ queue[i] = r /\ queue' \in Seq(Requests)
           /\ Len(queue') = Len(queue) - 1
           /\ \A j \in 1..Len(queue') :
                queue'[j] = queue[IF j < i THEN j ELSE j + 1]
<1>1. PICK i \in 1..Len(queue) : queue[i] = r /\ queue' = RemoveAt(queue, i)
  BY DEF LeaveQueue
<1>2. Len(queue) \in Nat /\ queue \in Seq(Requests)
  BY DEF QueueInv, QueueTypeOK
<1> DEFINE p == SubSeq(queue, 1, i - 1)
           q == SubSeq(queue, i + 1, Len(queue))
<1>3. /\ p \in Seq(Requests) /\ Len(p) = i - 1
      /\ \A j \in 1..(i - 1) : p[j] = queue[j]
  BY <1>2
<1>4. /\ q \in Seq(Requests) /\ Len(q) = Len(queue) - i
      /\ \A j \in 1..(Len(queue) - i) : q[j] = queue[i + j]
  BY <1>2
<1>5. queue' = p \o q
  BY <1>1 DEF RemoveAt
<1> HIDE DEF p, q
<1>6. /\ p \o q \in Seq(Requests)
      /\ Len(p \o q) = Len(p) + Len(q)
      /\ \A j \in 1..(Len(p) + Len(q)) :
           (p \o q)[j] = IF j <= Len(p) THEN p[j] ELSE q[j - Len(p)]
  BY <1>3, <1>4, ConcatProperties
<1>7. Len(queue') = Len(queue) - 1
  BY <1>2, <1>3, <1>4, <1>5, <1>6
<1>8. ASSUME NEW j \in 1..Len(queue')
      PROVE  queue'[j] = queue[IF j < i THEN j ELSE j + 1]
  <2>1. CASE j < i
    BY <1>2, <1>3, <1>4, <1>5, <1>6, <1>7, <2>1
  <2>2. CASE ~(j < i)
    <3>1. j - (i - 1) \in 1..(Len(queue) - i) /\ i + (j - (i - 1)) = j + 1
      BY <1>2, <1>7, <2>2
    <3>2. queue'[j] = q[j - (i - 1)]
      BY <1>2, <1>3, <1>4, <1>5, <1>6, <1>7, <2>2
    <3> QED
      BY <1>4, <2>2, <3>1, <3>2
  <2> QED
    BY <2>1, <2>2
<1> QED
  BY <1>1, <1>5, <1>6, <1>7, <1>8

(* Nobody is given a permit by that.                                       *)
LEMMA LeaveQueueEffect ==
  ASSUME NEW r \in Requests, QueueInv, LeaveQueue(r)
  PROVE  QueueInv' /\ owners' = owners /\ Waiters' \subseteq Waiters \ {r}
<1>1. PICK i \in 1..Len(queue) :
        /\ queue[i] = r /\ queue' \in Seq(Requests)
        /\ Len(queue') = Len(queue) - 1
        /\ \A j \in 1..Len(queue') :
             queue'[j] = queue[IF j < i THEN j ELSE j + 1]
  BY LeaveQueueOrder
<1> DEFINE old(j) == IF j < i THEN j ELSE j + 1
<1>2. QueueTypeOK /\ Len(queue) \in Nat
  BY DEF QueueInv, QueueTypeOK
<1>3. \A j \in 1..Len(queue') : queue'[j] = queue[old(j)]
  BY <1>1
<1>4. \A j \in 1..Len(queue') : old(j) \in 1..Len(queue) /\ old(j) # i
  BY <1>1, <1>2
<1>5. \A j, k \in 1..Len(queue') : old(j) = old(k) => j = k
  BY <1>1, <1>2
<1> HIDE DEF old
<1>6. permits' = permits /\ owners' = owners
  BY DEF LeaveQueue
<1>7. Waiters' \subseteq Waiters \ {r}
  BY <1>1, <1>3, <1>4 DEF Waiters, QueueInv
<1>8. QueueInv'
  BY <1>1, <1>2, <1>3, <1>4, <1>5, <1>6 DEF QueueInv, QueueTypeOK
<1> QED
  BY <1>6, <1>7, <1>8

(* Giving up a wait gives up the permit it may have been assigned.         *)
LEMMA AbandonEffect ==
  ASSUME NEW r \in Requests, QueueInv, Abandon(r)
  PROVE  /\ QueueInv'
         /\ owners \ {r} \subseteq owners'
         /\ owners' \subseteq (owners \cup Waiters) \ {r}
         /\ Waiters' \subseteq Waiters \ {r}
BY ReleaseEffect, LeaveQueueEffect DEF Abandon

----------------------------------------------------------------------------
(* Who is served first *)

(* No permit is free while a request waits for one.                        *)
NoIdlePermit == queue # <<>> => permits = 0

(* A permit goes to the oldest waiter, if there is one; and whoever stands *)
(* before a waiter has stood there before.                                 *)
InTurn ==
  /\ \A r \in owners' \ owners : queue # <<>> => r = Head(queue)
  /\ \A k, l \in 1..Len(queue') :
       k < l /\ queue'[l] \in Waiters =>
         \E i, j \in 1..Len(queue) :
           i < j /\ queue[i] = queue'[k] /\ queue[j] = queue'[l]

(* A step that leaves the semaphore alone.                                 *)
LEMMA OrderFrame ==
  ASSUME QueueInv, NoIdlePermit, UNCHANGED queueVars
  PROVE  NoIdlePermit' /\ InTurn
BY DEF QueueInv, QueueTypeOK, NoIdlePermit, InTurn, queueVars

(* Whoever asks finds no free permit if others wait, and stands behind     *)
(* them.                                                                   *)
LEMMA AcquireInTurn ==
  ASSUME NEW r \in Requests, QueueInv, NoIdlePermit, r \notin Waiters,
         Acquire(r)
  PROVE  NoIdlePermit' /\ InTurn
<1>1. queue \in Seq(Requests) /\ Len(queue) \in Nat /\ permits \in Nat
  BY DEF QueueInv, QueueTypeOK
<1>2. CASE PermitFree
  BY <1>1, <1>2 DEF Acquire, PermitFree, NoIdlePermit, InTurn
<1>3. CASE ~PermitFree
  <2>1. /\ queue' = Append(queue, r) /\ UNCHANGED <<permits, owners>>
        /\ permits = 0
    BY <1>1, <1>3 DEF Acquire, PermitFree
  <2>2. /\ Len(queue') = Len(queue) + 1
        /\ \A i \in 1..Len(queue) : queue'[i] = queue[i]
        /\ queue'[Len(queue) + 1] = r
    BY <1>1, <2>1, AppendProperties
  <2>3. ASSUME NEW k \in 1..Len(queue'), NEW l \in 1..Len(queue'), k < l,
               queue'[l] \in Waiters
        PROVE  /\ k \in 1..Len(queue) /\ l \in 1..Len(queue)
               /\ queue[k] = queue'[k] /\ queue[l] = queue'[l]
    <3>1. l # Len(queue) + 1
      BY <2>2, <2>3
    <3> QED
      BY <1>1, <2>2, <2>3, <3>1
  <2> QED
    BY <2>1, <2>3 DEF NoIdlePermit, InTurn
<1> QED
  BY <1>2, <1>3

(* A permit that is let go becomes free only if nobody waits.              *)
LEMMA ReleaseInTurn ==
  ASSUME NEW r \in Requests, QueueInv, NoIdlePermit, Release(r)
  PROVE  NoIdlePermit' /\ InTurn
<1>1. queue \in Seq(Requests) /\ Len(queue) \in Nat
  BY DEF QueueInv, QueueTypeOK
<1>2. CASE queue = <<>>
  <2>1. queue' = <<>> /\ owners' = owners \ {r}
    BY <1>2 DEF Release
  <2>2. Len(queue') = 0
    BY <2>1
  <2> QED
    BY <2>1, <2>2 DEF NoIdlePermit, InTurn
<1>3. CASE queue # <<>>
  <2>1. /\ owners' = (owners \ {r}) \cup {Head(queue)} /\ permits' = permits
        /\ queue' = Tail(queue)
    BY <1>3 DEF Release
  <2>2. /\ Len(queue) > 0 /\ Len(queue') = Len(queue) - 1
        /\ \A i \in 1..Len(queue') : queue'[i] = queue[i + 1]
    BY <1>1, <1>3, <2>1, HeadTailProperties, EmptySeq
  <2>3. ASSUME NEW k \in 1..Len(queue'), NEW l \in 1..Len(queue'), k < l
        PROVE  /\ k + 1 \in 1..Len(queue) /\ l + 1 \in 1..Len(queue)
               /\ k + 1 < l + 1
               /\ queue[k + 1] = queue'[k] /\ queue[l + 1] = queue'[l]
    BY <1>1, <2>2, <2>3
  <2> QED
    BY <1>3, <2>1, <2>3 DEF NoIdlePermit, InTurn
<1> QED
  BY <1>2, <1>3

(* A waiter that leaves lets those behind it move up.                      *)
LEMMA AbandonInTurn ==
  ASSUME NEW r \in Requests, QueueInv, NoIdlePermit, Abandon(r)
  PROVE  NoIdlePermit' /\ InTurn
<1>1. CASE r \in owners
  BY <1>1, ReleaseInTurn DEF Abandon
<1>2. CASE r \notin owners
  <2>1. LeaveQueue(r)
    BY <1>2 DEF Abandon
  <2>2. PICK i \in 1..Len(queue) :
          /\ Len(queue') = Len(queue) - 1
          /\ \A j \in 1..Len(queue') :
               queue'[j] = queue[IF j < i THEN j ELSE j + 1]
    BY <2>1, LeaveQueueOrder
  <2>3. Len(queue) \in Nat /\ queue # <<>> /\ UNCHANGED <<permits, owners>>
    BY <2>1 DEF LeaveQueue, QueueInv, QueueTypeOK
  <2> DEFINE old(j) == IF j < i THEN j ELSE j + 1
  <2>4. ASSUME NEW k \in 1..Len(queue'), NEW l \in 1..Len(queue'), k < l
        PROVE  /\ old(k) \in 1..Len(queue) /\ old(l) \in 1..Len(queue)
               /\ old(k) < old(l)
    BY <2>2, <2>3, <2>4
  <2>5. \A j \in 1..Len(queue') : queue'[j] = queue[old(j)]
    BY <2>2
  <2> HIDE DEF old
  <2> QED
    BY <2>3, <2>4, <2>5 DEF NoIdlePermit, InTurn
<1> QED
  BY <1>1, <1>2

=============================================================================
