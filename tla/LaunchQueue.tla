---------------------------- MODULE LaunchQueue ----------------------------
(***************************************************************************)
(* The launch permits of the session pool: tokio's fair Semaphore as       *)
(* SessionPool::create_session and SessionEntry::_permit use it.  A permit *)
(* is acquired by a request, travels into the session entry that the       *)
(* request publishes, and is released when the last reference to that      *)
(* entry is dropped, so a permit is named after the request it was given   *)
(* to.  The semaphore is a library: it is modelled from how eiger-pool     *)
(* calls it (acquire_owned inside timeout, drop of OwnedSemaphorePermit).  *)
(***************************************************************************)
EXTENDS Naturals, FiniteSets, SequencesExt

CONSTANTS Requests,               \* the HTTP requests that reach the pool
          MaxConcurrentSessions   \* EIGER_MAX_CONCURRENT_SESSIONS

(* AppConfig::from_env accepts every usize, 0 included.                    *)
ASSUME CapacityAssumption ==
  /\ IsFiniteSet(Requests)
  /\ MaxConcurrentSessions \in Nat

VARIABLES permits,   \* Semaphore::available_permits
          queue,     \* waiters of acquire_owned, oldest first
          owners     \* requests whose permit has not been released

queueVars == <<permits, queue, owners>>

QueueTypeOK ==
  /\ permits \in Nat
  /\ queue \in Seq(Requests)
  /\ owners \in SUBSET Requests

QueueInit ==
  /\ permits = MaxConcurrentSessions
  /\ queue = <<>>
  /\ owners = {}

----------------------------------------------------------------------------

(* Mutant: the free permits are compared with the wrong bound.             *)
PermitOrZero == permits >= 0

PermitFree == permits > 0

(* acquire_owned: a free permit is taken at once, otherwise the caller     *)
(* waits behind those that came before it.                                 *)
Acquire(r) ==
  IF PermitFree
  THEN /\ permits' = permits - 1
       /\ owners' = owners \cup {r}
       /\ UNCHANGED queue
  ELSE /\ queue' = Append(queue, r)
       /\ UNCHANGED <<permits, owners>>

(* Drop of an OwnedSemaphorePermit: the oldest waiter is given the permit  *)
(* while it is still suspended; with no waiter the permit becomes free.    *)
Release(r) ==
  IF queue = <<>>
  THEN /\ permits' = permits + 1
       /\ owners' = owners \ {r}
       /\ UNCHANGED queue
  ELSE /\ queue' = Tail(queue)
       /\ owners' = (owners \ {r}) \cup {Head(queue)}
       /\ UNCHANGED permits

LeaveQueue(r) ==
  /\ \E i \in 1..Len(queue) : queue[i] = r /\ queue' = RemoveAt(queue, i)
  /\ UNCHANGED <<permits, owners>>

(* Mutant: dropping the wait forgets a permit that was already assigned.   *)
AbandonLeaky(r) ==
  IF r \in owners THEN UNCHANGED queueVars ELSE LeaveQueue(r)

(* Drop of a pending acquire_owned, on a timeout or when the request is    *)
(* cancelled.  The permit may have been assigned between the last poll and *)
(* the drop: it then goes on to the next waiter.                           *)
Abandon(r) ==
  IF r \in owners THEN Release(r) ELSE LeaveQueue(r)

=============================================================================
