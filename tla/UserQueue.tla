------------------------------ MODULE UserQueue ------------------------------
(***************************************************************************)
(* The query queue of the userspace layer (lib/userspace/                  *)
(* libuserspace-layer.c).  It differs from the kernel's in what the        *)
(* executor waits for: a System V semaphore posted once per job, where     *)
(* enqueueQuery links the job, counts it and posts in three steps.  The    *)
(* executor holds slcLock exclusively while it runs a job, because         *)
(* ACQUIRE_READ_LOCK is pthread_rwlock_wrlock in this layer.  exitLayer    *)
(* ends the executor by removing the semaphore it waits for.               *)
(***************************************************************************)
EXTENDS Integers, Sequences, SequencesExt, FiniteSets, JobList

CONSTANTS
  Queries, NoQuery,
  Producers,    \* timer threads, providers, status threads, the comm thread
  Deleters,     \* threads that unregister queries
  MaxJobs,      \* bound of the model on the length of the list
  MaxSem        \* bound of the model on the semaphore and the counter

ASSUME QueueAssumption == NoQuery \notin Queries /\ IsFiniteSet(Producers)

VARIABLES
  list,         \* queriesToExecList, as the queries of its jobs
  waiting,      \* waitingQueries
  sem,          \* value of the semaphore waitingQueriesSemID
  xpc, cur,     \* the executor: where it is, the job it runs
  xHoldsSlc,    \* the executor owns slcLock
  ppc,          \* per producer: where it is in enqueueQuery
  running,      \* queryExecThreadRunning
  removed       \* the semaphore does not exist any more

exit == <<running, removed>>
vars == <<list, waiting, sem, xpc, cur, xHoldsSlc, ppc, exit>>

Init ==
  /\ list = <<>> /\ waiting = 0 /\ sem = 0
  /\ xpc = "semop" /\ cur = NoQuery /\ xHoldsSlc = FALSE
  /\ ppc = [p \in Producers |-> "idle"]
  /\ running = TRUE /\ removed = FALSE

-----------------------------------------------------------------------------
(* Variants of definitions below, each with a plausible bug.  Nothing uses *)
(* them; they show which bug breaks which property (PROJECT.json).         *)

delPendingResets(d, q) ==
  /\ ~xHoldsSlc
  /\ q \in ToSet(list)
  /\ list' = Without(list, {q})
  /\ waiting' = 0 /\ sem' = 0
  /\ UNCHANGED <<xpc, cur, xHoldsSlc, ppc, exit>>

SemopWithoutWaiting ==
  /\ xpc = "semop"
  /\ sem' = sem - 1
  /\ waiting' = waiting - 1
  /\ xpc' = "lock"
  /\ UNCHANGED <<list, cur, xHoldsSlc, ppc, exit>>

SemopFailsAlways ==
  /\ xpc = "semop" /\ removed
  /\ xpc' = "semop"
  /\ UNCHANGED <<list, waiting, sem, cur, xHoldsSlc, ppc, exit>>

SemopUncounted ==
  /\ xpc = "semop" /\ sem > 0
  /\ sem' = sem - 1
  /\ xpc' = "lock"
  /\ UNCHANGED <<list, waiting, cur, xHoldsSlc, ppc, exit>>

DequeueNewest ==
  /\ xpc = "dequeue" /\ list # <<>>
  /\ cur' = Last(list)
  /\ list' = Front(list)
  /\ xpc' = "execute"
  /\ UNCHANGED <<waiting, sem, xHoldsSlc, ppc, exit>>

-----------------------------------------------------------------------------
(* enqueueQuery links the job under listLock, and counts and posts it      *)
(* without.  If there is no memory for the job nothing changes here; if    *)
(* the semaphore is gone the post has no effect.                           *)

Link(p, q) ==
  /\ ppc[p] = "idle"
  /\ Len(list) < MaxJobs /\ sem < MaxSem /\ waiting <= MaxSem
  /\ list' = Append(list, q)
  /\ ppc' = [ppc EXCEPT ![p] = "count"]
  /\ UNCHANGED <<waiting, sem, xpc, cur, xHoldsSlc, exit>>

Count(p) ==
  /\ ppc[p] = "count"
  /\ waiting' = waiting + 1
  /\ ppc' = [ppc EXCEPT ![p] = "post"]
  /\ UNCHANGED <<list, sem, xpc, cur, xHoldsSlc, exit>>

Post(p) ==
  /\ ppc[p] = "post"
  /\ sem' = IF removed THEN sem ELSE sem + 1
  /\ ppc' = [ppc EXCEPT ![p] = "idle"]
  /\ UNCHANGED <<list, waiting, xpc, cur, xHoldsSlc, exit>>

(* delPendingQuery under ACQUIRE_WRITE_LOCK(slcLock), which the owner of   *)
(* the exclusive lock keeps out.                                           *)
delPendingQuery(d, q) ==
  /\ ~xHoldsSlc
  /\ q \in ToSet(list)
  /\ list' = Without(list, {q})
  /\ UNCHANGED <<waiting, sem, xpc, cur, xHoldsSlc, ppc, exit>>

-----------------------------------------------------------------------------
(* queryExecutorWork.                                                      *)

Semop ==
  /\ xpc = "semop" /\ ~removed /\ sem > 0
  /\ sem' = sem - 1
  /\ waiting' = waiting - 1
  /\ xpc' = "lock"
  /\ UNCHANGED <<list, cur, xHoldsSlc, ppc, exit>>

(* Without the semaphore semop returns an error at once.                   *)
SemopFails ==
  /\ xpc = "semop" /\ removed
  /\ xpc' = IF running THEN "semop" ELSE "done"
  /\ UNCHANGED <<list, waiting, sem, cur, xHoldsSlc, ppc, exit>>

(* When the executor still owns the lock, pthread_rwlock_wrlock returns    *)
(* EDEADLK, nobody looks, and the executor goes on as the owner.           *)
LockSlc ==
  /\ xpc = "lock"
  /\ xHoldsSlc' = TRUE
  /\ xpc' = "dequeue"
  /\ UNCHANGED <<list, waiting, sem, cur, ppc, exit>>

Dequeue ==
  /\ xpc = "dequeue" /\ list # <<>>
  /\ cur' = Head(list)
  /\ list' = Tail(list)
  /\ xpc' = "execute"
  /\ UNCHANGED <<waiting, sem, xHoldsSlc, ppc, exit>>

(* The job was purged: continue, with listLock released and slcLock kept.  *)
DequeueFromEmpty ==
  /\ xpc = "dequeue" /\ list = <<>>
  /\ xpc' = "semop"
  /\ UNCHANGED <<list, waiting, sem, cur, xHoldsSlc, ppc, exit>>

Execute ==
  /\ xpc = "execute"
  /\ cur' = NoQuery
  /\ xHoldsSlc' = FALSE
  /\ xpc' = "semop"
  /\ UNCHANGED <<list, waiting, sem, ppc, exit>>

-----------------------------------------------------------------------------
(* exitLayer, up to pthread_join of the executor.                          *)

AskToStop ==
  /\ running
  /\ running' = FALSE
  /\ UNCHANGED <<list, waiting, sem, xpc, cur, xHoldsSlc, ppc, removed>>

RemoveSem ==
  /\ ~running /\ ~removed
  /\ removed' = TRUE
  /\ UNCHANGED <<list, waiting, sem, xpc, cur, xHoldsSlc, ppc, running>>

-----------------------------------------------------------------------------
Executor == Semop \/ SemopFails \/ LockSlc \/ Dequeue \/ DequeueFromEmpty \/ Execute
Producer(p) == (\E q \in Queries : Link(p, q)) \/ Count(p) \/ Post(p)

Next ==
  \/ \E p \in Producers : Producer(p)
  \/ \E d \in Deleters, q \in Queries : delPendingQuery(d, q)
  \/ Executor
  \/ AskToStop \/ RemoveSem

(* The executor is scheduled, and calls of enqueueQuery and exitLayer go   *)
(* on.                                                                     *)
Fairness ==
  /\ WF_vars(Executor) /\ WF_vars(RemoveSem)
  /\ \A p \in Producers : WF_vars(Count(p) \/ Post(p))

Spec == Init /\ [][Next]_vars /\ Fairness

-----------------------------------------------------------------------------
TypeOK ==
  /\ list \in Seq(Queries)
  /\ waiting \in Nat /\ sem \in Nat
  /\ xpc \in {"semop", "lock", "dequeue", "execute", "done"}
  /\ cur \in Queries \cup {NoQuery}
  /\ xHoldsSlc \in BOOLEAN
  /\ ppc \in [Producers -> {"idle", "count", "post"}]
  /\ running \in BOOLEAN /\ removed \in BOOLEAN

Unposted == Cardinality({p \in Producers : ppc[p] # "idle"})
Uncounted == Cardinality({p \in Producers : ppc[p] = "count"})
Claimed == IF xpc \in {"lock", "dequeue"} THEN 1 ELSE 0

(* Every job is announced: by a post that is still to come, by the         *)
(* semaphore, or by the executor that has taken it.  Purging jobs leaves   *)
(* posts for which there is no job, never the other way round.  exitLayer  *)
(* takes the announcements away, and the jobs that are left never run.     *)
EveryJobAnnounced == ~removed => Len(list) <= sem + Unposted + Claimed

(* The counter next to the semaphore agrees with it, although it changes   *)
(* before the one and after the other.                                     *)
CounterAgrees == ~removed => waiting = sem + Unposted - Uncounted

(* locking.txt: queryExecutorWork takes slcLock, runs the job and releases *)
(* slcLock before it waits for the next one.                               *)
ReleasesSlcLock == xpc = "semop" => ~xHoldsSlc

(* The queue runs every job that is not purged, once, in the order in      *)
(* which the calls of enqueueQuery linked them, as long as the layer runs. *)
Jobs == INSTANCE JobQueue WITH jobs <- list, running <- cur
JobQueueSpec == Jobs!Safety /\ ([]running => Jobs!Fairness)

(* exitLayer gets through pthread_join: the executor sees that its         *)
(* semaphore went, wherever it is, and that it was meant to.               *)
ExecutorEnds == removed ~> xpc = "done"
===============================================================================
