----------------------------- MODULE KernelQueue -----------------------------
(***************************************************************************)
(* The query queue of the kernel layer (lib/kernel/libkernel.c): contexts  *)
(* that have a tuple for a query call enqueueQuery, the executor thread    *)
(* sleeps on waitQueue and runs the jobs under slcLock, and unregistration *)
(* purges the jobs of a query with delPendingQuery.                        *)
(*                                                                         *)
(* The list and the counter change together under listLock, so a section   *)
(* under listLock is one step; the wake-up comes after it.                 *)
(***************************************************************************)
EXTENDS Integers, Sequences, SequencesExt, JobList

CONSTANTS
  Queries, NoQuery,
  Producers,    \* timer handlers, probes, status threads, the comm thread
  Deleters,     \* threads that unregister queries
  MaxJobs,      \* bound of the model on the length of the list
  MaxWaiting    \* bound of the model on waitingQueries

ASSUME QueueAssumption == NoQuery \notin Queries

VARIABLES
  list,         \* queriesToExecList, as the queries of its jobs
  waiting,      \* waitingQueries
  onWaitQueue,  \* the executor has put itself on waitQueue ...
  woken,        \* ... and a wake_up has made it runnable since
  xpc, cur,     \* the executor: where it is, the job it runs
  ppc,          \* per producer: "idle", or "wake" between unlock and wake_up
  stop,         \* kthread_should_stop()
  late          \* history: jobs enqueued since the executor left its inner loop

vars == <<list, waiting, onWaitQueue, woken, xpc, cur, ppc, stop, late>>

Init ==
  /\ list = <<>> /\ waiting = 0
  /\ onWaitQueue = FALSE /\ woken = FALSE
  /\ xpc = "loop" /\ cur = NoQuery
  /\ ppc = [p \in Producers |-> "idle"]
  /\ stop = FALSE /\ late = 0

-----------------------------------------------------------------------------
(* Variants of definitions below, each with a plausible bug.  Nothing uses *)
(* them; they show which bug breaks which property (PROJECT.json).         *)

enqueueUncounted(p, q) ==
  /\ ppc[p] = "idle" /\ Len(list) < MaxJobs
  /\ list' = Append(list, q)
  /\ ppc' = [ppc EXCEPT ![p] = "wake"]
  /\ UNCHANGED <<waiting, onWaitQueue, woken, xpc, cur, stop, late>>

delPendingUnlocked(d, q) ==
  /\ q \in ToSet(list)
  /\ list' = Without(list, {q})
  /\ UNCHANGED <<waiting, onWaitQueue, woken, xpc, cur, ppc, stop, late>>

delPendingCountsAll(d, q) ==
  /\ xpc \notin {"dequeue", "execute"}
  /\ q \in ToSet(list)
  /\ list' = Without(list, {q})
  /\ waiting' = waiting - Len(list)
  /\ UNCHANGED <<onWaitQueue, woken, xpc, cur, ppc, stop, late>>

PrepareWithoutJoining ==
  /\ xpc = "prepare"
  /\ woken' = FALSE
  /\ xpc' = "test"
  /\ UNCHANGED <<list, waiting, onWaitQueue, cur, ppc, stop, late>>

LoopEndAtOnce ==
  /\ xpc = "loop" /\ (stop \/ waiting <= 0)
  /\ xpc' = "ask"
  /\ UNCHANGED <<list, waiting, onWaitQueue, woken, cur, ppc, stop, late>>

-----------------------------------------------------------------------------
(* enqueueQuery.  Without memory for the job it returns with nothing       *)
(* changed here, which is a stuttering step.                               *)
enqueueQuery(p, q) ==
  /\ ppc[p] = "idle"
  /\ Len(list) < MaxJobs /\ waiting < MaxWaiting
  /\ list' = Append(list, q)
  /\ waiting' = waiting + 1
  /\ ppc' = [ppc EXCEPT ![p] = "wake"]
  /\ late' = IF xpc \in {"ask", "done"} THEN late + 1 ELSE late
  /\ UNCHANGED <<onWaitQueue, woken, xpc, cur, stop>>

WakeUp(p) ==
  /\ ppc[p] = "wake"
  /\ ppc' = [ppc EXCEPT ![p] = "idle"]
  /\ woken' = (woken \/ onWaitQueue)
  /\ UNCHANGED <<list, waiting, onWaitQueue, xpc, cur, stop, late>>

(* The executor reads the lists under read_lock(slcLock), from before it   *)
(* dequeues a job until the job is done.                                   *)
HoldsSlcLock == xpc \in {"dequeue", "execute", "oops"}

(* delPendingQuery, called by delQueries under the write lock of slcLock.  *)
delPendingQuery(d, q) ==
  /\ ~HoldsSlcLock
  /\ q \in ToSet(list)
  /\ list' = Without(list, {q})
  /\ UNCHANGED <<waiting, onWaitQueue, woken, xpc, cur, ppc, stop, late>>

(* kthread_stop(queryExecThread), the first thing slc_exit does.  The      *)
(* module cannot be unloaded while providers are registered, but the comm  *)
(* thread, which is stopped next, may still enqueue the tuples of a        *)
(* MSG_QUERY_CONTINUE: nobody who enqueues is waited for.                  *)
StopExecutor ==
  /\ ~stop
  /\ stop' = TRUE
  /\ woken' = (woken \/ onWaitQueue)
  /\ UNCHANGED <<list, waiting, onWaitQueue, xpc, cur, ppc, late>>

-----------------------------------------------------------------------------
(* queryExecutorWork.  wait_event_interruptible is: join waitQueue, test   *)
(* the condition, and leave the CPU unless woken since joining.            *)

Prepare ==
  /\ xpc = "prepare"
  /\ onWaitQueue' = TRUE /\ woken' = FALSE
  /\ xpc' = "test"
  /\ UNCHANGED <<list, waiting, cur, ppc, stop, late>>

Test ==
  /\ xpc = "test"
  /\ IF stop \/ waiting > 0
     THEN xpc' = "loop" /\ onWaitQueue' = FALSE
     ELSE xpc' = "sleep" /\ UNCHANGED onWaitQueue
  /\ UNCHANGED <<list, waiting, woken, cur, ppc, stop, late>>

Awake ==
  /\ xpc = "sleep" /\ woken
  /\ xpc' = "prepare"
  /\ UNCHANGED <<list, waiting, onWaitQueue, woken, cur, ppc, stop, late>>

LoopAgain ==
  /\ xpc = "loop" /\ waiting > 0
  /\ xpc' = "dequeue"
  /\ UNCHANGED <<list, waiting, onWaitQueue, woken, cur, ppc, stop, late>>

LoopEnd ==
  /\ xpc = "loop" /\ waiting <= 0
  /\ xpc' = "ask"
  /\ UNCHANGED <<list, waiting, onWaitQueue, woken, cur, ppc, stop, late>>

(* kthread_should_stop() is asked after the counter was read.              *)
ShouldStop ==
  /\ xpc = "ask" /\ stop
  /\ xpc' = "done"
  /\ UNCHANGED <<list, waiting, onWaitQueue, woken, cur, ppc, stop, late>>

GoOn ==
  /\ xpc = "ask" /\ ~stop
  /\ xpc' = "prepare" /\ late' = 0
  /\ UNCHANGED <<list, waiting, onWaitQueue, woken, cur, ppc, stop>>

Dequeue ==
  /\ xpc = "dequeue" /\ list # <<>>
  /\ cur' = Head(list)
  /\ list' = Tail(list)
  /\ waiting' = waiting - 1
  /\ xpc' = "execute"
  /\ UNCHANGED <<onWaitQueue, woken, ppc, stop, late>>

(* list_first_entry of an empty list is not a job: list_del corrupts the   *)
(* list head, and what is executed and freed is static memory.             *)
DequeueFromEmpty ==
  /\ xpc = "dequeue" /\ list = <<>>
  /\ xpc' = "oops"
  /\ UNCHANGED <<list, waiting, onWaitQueue, woken, cur, ppc, stop, late>>

Execute ==
  /\ xpc = "execute"
  /\ cur' = NoQuery
  /\ xpc' = "loop"
  /\ UNCHANGED <<list, waiting, onWaitQueue, woken, ppc, stop, late>>

-----------------------------------------------------------------------------
Executor ==
  \/ Prepare \/ Test \/ Awake \/ LoopAgain \/ LoopEnd \/ ShouldStop \/ GoOn
  \/ Dequeue \/ DequeueFromEmpty \/ Execute

Next ==
  \/ \E p \in Producers : (\E q \in Queries : enqueueQuery(p, q)) \/ WakeUp(p)
  \/ \E d \in Deleters, q \in Queries : delPendingQuery(d, q)
  \/ StopExecutor
  \/ Executor

(* The executor is scheduled, and a call of enqueueQuery returns.          *)
Fairness == WF_vars(Executor) /\ \A p \in Producers : WF_vars(WakeUp(p))

Spec == Init /\ [][Next]_vars /\ Fairness

-----------------------------------------------------------------------------
TypeOK ==
  /\ list \in Seq(Queries)
  /\ waiting \in Nat /\ late \in Nat
  /\ onWaitQueue \in BOOLEAN /\ woken \in BOOLEAN /\ stop \in BOOLEAN
  /\ xpc \in {"prepare", "test", "sleep", "loop", "dequeue", "execute", "oops",
             "ask", "done"}
  /\ cur \in Queries \cup {NoQuery}
  /\ ppc \in [Producers -> {"idle", "wake"}]

(* The comment at libkernel.c:57-62: waitingQueries "holds the number of   *)
(* outstanding queries", so that the executor may trust it instead of the  *)
(* list.                                                                   *)
WaitingCountsJobs == waiting = Len(list)

(* Also when jobs are purged, no job on the list is missing from the       *)
(* counter: the executor does not stop looping too early.                  *)
EveryJobCounted == waiting >= Len(list)

(* The race that comment is about: the executor never sleeps through a job *)
(* or a request to stop, unless the wake-up for it is still to come.       *)
NoLostWakeup ==
  xpc = "sleep" /\ ~woken /\ (list # <<>> \/ stop) => \E p \in Producers : ppc[p] = "wake"

(* A stopped executor has run or seen purged every job that was there when *)
(* it last left its inner loop.  What it leaves behind came later: between *)
(* that and kthread_should_stop(), or when it was gone.                    *)
DrainedAtExit == xpc = "done" => Len(list) <= late

Jobs == INSTANCE JobQueue WITH jobs <- list, running <- cur

(* A job runs at most once, in the order of the calls of enqueueQuery, and *)
(* its query is not purged while it runs.                                  *)
JobQueueSafety == Jobs!Safety

(* And every job runs, as long as the counter is exact, that is, until a   *)
(* query with jobs in the queue is unregistered, and the executor is there.*)
JobsRun == [](WaitingCountsJobs /\ xpc # "done") => Jobs!Fairness
===============================================================================
