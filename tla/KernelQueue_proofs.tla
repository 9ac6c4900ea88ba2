-------------------------- MODULE KernelQueue_proofs --------------------------
(***************************************************************************)
(* The kernel's queue for any queries, producers and unregistering         *)
(* threads: the counter never lags behind the list, no wake-up is lost,    *)
(* only late jobs are left at exit, and jobs are run as JobQueue says.      *)
(***************************************************************************)
EXTENDS KernelQueue, FiniteSetTheorems, TLAPS

(* A purge leaves a list of jobs that is not longer.                       *)
LEMMA WithoutTheorem ==
  ASSUME NEW S, NEW s \in Seq(S), NEW D
  PROVE  Without(s, D) \in Seq(S) /\ Len(Without(s, D)) <= Len(s)
  <1>. DEFINE K == {i \in 1 .. Len(s) : s[i] \notin D}
              c == Cardinality(K)
              Upto(i) == {j \in K : j <= i}
              rank == [i \in K |-> Cardinality(Upto(i))]
              Place(n) == CHOOSE i \in K : Cardinality(Upto(i)) = n
  <1>1. IsFiniteSet(1 .. Len(s)) /\ Cardinality(1 .. Len(s)) = Len(s)
    <2>1. Len(s) \in Nat
      OBVIOUS
    <2>2. /\ IsFiniteSet(1 .. Len(s))
          /\ Cardinality(1 .. Len(s)) = IF 1 > Len(s) THEN 0 ELSE Len(s) - 1 + 1
      BY <2>1, FS_Interval
    <2>. QED BY <2>1, <2>2
  <1>2. IsFiniteSet(K) /\ c \in Nat /\ c <= Len(s)
    <2>1. K \subseteq 1 .. Len(s) /\ Len(s) \in Nat
      OBVIOUS
    <2>2. /\ IsFiniteSet(K) /\ Cardinality(K) \in Nat
          /\ Cardinality(K) <= Cardinality(1 .. Len(s))
      BY <1>1, <2>1, FS_Subset, FS_CardinalityType
    <2>. QED BY <1>1, <2>2
  <1>3. ASSUME NEW i \in K PROVE IsFiniteSet(Upto(i)) /\ rank[i] \in 1 .. c
    <2>1. Upto(i) \subseteq K /\ i \in Upto(i)
      OBVIOUS
    <2>2. IsFiniteSet(Upto(i)) /\ Cardinality(Upto(i)) <= c
      BY <1>2, <2>1, FS_Subset
    <2>3. Cardinality(Upto(i)) \in Nat /\ Cardinality(Upto(i)) # 0
      BY <2>1, <2>2, FS_CardinalityType, FS_EmptySet
    <2>. QED BY <1>2, <2>2, <2>3
  <1>4. ASSUME NEW i \in K, NEW j \in K, rank[i] = rank[j] PROVE ~ (i < j)
    <2>1. SUFFICES ASSUME i < j PROVE FALSE
      OBVIOUS
    <2>2. Upto(i) \subseteq Upto(j) /\ j \in Upto(j) /\ j \notin Upto(i)
      BY <2>1
    <2>. QED BY <1>3, <1>4, <2>2, FS_Subset
  <1>5. rank \in Injection(K, 1 .. c)
    <2>1. ASSUME NEW i \in K, NEW j \in K, rank[i] = rank[j] PROVE i = j
      <3>1. ~ (i < j) /\ ~ (j < i)
        BY <1>4, <2>1
      <3>. QED BY <3>1
    <2>. QED BY <1>3, <2>1 DEF Injection, IsInjective
  <1>6. rank \in Surjection(K, 1 .. c)
    <2>1. IsFiniteSet(1 .. c) /\ Cardinality(1 .. c) = c
      BY <1>2, FS_Interval
    <2>. HIDE DEF rank, c
    <2>. QED BY <1>5, <2>1, FS_Injection DEF c
  <1>7. ASSUME NEW n \in 1 .. c PROVE Place(n) \in K /\ rank[Place(n)] = n
    <2>1. \E i \in K : Cardinality(Upto(i)) = n
      BY <1>6 DEF Surjection
    <2>2. Place(n) \in K /\ Cardinality(Upto(Place(n))) = n
      <3>. HIDE DEF Upto
      <3>. QED BY <2>1, Zenon
    <2>. QED BY <2>2
  <1>8. DOMAIN s = 1 .. Len(s)
    OBVIOUS
  <1>9. Without(s, D) = [n \in 1 .. c |-> s[Place(n)]]
    <2>. DEFINE Kept == [L \in SUBSET DOMAIN s |->
                           [n \in 1 .. Cardinality(L) |->
                              s[CHOOSE i \in L : Cardinality({j \in L : j <= i}) = n]]]
    <2>1. K = {i \in DOMAIN s : s[i] \notin D} /\ K \in SUBSET DOMAIN s
      BY <1>8
    <2>2. Without(s, D) = Kept[K]
      BY <2>1, Zenon DEF Without
    <2>3. Kept[K] = [n \in 1 .. c |-> s[Place(n)]]
      BY <2>1, Zenon
    <2>. QED BY <2>2, <2>3
  <1>. HIDE DEF Place, rank
  <1>10. Without(s, D) \in Seq(S) /\ Len(Without(s, D)) = c
    <2>1. \A n \in 1 .. c : s[Place(n)] \in S
      BY <1>7
    <2>. QED BY <1>2, <1>9, <2>1
  <1>. QED BY <1>2, <1>10

(* Where the executor is determines what it has in its hands.              *)
ExecutorState ==
  /\ xpc \in {"test", "sleep"} => onWaitQueue
  /\ xpc = "execute" <=> cur # NoQuery
  /\ xpc = "done" => stop
  /\ xpc = "ask" => Len(list) <= late

IInv ==
  /\ TypeOK /\ ExecutorState
  /\ EveryJobCounted /\ NoLostWakeup /\ DrainedAtExit

-------------------------------------------------------------------------------
LEMMA InitInv == Init => IInv
  <1>. SUFFICES ASSUME Init PROVE IInv
    OBVIOUS
  <1>1. TypeOK
    <2>1. list \in Seq(Queries) /\ waiting \in Nat /\ late \in Nat /\ ppc \in [Producers -> {"idle", "wake"}]
      BY DEF Init
    <2>2. onWaitQueue \in BOOLEAN /\ woken \in BOOLEAN /\ stop \in BOOLEAN
      BY DEF Init
    <2>3. xpc = "loop" /\ cur \in Queries \cup {NoQuery}
      BY DEF Init
    <2>. QED BY <2>1, <2>2, <2>3 DEF TypeOK
  <1>2. ExecutorState
    BY DEF Init, ExecutorState
  <1>3. EveryJobCounted /\ NoLostWakeup /\ DrainedAtExit
    BY DEF Init, EveryJobCounted, NoLostWakeup, DrainedAtExit
  <1>. QED BY <1>1, <1>2, <1>3 DEF IInv

(* A producer's job is counted as it is linked, and its wake-up is to come. *)
LEMMA EnqueueInv ==
  ASSUME IInv, NEW p \in Producers, NEW q \in Queries, enqueueQuery(p, q)
  PROVE  IInv'
  <1>. USE DEF IInv, enqueueQuery
  <1>1. TypeOK'
    BY DEF TypeOK
  <1>2. ExecutorState'
    BY DEF TypeOK, ExecutorState
  <1>3. EveryJobCounted'
    BY DEF TypeOK, EveryJobCounted
  <1>4. NoLostWakeup'
    BY DEF TypeOK, NoLostWakeup
  <1>5. DrainedAtExit'
    BY DEF TypeOK, DrainedAtExit
  <1>. QED BY <1>1, <1>2, <1>3, <1>4, <1>5

LEMMA WakeUpInv ==
  ASSUME IInv, NEW p \in Producers, WakeUp(p)
  PROVE  IInv'
  <1>. USE DEF IInv, WakeUp
  <1>1. TypeOK'
    BY DEF TypeOK
  <1>2. NoLostWakeup'
    BY DEF ExecutorState, NoLostWakeup
  <1>. QED BY <1>1, <1>2 DEF ExecutorState, EveryJobCounted, DrainedAtExit

(* A purge makes the list shorter and leaves the counter.                  *)
LEMMA PurgeInv ==
  ASSUME IInv, NEW d \in Deleters, NEW q \in Queries, delPendingQuery(d, q)
  PROVE  IInv'
  <1>. USE DEF IInv, delPendingQuery
  <1>1. list \in Seq(Queries) /\ waiting \in Nat
    BY DEF TypeOK
  <1>2. Without(list, {q}) \in Seq(Queries) /\ Len(Without(list, {q})) <= Len(list)
    BY <1>1, WithoutTheorem
  <1>3. TypeOK'
    BY <1>2 DEF TypeOK
  <1>4. EveryJobCounted'
    BY <1>1, <1>2 DEF EveryJobCounted
  <1>5. list # <<>> /\ late \in Nat
    BY DEF ToSet, TypeOK
  <1>6. NoLostWakeup' /\ DrainedAtExit'
    BY <1>1, <1>2, <1>5 DEF NoLostWakeup, DrainedAtExit
  <1>7. ExecutorState'
    BY <1>1, <1>2, <1>5 DEF ExecutorState
  <1>. QED BY <1>3, <1>4, <1>6, <1>7

LEMMA StopInv ==
  ASSUME IInv, StopExecutor
  PROVE  IInv'
  BY DEF IInv, StopExecutor, TypeOK, ExecutorState, EveryJobCounted, NoLostWakeup,
     DrainedAtExit

(* The executor goes to sleep only after it has seen the counter at 0, and *)
(* leaves its loops only then.                                             *)
LEMMA SleepInv ==
  ASSUME IInv, Prepare \/ Test \/ Awake \/ LoopAgain \/ LoopEnd \/ ShouldStop \/ GoOn
  PROVE  IInv'
  <1>. USE DEF IInv
  <1>1. waiting \in Nat /\ late \in Nat /\ list \in Seq(Queries) /\ waiting >= Len(list)
    BY DEF TypeOK, EveryJobCounted
  <1>2. waiting <= 0 => list = <<>>
    BY <1>1
  <1>3. TypeOK' /\ EveryJobCounted'
    <2>. USE DEF TypeOK, EveryJobCounted
    <2>1. CASE Prepare \/ Test \/ Awake
      BY <2>1 DEF Prepare, Test, Awake
    <2>2. CASE LoopAgain \/ LoopEnd
      BY <2>2 DEF LoopAgain, LoopEnd
    <2>3. CASE ShouldStop \/ GoOn
      BY <2>3 DEF ShouldStop, GoOn
    <2>. QED BY <2>1, <2>2, <2>3
  <1>4. ExecutorState'
    BY <1>1, <1>2 DEF ExecutorState, Prepare, Test, Awake, LoopAgain, LoopEnd, ShouldStop, GoOn
  <1>5. NoLostWakeup'
    BY <1>1, <1>2 DEF NoLostWakeup, Prepare, Test, Awake, LoopAgain, LoopEnd, ShouldStop, GoOn
  <1>6. DrainedAtExit'
    BY DEF ExecutorState, DrainedAtExit, Prepare, Test, Awake, LoopAgain, LoopEnd, ShouldStop, GoOn
  <1>. QED BY <1>3, <1>4, <1>5, <1>6

LEMMA WorkInv ==
  ASSUME IInv, Dequeue \/ DequeueFromEmpty \/ Execute
  PROVE  IInv'
  <1>. USE DEF IInv
  <1>1. CASE Dequeue
    <2>1. Head(list) \in Queries /\ Tail(list) \in Seq(Queries) /\ Len(Tail(list)) = Len(list) - 1
      BY <1>1 DEF Dequeue, TypeOK
    <2>2. waiting \in Nat /\ waiting >= Len(list) /\ Len(list) > 0
      BY <1>1 DEF Dequeue, TypeOK, EveryJobCounted
    <2>3. TypeOK' /\ EveryJobCounted'
      BY <1>1, <2>1, <2>2 DEF Dequeue, TypeOK, EveryJobCounted
    <2>4. ExecutorState'
      BY <1>1, <2>1, QueueAssumption DEF Dequeue, ExecutorState
    <2>. QED BY <1>1, <2>3, <2>4 DEF Dequeue, NoLostWakeup, DrainedAtExit
  <1>2. CASE DequeueFromEmpty
    BY <1>2 DEF DequeueFromEmpty, TypeOK, ExecutorState, EveryJobCounted, NoLostWakeup, DrainedAtExit
  <1>3. CASE Execute
    BY <1>3 DEF Execute, TypeOK, ExecutorState, EveryJobCounted, NoLostWakeup, DrainedAtExit
  <1>. QED BY <1>1, <1>2, <1>3

LEMMA NextInv ==
  ASSUME IInv, [Next]_vars
  PROVE  IInv'
  <1>1. CASE UNCHANGED vars
    BY <1>1 DEF vars, IInv, TypeOK, ExecutorState, EveryJobCounted, NoLostWakeup, DrainedAtExit
  <1>2. CASE Next
    BY <1>2, EnqueueInv, WakeUpInv, PurgeInv, StopInv, SleepInv, WorkInv DEF Next, Executor
  <1>. QED BY <1>1, <1>2

-------------------------------------------------------------------------------
(* The counter is never below the number of jobs, the executor does not    *)
(* sleep through a job or a stop, and a stopped executor leaves no job:    *)
(* the invariants of queryExecutorWork for any number of producers.        *)
THEOREM InductiveInvariant == Spec => []IInv
  BY InitInv, NextInv, PTL DEF Spec

(* Types, of which waitingQueries \in Nat is the one that needs the        *)
(* invariant: the executor counts down only what was counted.              *)
THEOREM TypeCorrect == Spec => []TypeOK
  <1>1. IInv => TypeOK
    BY DEF IInv
  <1>. QED BY <1>1, InductiveInvariant, PTL

(* No job on queriesToExecList is missing from waitingQueries.             *)
THEOREM Counted == Spec => []EveryJobCounted
  <1>1. IInv => EveryJobCounted
    BY DEF IInv
  <1>. QED BY <1>1, InductiveInvariant, PTL

(* The executor sleeps through no job: the race of the comment at          *)
(* libkernel.c:57-62 cannot happen, also not when jobs are purged.         *)
THEOREM WakeupSafe == Spec => []NoLostWakeup
  <1>1. IInv => NoLostWakeup
    BY DEF IInv
  <1>. QED BY <1>1, InductiveInvariant, PTL

(* The executor that slc_exit stops first leaves no job that was there     *)
(* when it last saw the counter: with producers that nobody waits for,     *)
(* this is all that kthread_stop gives.                                    *)
THEOREM ExitSafe == Spec => []DrainedAtExit
  <1>1. IInv => DrainedAtExit
    BY DEF IInv
  <1>. QED BY <1>1, InductiveInvariant, PTL

-------------------------------------------------------------------------------
(* Each step of the queue is a step of JobQueue or leaves its variables.   *)
LEMMA StepRefines ==
  ASSUME IInv, [Next]_vars
  PROVE  [Jobs!Next]_(Jobs!vars)
  <1>. USE DEF Jobs!Next, Jobs!vars
  <1>1. CASE UNCHANGED vars
    BY <1>1 DEF vars
  <1>2. ASSUME NEW p \in Producers, NEW q \in Queries, enqueueQuery(p, q)
        PROVE  Jobs!Enqueue(q)
    BY <1>2 DEF enqueueQuery, Jobs!Enqueue
  <1>3. ASSUME NEW d \in Deleters, NEW q \in Queries, delPendingQuery(d, q)
        PROVE  Jobs!Purge(q)
    BY <1>3 DEF delPendingQuery, HoldsSlcLock, Jobs!Purge, Jobs!Without, Without,
                Jobs!Cardinality, Cardinality, IInv, ExecutorState
  <1>4. CASE Dequeue
    BY <1>4 DEF Dequeue, Jobs!Start, IInv, ExecutorState
  <1>5. CASE Execute
    BY <1>5 DEF Execute, Jobs!Finish, IInv, ExecutorState
  <1>6. ASSUME \/ \E p \in Producers : WakeUp(p)
               \/ StopExecutor \/ Prepare \/ Test \/ Awake
               \/ LoopAgain \/ LoopEnd \/ ShouldStop \/ GoOn \/ DequeueFromEmpty
        PROVE  UNCHANGED <<list, cur>>
    BY <1>6 DEF WakeUp, StopExecutor, Prepare, Test, Awake, LoopAgain, LoopEnd, ShouldStop, GoOn,
                DequeueFromEmpty
  <1>. QED BY <1>1, <1>2, <1>3, <1>4, <1>5, <1>6 DEF Next, Executor

(* The queue implements JobQueue: a job runs at most once, in the order of *)
(* enqueueQuery, and delPendingQuery never takes the one that runs.        *)
THEOREM Refinement == Spec => JobQueueSafety
  <1>1. Init => Jobs!Init
    BY DEF Init, Jobs!Init
  <1>. QED BY <1>1, StepRefines, InductiveInvariant, PTL DEF Spec, JobQueueSafety, Jobs!Safety
===============================================================================
