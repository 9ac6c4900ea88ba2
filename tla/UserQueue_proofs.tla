--------------------------- MODULE UserQueue_proofs ---------------------------
(***************************************************************************)
(* The userspace queue for any queries, any finite set of producers and    *)
(* any unregistering threads: every job is announced, the counter agrees   *)
(* with the semaphore, and jobs are run as JobQueue says.                  *)
(***************************************************************************)
EXTENDS UserQueue, FiniteSetTheorems, TLAPS

(* A purge leaves a list of jobs that is not longer.                       *)
LEMMA WithoutTheorem ==
  ASSUME NEW S, NEW s \in Seq(S), NEW D
  PROVE  Without(s, D) \in Seq(S) /\ Len(Without(s, D)) <= Len(s)
  <1>. DEFINE K == {i \in 1 .. Len(s) : s[i] \notin D}
              c == Cardinality(K)
              Upto(i) == {j \in K : j <= i}
              rank == [i \in K |-> Cardinality(Upto(i))]
              Place(n) == CHOOSE i \in K : Cardinality(Upto(i)) = n
  <1>1. IsFiniteSet(1 .. Len(s)) /\ Cardinality(1 .. Len(s)) = Len(s)
    <2>1. Len(s) \in Nat
      OBVIOUS
    <2>2. /\ IsFiniteSet(1 .. Len(s))
          /\ Cardinality(1 .. Len(s)) = IF 1 > Len(s) THEN 0 ELSE Len(s) - 1 + 1
      BY <2>1, FS_Interval
    <2>. QED BY <2>1, <2>2
  <1>2. IsFiniteSet(K) /\ c \in Nat /\ c <= Len(s)
    <2>1. K \subseteq 1 .. Len(s) /\ Len(s) \in Nat
      OBVIOUS
    <2>2. /\ IsFiniteSet(K) /\ Cardinality(K) \in Nat
          /\ Cardinality(K) <= Cardinality(1 .. Len(s))
      BY <1>1, <2>1, FS_Subset, FS_CardinalityType
    <2>. QED BY <1>1, <2>2
  <1>3. ASSUME NEW i \in K PROVE IsFiniteSet(Upto(i)) /\ rank[i] \in 1 .. c
    <2>1. Upto(i) \subseteq K /\ i \in Upto(i)
      OBVIOUS
    <2>2. IsFiniteSet(Upto(i)) /\ Cardinality(Upto(i)) <= c
      BY <1>2, <2>1, FS_Subset
    <2>3. Cardinality(Upto(i)) \in Nat /\ Cardinality(Upto(i)) # 0
      BY <2>1, <2>2, FS_CardinalityType, FS_EmptySet
    <2>. QED BY <1>2, <2>2, <2>3
  <1>4. ASSUME NEW i \in K, NEW j \in K, rank[i] = rank[j] PROVE ~ (i < j)
    <2>1. SUFFICES ASSUME i < j PROVE FALSE
      OBVIOUS
    <2>2. Upto(i) \subseteq Upto(j) /\ j \in Upto(j) /\ j \notin Upto(i)
      BY <2>1
    <2>. QED BY <1>3, <1>4, <2>2, FS_Subset
  <1>5. rank \in Injection(K, 1 .. c)
    <2>1. ASSUME NEW i \in K, NEW j \in K, rank[i] = rank[j] PROVE i = j
      <3>1. ~ (i < j) /\ ~ (j < i)
        BY <1>4, <2>1
      <3>. QED BY <3>1
    <2>. QED BY <1>3, <2>1 DEF Injection, IsInjective
  <1>6. rank \in Surjection(K, 1 .. c)
    <2>1. IsFiniteSet(1 .. c) /\ Cardinality(1 .. c) = c
      BY <1>2, FS_Interval
    <2>. HIDE DEF rank, c
    <2>. QED BY <1>5, <2>1, FS_Injection DEF c
  <1>7. ASSUME NEW n \in 1 .. c PROVE Place(n) \in K /\ rank[Place(n)] = n
    <2>1. \E i \in K : Cardinality(Upto(i)) = n
      BY <1>6 DEF Surjection
    <2>2. Place(n) \in K /\ Cardinality(Upto(Place(n))) = n
      <3>. HIDE DEF Upto
      <3>. QED BY <2>1, Zenon
    <2>. QED BY <2>2
  <1>8. DOMAIN s = 1 .. Len(s)
    OBVIOUS
  <1>9. Without(s, D) = [n \in 1 .. c |-> s[Place(n)]]
    <2>. DEFINE Kept == [L \in SUBSET DOMAIN s |->
                           [n \in 1 .. Cardinality(L) |->
                              s[CHOOSE i \in L : Cardinality({j \in L : j <= i}) = n]]]
    <2>1. K = {i \in DOMAIN s : s[i] \notin D} /\ K \in SUBSET DOMAIN s
      BY <1>8
    <2>2. Without(s, D) = Kept[K]
      BY <2>1, Zenon DEF Without
    <2>3. Kept[K] = [n \in 1 .. c |-> s[Place(n)]]
      BY <2>1, Zenon
    <2>. QED BY <2>2, <2>3
  <1>. HIDE DEF Place, rank
  <1>10. Without(s, D) \in Seq(S) /\ Len(Without(s, D)) = c
    <2>1. \A n \in 1 .. c : s[Place(n)] \in S
      BY <1>7
    <2>. QED BY <1>2, <1>9, <2>1
  <1>. QED BY <1>2, <1>10

(* Where the executor is determines its job and its lock; the lock may     *)
(* also be left over from a job that was purged.                           *)
ExecutorState ==
  /\ xpc = "execute" <=> cur # NoQuery
  /\ xpc \in {"dequeue", "execute"} => xHoldsSlc

IInv == TypeOK /\ ExecutorState /\ EveryJobAnnounced /\ CounterAgrees

(* The producers inside enqueueQuery, and those that have not counted yet. *)
Open == {p \in Producers : ppc[p] # "idle"}
Linked == {p \in Producers : ppc[p] = "count"}

LEMMA Counts ==
  /\ IsFiniteSet(Open) /\ IsFiniteSet(Linked)
  /\ Unposted = Cardinality(Open) /\ Uncounted = Cardinality(Linked)
  <1>1. Open \subseteq Producers /\ Linked \subseteq Producers
    BY DEF Open, Linked
  <1>2. IsFiniteSet(Open) /\ IsFiniteSet(Linked)
    BY <1>1, QueueAssumption, FS_Subset
  <1>. QED BY <1>2 DEF Unposted, Uncounted, Open, Linked

LEMMA Numbers ==
  /\ Unposted \in Nat /\ Uncounted \in Nat /\ Uncounted <= Unposted
  /\ Claimed \in Nat
  <1>1. Linked \subseteq Open
    BY DEF Open, Linked
  <1>2. Cardinality(Linked) <= Cardinality(Open)
    BY <1>1, Counts, FS_Subset
  <1>3. Cardinality(Open) \in Nat /\ Cardinality(Linked) \in Nat
    BY Counts, FS_CardinalityType
  <1>. QED BY <1>2, <1>3, Counts DEF Claimed

(* Steps that leave the producers alone leave the numbers alone.           *)
LEMMA SameProducers ==
  ASSUME UNCHANGED ppc
  PROVE  Unposted' = Unposted /\ Uncounted' = Uncounted
  BY DEF Unposted, Uncounted

LEMMA SameExecutor ==
  ASSUME UNCHANGED xpc
  PROVE  Claimed' = Claimed
  BY DEF Claimed

-------------------------------------------------------------------------------
LEMMA InitInv == Init => IInv
  <1>. SUFFICES ASSUME Init PROVE IInv
    OBVIOUS
  <1>1. TypeOK
    <2>1. list \in Seq(Queries) /\ waiting \in Nat /\ sem \in Nat
      BY DEF Init
    <2>2. xpc = "semop" /\ cur \in Queries \cup {NoQuery} /\ xHoldsSlc \in BOOLEAN
      BY DEF Init
    <2>3. ppc \in [Producers -> {"idle", "count", "post"}]
      BY DEF Init
    <2>4. running \in BOOLEAN /\ removed \in BOOLEAN
      BY DEF Init
    <2>. QED BY <2>1, <2>2, <2>3, <2>4 DEF TypeOK
  <1>2. ExecutorState
    BY DEF Init, ExecutorState
  <1>3. Open = {} /\ Linked = {}
    BY DEF Init, Open, Linked
  <1>4. Unposted = 0 /\ Uncounted = 0
    BY <1>3, Counts, FS_EmptySet
  <1>5. Len(list) = 0 /\ waiting = 0 /\ sem = 0 /\ Claimed = 0
    BY DEF Init, Claimed
  <1>6. EveryJobAnnounced /\ CounterAgrees
    BY <1>4, <1>5 DEF EveryJobAnnounced, CounterAgrees
  <1>. QED BY <1>1, <1>2, <1>6 DEF IInv

(* A producer links its job and owes a count and a post.                   *)
LEMMA LinkInv ==
  ASSUME IInv, NEW p \in Producers, NEW q \in Queries, Link(p, q)
  PROVE  IInv'
  <1>. USE DEF IInv
  <1>1. TypeOK'
    BY DEF Link, TypeOK, exit
  <1>2. ExecutorState'
    BY DEF Link, ExecutorState
  <1>3. Open' = Open \cup {p} /\ p \notin Open
    BY DEF Link, Open, TypeOK
  <1>4. Linked' = Linked \cup {p} /\ p \notin Linked
    BY DEF Link, Linked, TypeOK
  <1>5. Unposted' = Unposted + 1 /\ Uncounted' = Uncounted + 1
    BY <1>3, <1>4, Counts, FS_AddElement DEF Unposted, Uncounted, Open, Linked
  <1>6. Claimed' = Claimed /\ Len(list') = Len(list) + 1 /\ waiting' = waiting /\ sem' = sem
    BY DEF Link, Claimed, TypeOK
  <1>7. Len(list) \in Nat /\ sem \in Nat /\ waiting \in Nat
    BY DEF TypeOK
  <1>8. EveryJobAnnounced' /\ CounterAgrees'
    <2>. SUFFICES ASSUME ~removed PROVE EveryJobAnnounced' /\ CounterAgrees'
      BY DEF EveryJobAnnounced, CounterAgrees, exit, Link
    <2>1. Len(list) <= sem + Unposted + Claimed /\ waiting = sem + Unposted - Uncounted
      BY DEF EveryJobAnnounced, CounterAgrees
    <2>2. Len(list') <= sem' + Unposted' + Claimed'
      BY <2>1, <1>5, <1>6, <1>7, Numbers
    <2>3. waiting' = sem' + Unposted' - Uncounted'
      BY <2>1, <1>5, <1>6, <1>7, Numbers
    <2>. QED BY <2>2, <2>3 DEF EveryJobAnnounced, CounterAgrees
  <1>. QED BY <1>1, <1>2, <1>8

LEMMA CountInv ==
  ASSUME IInv, NEW p \in Producers, Count(p)
  PROVE  IInv'
  <1>. USE DEF IInv
  <1>1. TypeOK' /\ ExecutorState'
    BY DEF Count, TypeOK, ExecutorState, exit
  <1>2. Open' = Open
    BY DEF Count, Open, TypeOK
  <1>3. Linked' = Linked \ {p} /\ p \in Linked
    BY DEF Count, Linked, TypeOK
  <1>4. Unposted' = Unposted /\ Uncounted' = Uncounted - 1
    BY <1>2, <1>3, Counts, FS_RemoveElement DEF Unposted, Uncounted, Open, Linked
  <1>5. Claimed' = Claimed /\ waiting' = waiting + 1 /\ list' = list /\ sem' = sem
    BY DEF Count, Claimed
  <1>6. Len(list) \in Nat /\ sem \in Nat /\ waiting \in Nat
    BY DEF TypeOK
  <1>7. EveryJobAnnounced' /\ CounterAgrees'
    <2>. SUFFICES ASSUME ~removed PROVE EveryJobAnnounced' /\ CounterAgrees'
      BY DEF EveryJobAnnounced, CounterAgrees, exit, Count
    <2>1. Len(list) <= sem + Unposted + Claimed /\ waiting = sem + Unposted - Uncounted
      BY DEF EveryJobAnnounced, CounterAgrees
    <2>2. Len(list') <= sem' + Unposted' + Claimed'
      BY <2>1, <1>4, <1>5, <1>6, Numbers
    <2>3. waiting' = sem' + Unposted' - Uncounted'
      BY <2>1, <1>4, <1>5, <1>6, Numbers
    <2>. QED BY <2>2, <2>3 DEF EveryJobAnnounced, CounterAgrees
  <1>. QED BY <1>1, <1>7

LEMMA PostInv ==
  ASSUME IInv, NEW p \in Producers, Post(p)
  PROVE  IInv'
  <1>. USE DEF IInv
  <1>1. TypeOK' /\ ExecutorState'
    BY DEF Post, TypeOK, ExecutorState, exit
  <1>2. Open' = Open \ {p} /\ p \in Open
    BY DEF Post, Open, TypeOK
  <1>3. Linked' = Linked
    BY DEF Post, Linked, TypeOK
  <1>4. Unposted' = Unposted - 1 /\ Uncounted' = Uncounted
    BY <1>2, <1>3, Counts, FS_RemoveElement DEF Unposted, Uncounted, Open, Linked
  <1>5. Claimed' = Claimed /\ (~removed => sem' = sem + 1) /\ UNCHANGED <<list, waiting>>
    BY DEF Post, Claimed
  <1>6. sem \in Nat /\ waiting \in Nat /\ list \in Seq(Queries)
    BY DEF TypeOK
  <1>7. EveryJobAnnounced' /\ CounterAgrees'
    <2>. SUFFICES ASSUME ~removed PROVE EveryJobAnnounced' /\ CounterAgrees'
      BY DEF EveryJobAnnounced, CounterAgrees, exit, Post
    <2>1. Len(list) <= sem + Unposted + Claimed /\ waiting = sem + Unposted - Uncounted
      BY DEF EveryJobAnnounced, CounterAgrees
    <2>2. Len(list') <= sem' + Unposted' + Claimed'
      BY <2>1, <1>4, <1>5, <1>6, Numbers
    <2>3. waiting' = sem' + Unposted' - Uncounted'
      BY <2>1, <1>4, <1>5, <1>6, Numbers
    <2>. QED BY <2>2, <2>3 DEF EveryJobAnnounced, CounterAgrees
  <1>. QED BY <1>1, <1>7

(* A purge takes jobs and leaves their announcements.                      *)
LEMMA PurgeInv ==
  ASSUME IInv, NEW d \in Deleters, NEW q \in Queries, delPendingQuery(d, q)
  PROVE  IInv'
  <1>. USE DEF IInv, delPendingQuery
  <1>1. list \in Seq(Queries) /\ sem \in Nat
    BY DEF TypeOK
  <1>2. Without(list, {q}) \in Seq(Queries) /\ Len(Without(list, {q})) <= Len(list)
    BY <1>1, WithoutTheorem
  <1>3. TypeOK' /\ ExecutorState'
    BY <1>2 DEF TypeOK, ExecutorState, exit
  <1>4. EveryJobAnnounced'
    BY <1>1, <1>2, Numbers, SameProducers, SameExecutor DEF EveryJobAnnounced, exit
  <1>5. CounterAgrees'
    BY SameProducers DEF CounterAgrees, exit
  <1>. QED BY <1>3, <1>4, <1>5

(* Who takes a unit of the semaphore takes one of the counter, which is    *)
(* there, because every post was counted before.                           *)
LEMMA SemopInv ==
  ASSUME IInv, Semop
  PROVE  IInv'
  <1>. USE DEF IInv
  <1>1. sem \in Nat /\ waiting \in Nat /\ list \in Seq(Queries) /\ sem > 0 /\ ~removed
    BY DEF TypeOK, Semop
  <1>2. waiting > 0
    BY <1>1, Numbers DEF CounterAgrees
  <1>3. TypeOK' /\ ExecutorState'
    BY <1>1, <1>2 DEF Semop, TypeOK, ExecutorState, exit
  <1>4. Unposted' = Unposted /\ Uncounted' = Uncounted
    BY SameProducers DEF Semop
  <1>5. Claimed = 0 /\ Claimed' = 1 /\ sem' = sem - 1 /\ waiting' = waiting - 1 /\ list' = list
    BY DEF Semop, Claimed
  <1>6. EveryJobAnnounced' /\ CounterAgrees'
    <2>. SUFFICES ASSUME ~removed PROVE EveryJobAnnounced' /\ CounterAgrees'
      BY DEF EveryJobAnnounced, CounterAgrees, exit, Semop
    <2>1. Len(list) <= sem + Unposted + Claimed /\ waiting = sem + Unposted - Uncounted
      BY DEF EveryJobAnnounced, CounterAgrees
    <2>2. Len(list') <= sem' + Unposted' + Claimed'
      BY <2>1, <1>1, <1>4, <1>5, Numbers
    <2>3. waiting' = sem' + Unposted' - Uncounted'
      BY <2>1, <1>1, <1>4, <1>5, Numbers
    <2>. QED BY <2>2, <2>3 DEF EveryJobAnnounced, CounterAgrees
  <1>. QED BY <1>3, <1>6

LEMMA WorkInv ==
  ASSUME IInv, SemopFails \/ LockSlc \/ Dequeue \/ DequeueFromEmpty \/ Execute
  PROVE  IInv'
  <1>. USE DEF IInv
  <1>1. sem \in Nat /\ waiting \in Nat /\ list \in Seq(Queries)
    BY DEF TypeOK
  <1>2. UNCHANGED <<waiting, sem, ppc, running, removed>>
    BY DEF exit, SemopFails, LockSlc, Dequeue, DequeueFromEmpty, Execute
  <1>3. Unposted' = Unposted /\ Uncounted' = Uncounted
    BY <1>2, SameProducers
  <1>4. CounterAgrees'
    BY <1>2, <1>3 DEF CounterAgrees
  <1>5. CASE LockSlc
    <2>1. TypeOK' /\ ExecutorState'
      BY <1>5 DEF LockSlc, TypeOK, ExecutorState, exit
    <2>2. EveryJobAnnounced'
      BY <1>2, <1>3, <1>5 DEF LockSlc, EveryJobAnnounced, Claimed
    <2>. QED BY <1>4, <2>1, <2>2
  <1>6. CASE Dequeue
    <2>1. Head(list) \in Queries /\ Tail(list) \in Seq(Queries) /\ Len(Tail(list)) = Len(list) - 1
      BY <1>1, <1>6 DEF Dequeue
    <2>2. TypeOK'
      BY <1>6, <2>1 DEF Dequeue, TypeOK, exit
    <2>3. ExecutorState'
      BY <1>6, <2>1, QueueAssumption DEF Dequeue, ExecutorState
    <2>4. Claimed = 1 /\ Claimed' = 0 /\ Len(list') = Len(list) - 1
      BY <1>6, <2>1 DEF Dequeue, Claimed
    <2>5. EveryJobAnnounced'
      BY <1>1, <1>2, <1>3, <2>4, Numbers DEF EveryJobAnnounced
    <2>. QED BY <1>4, <2>2, <2>3, <2>5
  <1>7. CASE DequeueFromEmpty
    <2>1. TypeOK' /\ ExecutorState'
      BY <1>7 DEF DequeueFromEmpty, TypeOK, ExecutorState, exit
    <2>2. Len(list') = 0 /\ Claimed' = 0
      BY <1>7 DEF DequeueFromEmpty, Claimed
    <2>3. EveryJobAnnounced'
      BY <1>1, <1>2, <1>3, <2>2, Numbers DEF EveryJobAnnounced
    <2>. QED BY <1>4, <2>1, <2>3
  <1>8. CASE Execute
    <2>1. TypeOK' /\ ExecutorState'
      BY <1>8 DEF Execute, TypeOK, ExecutorState, exit
    <2>2. EveryJobAnnounced'
      BY <1>2, <1>3, <1>8 DEF Execute, EveryJobAnnounced, Claimed
    <2>. QED BY <1>4, <2>1, <2>2
  <1>9. CASE SemopFails
    <2>1. TypeOK' /\ ExecutorState'
      BY <1>9 DEF SemopFails, TypeOK, ExecutorState, exit
    <2>2. EveryJobAnnounced'
      BY <1>2, <1>9 DEF SemopFails, EveryJobAnnounced
    <2>. QED BY <1>4, <2>1, <2>2
  <1>. QED BY <1>5, <1>6, <1>7, <1>8, <1>9

(* exitLayer touches no job; without the semaphore nothing is announced.   *)
LEMMA ExitInv ==
  ASSUME IInv, AskToStop \/ RemoveSem
  PROVE  IInv'
  <1>1. UNCHANGED <<list, waiting, sem, xpc, cur, xHoldsSlc, ppc>> /\ (removed => removed')
    BY DEF AskToStop, RemoveSem
  <1>2. TypeOK' /\ ExecutorState'
    BY <1>1 DEF IInv, TypeOK, ExecutorState, AskToStop, RemoveSem
  <1>3. EveryJobAnnounced' /\ CounterAgrees'
    BY <1>1, SameProducers, SameExecutor DEF IInv, EveryJobAnnounced, CounterAgrees
  <1>. QED BY <1>2, <1>3 DEF IInv

LEMMA NextInv ==
  ASSUME IInv, [Next]_vars
  PROVE  IInv'
  <1>1. CASE UNCHANGED vars
    BY <1>1, SameProducers, SameExecutor
       DEF vars, exit, IInv, TypeOK, ExecutorState, EveryJobAnnounced, CounterAgrees
  <1>2. CASE Next
    BY <1>2, LinkInv, CountInv, PostInv, PurgeInv, SemopInv, WorkInv, ExitInv DEF Next, Producer, Executor
  <1>. QED BY <1>1, <1>2

-------------------------------------------------------------------------------
(* The counting of the userspace queue, for any number of producers that   *)
(* are in the middle of enqueueQuery.                                      *)
THEOREM InductiveInvariant == Spec => []IInv
  BY InitInv, NextInv, PTL DEF Spec

(* Types; waitingQueries \in Nat says that the executor's decrement, done  *)
(* after semop and without a lock, never comes before its increment.       *)
THEOREM TypeCorrect == Spec => []TypeOK
  <1>1. IInv => TypeOK
    BY DEF IInv
  <1>. QED BY <1>1, InductiveInvariant, PTL

(* No job waits without a post, made or to come, that will wake the        *)
(* executor for it.                                                        *)
THEOREM Announced == Spec => []EveryJobAnnounced
  <1>1. IInv => EveryJobAnnounced
    BY DEF IInv
  <1>. QED BY <1>1, InductiveInvariant, PTL

(* waitingQueries is the semaphore and the posts under way.                *)
THEOREM CounterSafe == Spec => []CounterAgrees
  <1>1. IInv => CounterAgrees
    BY DEF IInv
  <1>. QED BY <1>1, InductiveInvariant, PTL

-------------------------------------------------------------------------------
(* Each step of the queue is a step of JobQueue or leaves its variables.   *)
LEMMA StepRefines ==
  ASSUME IInv, [Next]_vars
  PROVE  [Jobs!Next]_(Jobs!vars)
  <1>. USE DEF Jobs!Next, Jobs!vars
  <1>1. CASE UNCHANGED vars
    BY <1>1 DEF vars
  <1>2. ASSUME NEW p \in Producers, NEW q \in Queries, Link(p, q)
        PROVE  Jobs!Enqueue(q)
    BY <1>2 DEF Link, Jobs!Enqueue
  <1>3. ASSUME NEW d \in Deleters, NEW q \in Queries, delPendingQuery(d, q)
        PROVE  Jobs!Purge(q)
    BY <1>3 DEF delPendingQuery, Jobs!Purge, Jobs!Without, Without,
                Jobs!Cardinality, Cardinality, IInv, ExecutorState
  <1>4. CASE Dequeue
    BY <1>4 DEF Dequeue, Jobs!Start, IInv, ExecutorState
  <1>5. CASE Execute
    BY <1>5 DEF Execute, Jobs!Finish, IInv, ExecutorState
  <1>6. ASSUME \/ \E p \in Producers : Count(p) \/ Post(p)
               \/ Semop \/ SemopFails \/ LockSlc \/ DequeueFromEmpty
               \/ AskToStop \/ RemoveSem
        PROVE  UNCHANGED <<list, cur>>
    BY <1>6 DEF Count, Post, Semop, SemopFails, LockSlc, DequeueFromEmpty, AskToStop, RemoveSem
  <1>. QED BY <1>1, <1>2, <1>3, <1>4, <1>5, <1>6 DEF Next, Producer, Executor

(* The safety part of the implementation of JobQueue: order, at most once, *)
(* and a purge never meets the job that runs.                              *)
THEOREM Refinement == Spec => Jobs!Safety
  <1>1. Init => Jobs!Init
    BY DEF Init, Jobs!Init
  <1>. QED BY <1>1, StepRefines, InductiveInvariant, PTL DEF Spec, Jobs!Safety
===============================================================================
