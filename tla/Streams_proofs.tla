---------------------------- MODULE Streams_proofs ----------------------------
(***************************************************************************)
(* For any finite set of queries at a node of any kind: what a handler     *)
(* uses is there, and the stream of the node follows its queries, apart    *)
(* from the cases the properties name.                                     *)
(***************************************************************************)
EXTENDS Streams, FiniteSetTheorems, TLAPS

(* Which labels an actor can be at, by who it is and what the node is.     *)
Places ==
  /\ \A q \in Queries : arg[q] = q /\ pc[q] \notin {"free", "gone"}
  /\ pc[Exit] \notin {"activate", "add", "start", "activated"}
  /\ Timed => \A a \in Actors : pc[a] \in {"idle", "stopTimer", "free", "gone"}
  /\ ~Timed => \A a \in Actors : pc[a] # "stopTimer"
  /\ kind = "probe" => \A a \in Actors : pc[a] # "subtract"
  /\ kind # "probe" => list = {}

(* While the provider goes, and when it is gone, nobody else is busy.      *)
Alone ==
  "window" \notin mishap /\ pc[Exit] # "idle" =>
    /\ \A q \in Queries : pc[q] = "idle"
    /\ pc[Exit] = "gone" => slots = {}

Calm == mishap \cap {"stale", "window"} = {}

(* Whom an actor adds or removes.                                          *)
Adding(a) == pc[a] \in {"activate", "add"}
Removing(a) == pc[a] \in {"stop", "join", "deactivated"}

(* Slots of actors in the middle of activate or deactivate.                *)
Slotted ==
  "window" \notin mishap =>
    \A a \in Actors : pc[a] \notin {"idle", "free", "gone"} => arg[a] \in slots

(* Timers: the kernel waits for their handlers.                            *)
Waited ==
  /\ ~Timed => \A q \in Queries : timer[q] = "idle"
  /\ kind = "hrtimer" => \A q \in Queries : timer[q] # "idle" => q \in job
Jobs == Timed /\ mishap \cap {"failed", "window"} = {} => job = slots

(* Probes: the list has queries in slots, and the probe is registered as   *)
(* long as the list is not empty, but for what actors have still to do.    *)
Someone(label) == \E a \in Actors : pc[a] = label
Listed ==
  kind = "probe" /\ Calm =>
    /\ list \subseteq slots
    /\ \A a \in Actors : Removing(a) => arg[a] \notin list
    /\ source => list # {} \/ Someone("stop")
    /\ "failed" \notin mishap =>
         /\ \A q \in slots \ list : \E a \in Actors : arg[a] = q /\ (Adding(a) \/ Removing(a))
         /\ list # {} => source \/ Someone("start")
Handled ==
  /\ Calm /\ ~Timed /\ handler # "idle" => source \/ Someone("join")
  /\ handler = "absent" => kind = "thread" /\ "failed" \in mishap

(* The thread: the counter is the number of queries that have been counted *)
(* and not been taken off, and the thread was told to run by who counted   *)
(* to one.                                                                 *)
Counted == {q \in slots : \A a \in Actors : arg[a] = q => ~Adding(a) /\ ~Removing(a)}
Counting == kind = "thread" /\ Calm => count = Cardinality(Counted)
Running ==
  kind = "thread" /\ Calm =>
    /\ source => count # 0 \/ Someone("stop")
    /\ source => handler # "idle" /\ ~Someone("join")
    /\ count # 0 => source \/ \E a \in Actors : pc[a] = "start" /\ seen[a] = 1

IInv ==
  /\ TypeOK /\ Places /\ Alone /\ Slotted /\ Waited /\ Jobs /\ Listed /\ Handled /\ Counting
  /\ Running /\ NoStaleUse

-------------------------------------------------------------------------------
(* Sets of queries are finite.                                             *)
LEMMA Sizes ==
  ASSUME NEW S, S \subseteq Queries
  PROVE  IsFiniteSet(S) /\ Cardinality(S) \in Nat
  BY StreamsAssumption, FS_Subset, FS_CardinalityType

(* Types.                                                                  *)
LEMMA TypeNext ==
  ASSUME TypeOK, [Next]_vars
  PROVE  TypeOK'
  <1>0. Cardinality(list) \in Int
    BY Sizes DEF TypeOK
  <1>. USE DEF TypeOK, Goto, Note, Fail, Back, provider, timers, Actors, Wake,
               UseJob, startSourceTimer
  <1>1. ASSUME NEW a \in Actors, TestEmpty(a) PROVE TypeOK'
    BY <1>0, <1>1 DEF TestEmpty
  <1>2. ASSUME NEW a \in Actors, addAndEnqueueQuery(a) PROVE TypeOK'
    BY <1>2 DEF addAndEnqueueQuery
  <1>3. ASSUME NEW a \in Actors, StartProbe(a) PROVE TypeOK'
    BY <1>3 DEF StartProbe
  <1>4. ASSUME NEW a \in Actors, findAndDeleteQuery(a) PROVE TypeOK'
    BY <1>4 DEF findAndDeleteQuery
  <1>5. ASSUME NEW a \in Actors, StopProbe(a) PROVE TypeOK'
    BY <1>5 DEF StopProbe
  <1>6. ASSUME NEW a \in Actors, Join(a) PROVE TypeOK'
    BY <1>6 DEF Join
  <1>7. ASSUME NEW a \in Actors, ReadCount(a) PROVE TypeOK'
    BY <1>7 DEF ReadCount
  <1>8. ASSUME NEW a \in Actors, WriteCount(a) PROVE TypeOK'
    BY <1>8 DEF WriteCount
  <1>9. ASSUME NEW a \in Actors, StartThread(a) PROVE TypeOK'
    BY <1>9 DEF StartThread
  <1>10. ASSUME NEW a \in Actors, StopThread(a) PROVE TypeOK'
    BY <1>10 DEF StopThread
  <1>11. ASSUME NEW a \in Actors, stopSourceTimer(a) PROVE TypeOK'
    BY <1>11 DEF stopSourceTimer
  <1>12. ASSUME NEW a \in Actors, NoTimer(a) PROVE TypeOK'
    BY <1>12 DEF NoTimer
  <1>13. ASSUME NEW q \in Queries, AddQuery(q) PROVE TypeOK'
    BY <1>13 DEF AddQuery
  <1>14. ASSUME NEW q \in Queries, DelQuery(q) PROVE TypeOK'
    BY <1>14 DEF DelQuery
  <1>15. ASSUME NEW q \in Queries, Continue(q) PROVE TypeOK'
    BY <1>15 DEF Continue
  <1>16. ASSUME NEW q \in Queries, Expire(q) PROVE TypeOK'
    BY <1>16 DEF Expire
  <1>17. ASSUME NEW q \in Queries, TryLock(q) PROVE TypeOK'
    BY <1>17 DEF TryLock
  <1>18. ASSUME NEW q \in Queries, Work(q) PROVE TypeOK'
    BY <1>18 DEF Work
  <1>19. CASE HandlerEnter
    BY <1>19 DEF HandlerEnter
  <1>20. CASE HandlerWalk
    BY <1>20 DEF HandlerWalk
  <1>21. CASE HandlerEnd
    BY <1>21 DEF HandlerEnd
  <1>22. CASE ThreadWakes
    BY <1>22 DEF ThreadWakes
  <1>23. CASE ThreadSends
    BY <1>23 DEF ThreadSends
  <1>24. CASE ExitBegin
    BY <1>24 DEF ExitBegin
  <1>25. CASE freeNode
    BY <1>25 DEF freeNode
  <1>26. CASE FreeNext
    BY <1>26 DEF FreeNext
  <1>27. CASE ExitEnd
    BY <1>27 DEF ExitEnd
  <1>28. CASE UNCHANGED vars
    BY <1>28 DEF vars
  <1>. QED BY <1>1, <1>2, <1>3, <1>4, <1>5, <1>6, <1>7, <1>8, <1>9, <1>10,
              <1>11, <1>12, <1>13, <1>14, <1>15, <1>16, <1>17, <1>18, <1>19,
              <1>20, <1>21, <1>22, <1>23, <1>24, <1>25, <1>26, <1>27, <1>28
       DEF Next, Actor, activate, deactivate, timerHandler, displayEvtWork

(* Labels.                                                                 *)
LEMMA PlacesNext ==
  ASSUME TypeOK, Places, [Next]_vars
  PROVE  Places'
  <1>. USE StreamsAssumption
  <1>. USE DEF Places, Timed, TypeOK, Goto, Note, Fail, Back, provider, timers,
               Actors, Wake, UseJob, startSourceTimer
  <1>1. ASSUME NEW a \in Actors, activate(a)
        PROVE  Places'
    BY <1>1 DEF activate, TestEmpty, addAndEnqueueQuery, StartProbe, StartThread
  <1>2. ASSUME NEW a \in Actors, deactivate(a)
        PROVE  Places'
    BY <1>2 DEF deactivate, findAndDeleteQuery, StopProbe, StopThread, Join
  <1>3. ASSUME NEW a \in Actors, ReadCount(a) \/ WriteCount(a)
        PROVE  Places'
    BY <1>3 DEF ReadCount, WriteCount
  <1>4. ASSUME NEW a \in Actors, stopSourceTimer(a) \/ NoTimer(a)
        PROVE  Places'
    BY <1>4 DEF stopSourceTimer, NoTimer
  <1>5. ASSUME NEW q \in Queries, AddQuery(q) \/ DelQuery(q) \/ Continue(q)
        PROVE  Places'
    BY <1>5 DEF AddQuery, DelQuery, Continue
  <1>6. ASSUME NEW q \in Queries, Expire(q) \/ timerHandler(q)
        PROVE  Places'
    BY <1>6 DEF Expire, timerHandler, TryLock, Work
  <1>7. ASSUME HandlerEnter \/ HandlerWalk \/ HandlerEnd \/ displayEvtWork
        PROVE  Places'
    BY <1>7 DEF HandlerEnter, HandlerWalk, HandlerEnd, displayEvtWork, ThreadWakes, ThreadSends
  <1>8. ASSUME ExitBegin \/ freeNode \/ FreeNext \/ ExitEnd
        PROVE  Places'
    BY <1>8 DEF ExitBegin, freeNode, FreeNext, ExitEnd
  <1>9. CASE UNCHANGED vars
    BY <1>9 DEF vars
  <1>. QED BY <1>1, <1>2, <1>3, <1>4, <1>5, <1>6, <1>7, <1>8, <1>9 DEF Next, Actor

(* Queries that change while the provider goes are noted.                  *)
LEMMA AloneNext ==
  ASSUME TypeOK, Places, Alone, [Next]_vars
  PROVE  Alone'
  <1>. USE StreamsAssumption
  <1>. USE DEF Places, Alone, Timed, Exiting, Gone, TypeOK, Goto, Note, Fail,
               Back, provider, timers, Actors, Wake, UseJob, startSourceTimer
  <1>1. ASSUME NEW a \in Actors, activate(a)
        PROVE  Alone'
    BY <1>1 DEF activate, TestEmpty, addAndEnqueueQuery, StartProbe, StartThread
  <1>2. ASSUME NEW a \in Actors, deactivate(a)
        PROVE  Alone'
    BY <1>2 DEF deactivate, findAndDeleteQuery, StopProbe, StopThread, Join
  <1>3. ASSUME NEW a \in Actors, ReadCount(a) \/ WriteCount(a)
        PROVE  Alone'
    BY <1>3 DEF ReadCount, WriteCount
  <1>4. ASSUME NEW a \in Actors, stopSourceTimer(a) \/ NoTimer(a)
        PROVE  Alone'
    BY <1>4 DEF stopSourceTimer, NoTimer
  <1>5. ASSUME NEW q \in Queries, AddQuery(q) \/ DelQuery(q) \/ Continue(q)
        PROVE  Alone'
    BY <1>5 DEF AddQuery, DelQuery, Continue
  <1>6. ASSUME NEW q \in Queries, Expire(q) \/ timerHandler(q)
        PROVE  Alone'
    BY <1>6 DEF Expire, timerHandler, TryLock, Work
  <1>7. ASSUME HandlerEnter \/ HandlerWalk \/ HandlerEnd \/ displayEvtWork
        PROVE  Alone'
    BY <1>7 DEF HandlerEnter, HandlerWalk, HandlerEnd, displayEvtWork, ThreadWakes, ThreadSends
  <1>8. ASSUME ExitBegin \/ freeNode \/ FreeNext \/ ExitEnd
        PROVE  Alone'
    BY <1>8 DEF ExitBegin, freeNode, FreeNext, ExitEnd
  <1>9. CASE UNCHANGED vars
    BY <1>9 DEF vars
  <1>. QED BY <1>1, <1>2, <1>3, <1>4, <1>5, <1>6, <1>7, <1>8, <1>9 DEF Next, Actor

(* Whose slot it is takes the query out of it, and the provider only when  *)
(* it is alone.                                                            *)
LEMMA SlottedNext ==
  ASSUME TypeOK, Places, Alone, Slotted, [Next]_vars
  PROVE  Slotted'
  <1>. USE StreamsAssumption
  <1>. USE DEF Places, Alone, Slotted, Timed, Exiting, Gone, TypeOK, Goto, Note,
               Fail, Back, provider, timers, Actors, Wake, UseJob,
               startSourceTimer
  <1>1. ASSUME NEW a \in Actors, activate(a)
        PROVE  Slotted'
    BY <1>1 DEF activate, TestEmpty, addAndEnqueueQuery, StartProbe, StartThread
  <1>2. ASSUME NEW a \in Actors, deactivate(a)
        PROVE  Slotted'
    BY <1>2 DEF deactivate, findAndDeleteQuery, StopProbe, StopThread, Join
  <1>3. ASSUME NEW a \in Actors, ReadCount(a) \/ WriteCount(a)
        PROVE  Slotted'
    BY <1>3 DEF ReadCount, WriteCount
  <1>4. ASSUME NEW a \in Actors, stopSourceTimer(a) \/ NoTimer(a)
        PROVE  Slotted'
    BY <1>4 DEF stopSourceTimer, NoTimer
  <1>5. ASSUME NEW q \in Queries, AddQuery(q) \/ DelQuery(q) \/ Continue(q)
        PROVE  Slotted'
    BY <1>5 DEF AddQuery, DelQuery, Continue
  <1>6. ASSUME NEW q \in Queries, Expire(q) \/ timerHandler(q)
        PROVE  Slotted'
    BY <1>6 DEF Expire, timerHandler, TryLock, Work
  <1>7. ASSUME HandlerEnter \/ HandlerWalk \/ HandlerEnd \/ displayEvtWork
        PROVE  Slotted'
    BY <1>7 DEF HandlerEnter, HandlerWalk, HandlerEnd, displayEvtWork, ThreadWakes, ThreadSends
  <1>8. ASSUME ExitBegin \/ freeNode \/ FreeNext \/ ExitEnd
        PROVE  Slotted'
    BY <1>8 DEF ExitBegin, freeNode, FreeNext, ExitEnd
  <1>9. CASE UNCHANGED vars
    BY <1>9 DEF vars
  <1>. QED BY <1>1, <1>2, <1>3, <1>4, <1>5, <1>6, <1>7, <1>8, <1>9 DEF Next, Actor

(* Timers of the kernel end only when their handlers are idle.             *)
LEMMA WaitedNext ==
  ASSUME TypeOK, Places, Waited, [Next]_vars
  PROVE  Waited'
  <1>. USE StreamsAssumption
  <1>. USE DEF Waited, Places, CanStop, Timed, Kernel, Exiting, Gone, TypeOK,
               Goto, Note, Fail, Back, provider, timers, Actors, Wake, UseJob,
               startSourceTimer
  <1>1. ASSUME NEW a \in Actors, activate(a)
        PROVE  Waited'
    BY <1>1 DEF activate, TestEmpty, addAndEnqueueQuery, StartProbe, StartThread
  <1>2. ASSUME NEW a \in Actors, deactivate(a)
        PROVE  Waited'
    BY <1>2 DEF deactivate, findAndDeleteQuery, StopProbe, StopThread, Join
  <1>3. ASSUME NEW a \in Actors, ReadCount(a) \/ WriteCount(a)
        PROVE  Waited'
    BY <1>3 DEF ReadCount, WriteCount
  <1>4. ASSUME NEW a \in Actors, stopSourceTimer(a) \/ NoTimer(a)
        PROVE  Waited'
    BY <1>4 DEF stopSourceTimer, NoTimer
  <1>5. ASSUME NEW q \in Queries, AddQuery(q) \/ DelQuery(q) \/ Continue(q)
        PROVE  Waited'
    BY <1>5 DEF AddQuery, DelQuery, Continue
  <1>6. ASSUME NEW q \in Queries, Expire(q) \/ timerHandler(q)
        PROVE  Waited'
    BY <1>6 DEF Expire, timerHandler, TryLock, Work
  <1>7. ASSUME HandlerEnter \/ HandlerWalk \/ HandlerEnd \/ displayEvtWork
        PROVE  Waited'
    BY <1>7 DEF HandlerEnter, HandlerWalk, HandlerEnd, displayEvtWork, ThreadWakes, ThreadSends
  <1>8. ASSUME ExitBegin \/ freeNode \/ FreeNext \/ ExitEnd
        PROVE  Waited'
    BY <1>8 DEF ExitBegin, freeNode, FreeNext, ExitEnd
  <1>9. CASE UNCHANGED vars
    BY <1>9 DEF vars
  <1>. QED BY <1>1, <1>2, <1>3, <1>4, <1>5, <1>6, <1>7, <1>8, <1>9 DEF Next, Actor

(* A query with a slot has its job, if one could be made.                  *)
LEMMA JobsNext ==
  ASSUME TypeOK, Places, Alone, Slotted, Jobs, [Next]_vars
  PROVE  Jobs'
  <1>. USE StreamsAssumption
  <1>. USE DEF Jobs, Places, Alone, Slotted, Timed, Kernel, Exiting, Gone,
               TypeOK, Goto, Note, Fail, Back, provider, timers, Actors, Wake,
               UseJob, startSourceTimer
  <1>1. ASSUME NEW a \in Actors, activate(a)
        PROVE  Jobs'
    BY <1>1 DEF activate, TestEmpty, addAndEnqueueQuery, StartProbe, StartThread
  <1>2. ASSUME NEW a \in Actors, deactivate(a)
        PROVE  Jobs'
    BY <1>2 DEF deactivate, findAndDeleteQuery, StopProbe, StopThread, Join
  <1>3. ASSUME NEW a \in Actors, ReadCount(a) \/ WriteCount(a)
        PROVE  Jobs'
    BY <1>3 DEF ReadCount, WriteCount
  <1>4. ASSUME NEW a \in Actors, stopSourceTimer(a) \/ NoTimer(a)
        PROVE  Jobs'
    BY <1>4 DEF stopSourceTimer, NoTimer
  <1>5. ASSUME NEW q \in Queries, AddQuery(q) \/ DelQuery(q) \/ Continue(q)
        PROVE  Jobs'
    BY <1>5 DEF AddQuery, DelQuery, Continue
  <1>6. ASSUME NEW q \in Queries, Expire(q) \/ timerHandler(q)
        PROVE  Jobs'
    BY <1>6 DEF Expire, timerHandler, TryLock, Work
  <1>7. ASSUME HandlerEnter \/ HandlerWalk \/ HandlerEnd \/ displayEvtWork
        PROVE  Jobs'
    BY <1>7 DEF HandlerEnter, HandlerWalk, HandlerEnd, displayEvtWork, ThreadWakes, ThreadSends
  <1>8. ASSUME ExitBegin \/ freeNode \/ FreeNext \/ ExitEnd
        PROVE  Jobs'
    BY <1>8 DEF ExitBegin, freeNode, FreeNext, ExitEnd
  <1>9. CASE UNCHANGED vars
    BY <1>9 DEF vars
  <1>. QED BY <1>1, <1>2, <1>3, <1>4, <1>5, <1>6, <1>7, <1>8, <1>9 DEF Next, Actor

(* The list follows the slots, the probe the list.                         *)
LEMMA ListedNext ==
  ASSUME TypeOK, Places, Alone, Slotted, Listed, [Next]_vars
  PROVE  Listed'
  <1>. USE StreamsAssumption
  <1>. USE DEF Listed, Calm, Adding, Removing, Someone, Places, Alone, Slotted,
               Timed, Kernel, Exiting, Gone, TypeOK, Goto, Note, Fail, Back,
               provider, timers, Actors, Wake, UseJob, startSourceTimer
  <1>1. ASSUME NEW a \in Actors, activate(a)
        PROVE  Listed'
    BY <1>1 DEF activate, TestEmpty, addAndEnqueueQuery, StartProbe, StartThread
  <1>2. ASSUME NEW a \in Actors, deactivate(a)
        PROVE  Listed'
    BY <1>2 DEF deactivate, findAndDeleteQuery, StopProbe, StopThread, Join
  <1>3. ASSUME NEW a \in Actors, ReadCount(a) \/ WriteCount(a)
        PROVE  Listed'
    BY <1>3 DEF ReadCount, WriteCount
  <1>4. ASSUME NEW a \in Actors, stopSourceTimer(a) \/ NoTimer(a)
        PROVE  Listed'
    BY <1>4 DEF stopSourceTimer, NoTimer
  <1>5. ASSUME NEW q \in Queries, AddQuery(q) \/ DelQuery(q) \/ Continue(q)
        PROVE  Listed'
    BY <1>5 DEF AddQuery, DelQuery, Continue
  <1>6. ASSUME NEW q \in Queries, Expire(q) \/ timerHandler(q)
        PROVE  Listed'
    BY <1>6 DEF Expire, timerHandler, TryLock, Work
  <1>7. ASSUME HandlerEnter \/ HandlerWalk \/ HandlerEnd \/ displayEvtWork
        PROVE  Listed'
    BY <1>7 DEF HandlerEnter, HandlerWalk, HandlerEnd, displayEvtWork, ThreadWakes, ThreadSends
  <1>8. ASSUME ExitBegin \/ freeNode \/ FreeNext \/ ExitEnd
        PROVE  Listed'
    BY <1>8 DEF ExitBegin, freeNode, FreeNext, ExitEnd
  <1>9. CASE UNCHANGED vars
    BY <1>9 DEF vars
  <1>. QED BY <1>1, <1>2, <1>3, <1>4, <1>5, <1>6, <1>7, <1>8, <1>9 DEF Next, Actor

(* A handler that runs is one of a probe or thread that somebody will join.*)
LEMMA HandledNext ==
  ASSUME TypeOK, Places, Alone, Slotted, Listed, Counting, Handled, [Next]_vars
  PROVE  Handled'
  <1>. USE StreamsAssumption
  <1>. USE DEF Handled, Calm, Someone, Joining, Places, Alone, Slotted, Timed,
               Kernel, Exiting, Gone, TypeOK, Goto, Note, Fail, Back, provider,
               timers, Actors, Wake, UseJob, startSourceTimer
  <1>1. ASSUME NEW a \in Actors, activate(a)
        PROVE  Handled'
    BY <1>1 DEF activate, TestEmpty, addAndEnqueueQuery, StartProbe, StartThread
  <1>2. ASSUME NEW a \in Actors, deactivate(a)
        PROVE  Handled'
    BY <1>2 DEF deactivate, findAndDeleteQuery, StopProbe, StopThread, Join
  <1>3. ASSUME NEW a \in Actors, ReadCount(a) \/ WriteCount(a)
        PROVE  Handled'
    BY <1>3 DEF ReadCount, WriteCount
  <1>4. ASSUME NEW a \in Actors, stopSourceTimer(a) \/ NoTimer(a)
        PROVE  Handled'
    BY <1>4 DEF stopSourceTimer, NoTimer
  <1>5. ASSUME NEW q \in Queries, AddQuery(q) \/ DelQuery(q) \/ Continue(q)
        PROVE  Handled'
    BY <1>5 DEF AddQuery, DelQuery, Continue
  <1>6. ASSUME NEW q \in Queries, Expire(q) \/ timerHandler(q)
        PROVE  Handled'
    BY <1>6 DEF Expire, timerHandler, TryLock, Work
  <1>7. ASSUME HandlerEnter \/ HandlerWalk \/ HandlerEnd \/ displayEvtWork
        PROVE  Handled'
    BY <1>7 DEF HandlerEnter, HandlerWalk, HandlerEnd, displayEvtWork, ThreadWakes, ThreadSends
  <1>8. ASSUME ExitBegin \/ freeNode \/ FreeNext \/ ExitEnd
        PROVE  Handled'
    BY <1>8 DEF ExitBegin, freeNode, FreeNext, ExitEnd
  <1>9. CASE UNCHANGED vars
    BY <1>9 DEF vars
  <1>. QED BY <1>1, <1>2, <1>3, <1>4, <1>5, <1>6, <1>7, <1>8, <1>9 DEF Next, Actor

(* All but WriteCount leave the counter and who is counted alone.          *)
LEMMA CountedNext ==
  ASSUME TypeOK, Places, Alone, Slotted, \A a \in Actors : ~WriteCount(a), [Next]_vars
  PROVE  kind = "thread" /\ Calm' => Counted' = Counted /\ count' = count
  <1>. USE StreamsAssumption
  <1>. USE DEF Calm, Adding, Removing, Counted, Places, Alone, Slotted, Timed,
               Kernel, Exiting, Gone, TypeOK, Goto, Note, Fail, Back, provider,
               timers, Actors, Wake, UseJob, startSourceTimer
  <1>1. ASSUME NEW a \in Actors, activate(a)
        PROVE  kind = "thread" /\ Calm' => Counted' = Counted /\ count' = count
    BY <1>1 DEF activate, TestEmpty, addAndEnqueueQuery, StartProbe, StartThread
  <1>2. ASSUME NEW a \in Actors, deactivate(a)
        PROVE  kind = "thread" /\ Calm' => Counted' = Counted /\ count' = count
    BY <1>2 DEF deactivate, findAndDeleteQuery, StopProbe, StopThread, Join
  <1>3. ASSUME NEW a \in Actors, ReadCount(a) \/ WriteCount(a)
        PROVE  kind = "thread" /\ Calm' => Counted' = Counted /\ count' = count
    BY <1>3 DEF ReadCount
  <1>4. ASSUME NEW a \in Actors, stopSourceTimer(a) \/ NoTimer(a)
        PROVE  kind = "thread" /\ Calm' => Counted' = Counted /\ count' = count
    BY <1>4 DEF stopSourceTimer, NoTimer
  <1>5. ASSUME NEW q \in Queries, AddQuery(q) \/ DelQuery(q) \/ Continue(q)
        PROVE  kind = "thread" /\ Calm' => Counted' = Counted /\ count' = count
    BY <1>5 DEF AddQuery, DelQuery, Continue
  <1>6. ASSUME NEW q \in Queries, Expire(q) \/ timerHandler(q)
        PROVE  kind = "thread" /\ Calm' => Counted' = Counted /\ count' = count
    BY <1>6 DEF Expire, timerHandler, TryLock, Work
  <1>7. ASSUME HandlerEnter \/ HandlerWalk \/ HandlerEnd \/ displayEvtWork
        PROVE  kind = "thread" /\ Calm' => Counted' = Counted /\ count' = count
    BY <1>7 DEF HandlerEnter, HandlerWalk, HandlerEnd, displayEvtWork, ThreadWakes, ThreadSends
  <1>8. ASSUME ExitBegin \/ freeNode \/ FreeNext \/ ExitEnd
        PROVE  kind = "thread" /\ Calm' => Counted' = Counted /\ count' = count
    BY <1>8 DEF ExitBegin, freeNode, FreeNext, ExitEnd
  <1>9. CASE UNCHANGED vars
    BY <1>9 DEF vars
  <1>. QED BY <1>1, <1>2, <1>3, <1>4, <1>5, <1>6, <1>7, <1>8, <1>9 DEF Next, Actor

(* Who counts puts its query into Counted or takes it out.                 *)
LEMMA WriteCounts ==
  ASSUME TypeOK, Places, Alone, Slotted, NEW a \in Actors, WriteCount(a),
         "window" \notin mishap
  PROVE  IF pc[a] = "add" THEN arg[a] \notin Counted /\ Counted' = Counted \cup {arg[a]}
                          ELSE arg[a] \in Counted /\ Counted' = Counted \ {arg[a]}
  <1>. USE StreamsAssumption DEF TypeOK, Places, Alone, Slotted, Adding,
          Removing, Counted, Actors, WriteCount, Goto, Note, Timed
  <1>1. CASE pc[a] = "add"
    OBVIOUS
  <1>2. CASE pc[a] = "subtract"
    OBVIOUS
  <1>. QED BY <1>1, <1>2

(* The kind of node is fixed, and mishaps are not forgotten.               *)
LEMMA FixedNext ==
  ASSUME TypeOK, [Next]_vars
  PROVE  kind' = kind /\ mishap \subseteq mishap'
  <1>. USE DEF TypeOK, Goto, Note, Fail, Back, provider, timers, Actors, Wake,
               UseJob, startSourceTimer
  <1>1. ASSUME NEW a \in Actors, activate(a)
        PROVE  kind' = kind /\ mishap \subseteq mishap'
    BY <1>1 DEF activate, TestEmpty, addAndEnqueueQuery, StartProbe, StartThread
  <1>2. ASSUME NEW a \in Actors, deactivate(a)
        PROVE  kind' = kind /\ mishap \subseteq mishap'
    BY <1>2 DEF deactivate, findAndDeleteQuery, StopProbe, StopThread, Join
  <1>3. ASSUME NEW a \in Actors, ReadCount(a) \/ WriteCount(a)
        PROVE  kind' = kind /\ mishap \subseteq mishap'
    BY <1>3 DEF ReadCount, WriteCount
  <1>4. ASSUME NEW a \in Actors, stopSourceTimer(a) \/ NoTimer(a)
        PROVE  kind' = kind /\ mishap \subseteq mishap'
    BY <1>4 DEF stopSourceTimer, NoTimer
  <1>5. ASSUME NEW q \in Queries, AddQuery(q) \/ DelQuery(q) \/ Continue(q)
        PROVE  kind' = kind /\ mishap \subseteq mishap'
    BY <1>5 DEF AddQuery, DelQuery, Continue
  <1>6. ASSUME NEW q \in Queries, Expire(q) \/ timerHandler(q)
        PROVE  kind' = kind /\ mishap \subseteq mishap'
    BY <1>6 DEF Expire, timerHandler, TryLock, Work
  <1>7. ASSUME HandlerEnter \/ HandlerWalk \/ HandlerEnd \/ displayEvtWork
        PROVE  kind' = kind /\ mishap \subseteq mishap'
    BY <1>7 DEF HandlerEnter, HandlerWalk, HandlerEnd, displayEvtWork, ThreadWakes, ThreadSends
  <1>8. ASSUME ExitBegin \/ freeNode \/ FreeNext \/ ExitEnd
        PROVE  kind' = kind /\ mishap \subseteq mishap'
    BY <1>8 DEF ExitBegin, freeNode, FreeNext, ExitEnd
  <1>9. CASE UNCHANGED vars
    BY <1>9 DEF vars
  <1>. QED BY <1>1, <1>2, <1>3, <1>4, <1>5, <1>6, <1>7, <1>8, <1>9 DEF Next, Actor

(* The counter counts.                                                     *)
LEMMA CountNext ==
  ASSUME TypeOK, Places, Alone, Slotted, Counting, [Next]_vars
  PROVE  kind = "thread" /\ Calm' => count' = Cardinality(Counted')
  <1>. SUFFICES ASSUME kind = "thread", Calm' PROVE count' = Cardinality(Counted')
    OBVIOUS
  <1>1. kind' = kind /\ mishap \subseteq mishap'
    BY FixedNext
  <1>2. count = Cardinality(Counted)
    BY <1>1 DEF Counting, Calm
  <1>3. IsFiniteSet(Counted) /\ Cardinality(Counted) \in Nat
    BY Sizes DEF TypeOK, Counted
  <1>4. ASSUME NEW a \in Actors, WriteCount(a)
        PROVE  count' = Cardinality(Counted')
    <2>1. seen[a] = count
      BY <1>4 DEF WriteCount, Note, Calm, TypeOK
    <2>2. "window" \notin mishap
      BY <1>1 DEF Calm
    <2>3. CASE pc[a] = "add"
      <3>1. arg[a] \notin Counted /\ Counted' = Counted \cup {arg[a]} /\ count' = count + 1
        BY <1>4, <2>1, <2>2, <2>3, WriteCounts DEF WriteCount
      <3>2. Cardinality(Counted') = Cardinality(Counted) + 1
        BY <1>3, <3>1, FS_AddElement
      <3>. QED BY <1>2, <3>1, <3>2
    <2>4. CASE pc[a] # "add"
      <3>1. arg[a] \in Counted /\ Counted' = Counted \ {arg[a]} /\ count' = count - 1
        BY <1>4, <2>1, <2>2, <2>4, WriteCounts DEF WriteCount
      <3>2. Cardinality(Counted') = Cardinality(Counted) - 1
        BY <1>3, <3>1, FS_RemoveElement
      <3>. QED BY <1>2, <3>1, <3>2
    <2>. QED BY <2>3, <2>4
  <1>5. CASE \A a \in Actors : ~WriteCount(a)
    <2>1. Counted' = Counted /\ count' = count
      BY <1>5, CountedNext
    <2>. QED BY <1>2, <2>1
  <1>. QED BY <1>4, <1>5

(* The thread was told to run, or will be, while the counter is not 0.     *)
LEMMA RunningNext ==
  ASSUME TypeOK, Places, Alone, Slotted, Running, [Next]_vars
  PROVE  Running'
  <1>. USE StreamsAssumption
  <1>. USE DEF Running, Calm, Someone, Joining, Timed, Kernel, Exiting, Gone,
               TypeOK, Goto, Note, Fail, Back, provider, timers, Actors, Wake,
               UseJob, startSourceTimer
  <1>1. ASSUME NEW a \in Actors, activate(a)
        PROVE  Running'
    BY <1>1 DEF activate, TestEmpty, addAndEnqueueQuery, StartProbe, StartThread
  <1>2. ASSUME NEW a \in Actors, deactivate(a)
        PROVE  Running'
    BY <1>2 DEF deactivate, findAndDeleteQuery, StopProbe, StopThread, Join
  <1>3. ASSUME NEW a \in Actors, ReadCount(a) \/ WriteCount(a)
        PROVE  Running'
    <2>1. CASE ReadCount(a)
      BY <2>1 DEF ReadCount
    <2>2. CASE WriteCount(a)
      BY <2>2, SMTT(30) DEF WriteCount
    <2>. QED BY <1>3, <2>1, <2>2
  <1>4. ASSUME NEW a \in Actors, stopSourceTimer(a) \/ NoTimer(a)
        PROVE  Running'
    BY <1>4 DEF stopSourceTimer, NoTimer
  <1>5. ASSUME NEW q \in Queries, AddQuery(q) \/ DelQuery(q) \/ Continue(q)
        PROVE  Running'
    BY <1>5 DEF AddQuery, DelQuery, Continue
  <1>6. ASSUME NEW q \in Queries, Expire(q) \/ timerHandler(q)
        PROVE  Running'
    BY <1>6 DEF Expire, timerHandler, TryLock, Work
  <1>7. ASSUME HandlerEnter \/ HandlerWalk \/ HandlerEnd \/ displayEvtWork
        PROVE  Running'
    BY <1>7 DEF HandlerEnter, HandlerWalk, HandlerEnd, displayEvtWork, ThreadWakes, ThreadSends
  <1>8. ASSUME ExitBegin \/ freeNode \/ FreeNext \/ ExitEnd
        PROVE  Running'
    BY <1>8 DEF ExitBegin, freeNode, FreeNext, ExitEnd
  <1>9. CASE UNCHANGED vars
    BY <1>9 DEF vars
  <1>. QED BY <1>1, <1>2, <1>3, <1>4, <1>5, <1>6, <1>7, <1>8, <1>9 DEF Next, Actor

(* What is used is there.  The code of the provider goes after its thread  *)
(* has ended: no query is left, so the counter is 0.                       *)
LEMMA StaleNext ==
  ASSUME TypeOK, Places, Alone, Slotted, Waited, Jobs, Listed, Handled,
         Counting, Running, NoStaleUse, [Next]_vars
  PROVE  NoStaleUse'
  <1>0. Calm /\ kind = "thread" => (count # 0 => slots # {})
    <2>. SUFFICES ASSUME Calm, kind = "thread", slots = {} PROVE count = 0
      OBVIOUS
    <2>1. Counted = {}
      BY DEF Counted
    <2>. QED BY <2>1, FS_EmptySet DEF Counting
  <1>. USE StreamsAssumption
  <1>. USE DEF NoStaleUse, Waited, Jobs, Listed, Handled, Calm, Adding,
               Removing, Someone, Freed, Places, Alone, Slotted, Timed, Kernel,
               Exiting, Gone, TypeOK, Goto, Note, Fail, Back, provider, timers,
               Actors, Wake, UseJob, startSourceTimer
  <1>1. ASSUME NEW a \in Actors, activate(a)
        PROVE  NoStaleUse'
    BY <1>1 DEF activate, TestEmpty, addAndEnqueueQuery, StartProbe, StartThread
  <1>2. ASSUME NEW a \in Actors, deactivate(a), fatal = {}
        PROVE  NoStaleUse'
    <2>1. CASE findAndDeleteQuery(a)
      BY <1>2, <2>1 DEF findAndDeleteQuery
    <2>2. CASE StopProbe(a)
      BY <1>2, <2>2 DEF StopProbe
    <2>3. CASE StopThread(a)
      BY <1>2, <2>3 DEF StopThread
    <2>4. CASE Join(a)
      BY <1>2, <2>4 DEF Join
    <2>. QED BY <1>2, <2>1, <2>2, <2>3, <2>4 DEF deactivate
  <1>3. ASSUME NEW a \in Actors, ReadCount(a) \/ WriteCount(a)
        PROVE  NoStaleUse'
    BY <1>3 DEF ReadCount, WriteCount
  <1>4. ASSUME NEW a \in Actors, stopSourceTimer(a) \/ NoTimer(a)
        PROVE  NoStaleUse'
    BY <1>4 DEF stopSourceTimer, NoTimer
  <1>5. ASSUME NEW q \in Queries, AddQuery(q) \/ DelQuery(q) \/ Continue(q)
        PROVE  NoStaleUse'
    BY <1>5 DEF AddQuery, DelQuery, Continue
  <1>6. ASSUME NEW q \in Queries, Expire(q) \/ timerHandler(q)
        PROVE  NoStaleUse'
    BY <1>6 DEF Expire, timerHandler, TryLock, Work
  <1>7. ASSUME HandlerEnter \/ HandlerWalk \/ HandlerEnd \/ displayEvtWork
        PROVE  NoStaleUse'
    BY <1>0, <1>7 DEF HandlerEnter, HandlerWalk, HandlerEnd, displayEvtWork,
       ThreadWakes, ThreadSends, Running
  <1>8. ASSUME ExitBegin \/ freeNode \/ FreeNext \/ ExitEnd
        PROVE  NoStaleUse'
    BY <1>8 DEF ExitBegin, freeNode, FreeNext, ExitEnd
  <1>9. CASE UNCHANGED vars
    BY <1>9 DEF vars
  <1>. QED BY <1>1, <1>2, <1>3, <1>4, <1>5, <1>6, <1>7, <1>8, <1>9 DEF Next, Actor

LEMMA InitInv == Init => IInv
  <1>. SUFFICES ASSUME Init PROVE IInv
    OBVIOUS
  <1>. USE StreamsAssumption DEF Init, Actors
  <1>1. TypeOK
    <2>1. (CHOOSE q \in Queries : TRUE) \in Queries
      OBVIOUS
    <2>2. arg \in [Actors -> Queries] /\ seen \in [Actors -> Int]
      BY <2>1
    <2>. QED BY <2>2 DEF TypeOK
  <1>2. Places /\ Alone /\ Slotted
    BY DEF Places, Alone, Slotted, Timed
  <1>3. Waited /\ Jobs /\ Listed /\ Handled /\ Running /\ NoStaleUse
    BY DEF Waited, Jobs, Listed, Removing, Handled, Running, NoStaleUse
  <1>4. Counted = {}
    BY DEF Counted
  <1>5. Counting
    BY <1>4, FS_EmptySet DEF Counting
  <1>. QED BY <1>1, <1>2, <1>3, <1>5 DEF IInv

LEMMA NextInv ==
  ASSUME IInv, [Next]_vars
  PROVE  IInv'
  <1>1. TypeOK' /\ Places' /\ Alone' /\ Slotted'
    BY TypeNext, PlacesNext, AloneNext, SlottedNext DEF IInv
  <1>2. Waited' /\ Jobs' /\ Listed' /\ Handled' /\ Running' /\ NoStaleUse'
    BY WaitedNext, JobsNext, ListedNext, HandledNext, RunningNext, StaleNext DEF IInv
  <1>3. Counting'
    BY CountNext, FixedNext DEF IInv, Counting
  <1>. QED BY <1>1, <1>2, <1>3 DEF IInv

-------------------------------------------------------------------------------
(* The node, its provider and the actors stay as the invariant says, for   *)
(* any finite number of queries.                                           *)
THEOREM InductiveInvariant == Spec => []IInv
  BY InitInv, NextInv, PTL DEF Spec

(* The variables of a stream stay in their types.                          *)
THEOREM TypeCorrect == Spec => []TypeOK
  <1>1. IInv => TypeOK
    BY DEF IInv
  <1>. QED BY <1>1, InductiveInvariant, PTL

(* hrtimer_cancel, unregister_kprobe and pthread_join keep what a handler  *)
(* uses, for any finite number of queries; what is used after it is gone   *)
(* is used by a timer of userspace or after a chance that was taken.       *)
THEOREM UseSafe == Spec => []NoStaleUse
  <1>1. IInv => NoStaleUse
    BY DEF IInv
  <1>. QED BY <1>1, InductiveInvariant, PTL

(* Between calls the probe, the thread and the timers are those of the     *)
(* queries in the slots.                                                   *)
THEOREM StreamSafe == Spec => []StreamFollowsQueries
  <1>1. IInv => StreamFollowsQueries
    <2>. SUFFICES ASSUME IInv, Quiet, mishap = {}
                  PROVE  CASE kind = "probe" -> list = slots /\ source = (slots # {})
                           [] kind = "thread" -> count = Cardinality(slots) /\ source = (slots # {})
                                                 /\ (handler # "idle") = (slots # {})
                           [] OTHER -> job = slots
      BY DEF StreamFollowsQueries
    <2>1. CASE kind = "probe"
      <3>1. list = slots
        BY <2>1 DEF IInv, Listed, Calm, Adding, Removing, Quiet
      <3>2. source = (list # {})
        BY <2>1 DEF IInv, TypeOK, Listed, Calm, Someone, Quiet
      <3>. QED BY <2>1, <3>1, <3>2
    <2>2. CASE kind = "thread"
      <3>1. Counted = slots
        BY DEF IInv, TypeOK, Counted, Adding, Removing, Quiet
      <3>2. count = Cardinality(slots) /\ (count = 0 <=> slots = {})
        BY <2>2, <3>1, Sizes, FS_EmptySet DEF IInv, TypeOK, Counting, Calm
      <3>3. source = (count # 0)
        BY <2>2 DEF IInv, TypeOK, Running, Calm, Someone, Quiet
      <3>4. (handler # "idle") = source
        BY <2>2 DEF IInv, TypeOK, Running, Handled, Calm, Someone, Quiet, Timed
      <3>. QED BY <2>2, <3>2, <3>3, <3>4
    <2>3. CASE kind \in {"hrtimer", "timer"}
      BY <2>3 DEF IInv, Jobs, Timed
    <2>4. kind \in {"probe", "thread", "hrtimer", "timer"}
      BY StreamsAssumption DEF IInv, TypeOK
    <2>. QED BY <2>1, <2>2, <2>3, <2>4
  <1>. QED BY <1>1, InductiveInvariant, PTL
===============================================================================
