---------------------------- MODULE Registration -----------------------------
(***************************************************************************)
(* Registering and unregistering queries at one node of the datamodel that *)
(* belongs to this layer (registerQuery and unregisterQuery in lib/api.c,  *)
(* addQueries and delQueries in lib/query.c), while the node delivers      *)
(* tuples: providers call eventOccured* and objectChanged*, source timers  *)
(* and status threads fire, and the executor runs the queued jobs.         *)
(*                                                                         *)
(* The layer is the kernel.  A section under the write lock of slcLock is  *)
(* one step, because nobody looks at the node inside it.  The section for  *)
(* an event or object is in two halves around the call of activate or      *)
(* deactivate, for which the code gives the lock up.  What the other layer *)
(* is told of all this is left out.                                        *)
(***************************************************************************)
EXTENDS Integers, Sequences, JobList

CONSTANTS
  Queries, NoQuery,
  Slots,        \* MAX_QUERIES_PER_DM
  NodeTypes,    \* which types of node to consider: EVENT, OBJECT, SOURCE
  Events,       \* changes a provider reports: OBJECT_CREATE, OBJECT_DELETE
  OBJECT_STATUS,
  Wishes,       \* possible values of objectEvents
  Handlers,     \* probes of the provider of the node
  MaxJobs,      \* bound of the model on queriesToExecList
  MaxDrift      \* bound of the model on how far numQueries gets below 0

ASSUME RegistrationAssumption ==
  /\ NoQuery \notin Queries
  /\ Slots \in Nat \ {0}
  /\ NodeTypes \subseteq {"EVENT", "OBJECT", "SOURCE"}
  /\ OBJECT_STATUS \notin Events
  /\ Wishes \subseteq [Queries -> SUBSET (Events \cup {OBJECT_STATUS})]

VARIABLES
  dataModelType,     \* of the node, never changed
  objectEvents,      \* per query: the changes it wants, perhaps the status;
                     \* never changed
  queries,           \* the slots of the node
  numQueries,
  phase, idx,        \* per query: how far its (un)registration is, its slot
  armed,             \* queries on the provider's list, or with a timer
  todo,              \* per handler: queries it still has a tuple for
  status,            \* queries with a running status thread
  list, cur          \* queriesToExecList, and the query being executed

fixed == <<dataModelType, objectEvents>>
node == <<queries, numQueries>>
vars == <<fixed, queries, numQueries, phase, idx, armed, todo, status, list, cur>>
queue == <<list, cur>>

IsSource == dataModelType = "SOURCE"
StatusQuery(q) == dataModelType = "OBJECT" /\ OBJECT_STATUS \in objectEvents[q]
Matches(q, e) == dataModelType = "OBJECT" => e \in objectEvents[q]
Job(q, tuple) == [query |-> q, tuple |-> tuple]

Init ==
  /\ dataModelType \in NodeTypes /\ objectEvents \in Wishes
  /\ queries = [i \in 1 .. Slots |-> NoQuery]
  /\ numQueries = 0
  /\ phase = [q \in Queries |-> "unregistered"]
  /\ idx = [q \in Queries |-> 1]
  /\ armed = {} /\ status = {}
  /\ todo = [h \in Handlers |-> {}]
  /\ list = <<>> /\ cur = NoQuery

-----------------------------------------------------------------------------
(* The locks.  slcLock is held for reading by the executor while it runs a *)
(* job; a handler holds the lock of the provider's list and not slcLock.   *)

CanWrite == cur = NoQuery
ListLockFree == \A h \in Handlers : todo[h] = {}

-----------------------------------------------------------------------------
(* Variants of definitions below, each with a plausible bug.  Nothing uses *)
(* them; they show which bug breaks which property (PROJECT.json).         *)

AllSlots == 1 .. Slots

AddEndIfFirst(q) ==
  /\ phase[q] = "activated" /\ CanWrite
  /\ numQueries' = IF numQueries = 0 THEN 1 ELSE numQueries
  /\ phase' = [phase EXCEPT ![q] = "registered"]
  /\ UNCHANGED <<fixed, queries, idx, armed, todo, status, queue>>

RemoveKeepsSlot(q) ==
  /\ list' = Without(list, [query : {q}, tuple : BOOLEAN])
  /\ phase' = [phase EXCEPT ![q] = "unregistered"]
  /\ UNCHANGED <<fixed, queries, idx, todo, status, cur>>

DeactivateUnlocked(q) ==
  /\ phase[q] = "deactivate"
  /\ armed' = armed \ {q}
  /\ phase' = [phase EXCEPT ![q] = "deactivated"]
  /\ UNCHANGED <<fixed, node, idx, todo, status, queue>>

-----------------------------------------------------------------------------
(* addQueries, for one query.  When no slot is free it returns             *)
(* -EMAXQUERIES and nothing has changed: a stuttering step.  Bounds of the *)
(* model: a query is not added again while its status thread runs, nor     *)
(* when numQueries has drifted further below 0 than MaxDrift.              *)

FreeSlot ==
  {i \in 1 .. Slots : queries[i] = NoQuery /\ \A j \in 1 .. i - 1 : queries[j] # NoQuery}

Add(q, next) ==
  /\ phase[q] = "unregistered" /\ CanWrite
  /\ q \notin status /\ numQueries >= -MaxDrift
  /\ \E i \in FreeSlot :
       idx' = [idx EXCEPT ![q] = i] /\ queries' = [queries EXCEPT ![i] = q]
  /\ phase' = [phase EXCEPT ![q] = next]
  /\ UNCHANGED <<fixed, todo, queue>>

AddSource(q) ==
  /\ IsSource /\ Add(q, "registered")
  /\ numQueries' = numQueries + 1
  /\ armed' = armed \cup {q}
  /\ UNCHANGED status

(* startObjStatusThread.  It gives slcLock up too, but what others see of  *)
(* the node then is what they see afterwards.  If it fails to start the    *)
(* thread, the query is registered all the same.                           *)
AddStatus(q) ==
  /\ StatusQuery(q) /\ Add(q, "registered")
  /\ status' \in {status, status \cup {q}}
  /\ UNCHANGED <<numQueries, armed>>

AddBegin(q) ==
  /\ ~IsSource /\ ~StatusQuery(q) /\ Add(q, "activate")
  /\ UNCHANGED <<numQueries, armed, status>>

(* The activate function of the provider puts the query on its list.       *)
Activate(q) ==
  /\ phase[q] = "activate" /\ ListLockFree
  /\ armed' = armed \cup {q}
  /\ phase' = [phase EXCEPT ![q] = "activated"]
  /\ UNCHANGED <<fixed, node, idx, todo, status, queue>>

AddEnd(q) ==
  /\ phase[q] = "activated" /\ CanWrite
  /\ numQueries' = numQueries + 1
  /\ phase' = [phase EXCEPT ![q] = "registered"]
  /\ UNCHANGED <<fixed, queries, idx, armed, todo, status, queue>>

-----------------------------------------------------------------------------
(* delQueries, for one registered query.  Its owner frees it afterwards,   *)
(* so "unregistered" also means that the memory may be reused.             *)

Purged(q) == Without(list, [query : {q}, tuple : BOOLEAN])

Remove(q) ==
  /\ list' = Purged(queries[idx[q]])
  /\ queries' = [queries EXCEPT ![idx[q]] = NoQuery]
  /\ phase' = [phase EXCEPT ![q] = "unregistered"]
  /\ UNCHANGED <<fixed, idx, todo, status, cur>>

(* stopSourceTimer waits for the handler of the timer.                     *)
DelSource(q) ==
  /\ IsSource /\ phase[q] = "registered" /\ CanWrite
  /\ armed' = armed \ {q}
  /\ numQueries' = numQueries - 1
  /\ Remove(q)

DelBegin(q) ==
  /\ ~IsSource /\ phase[q] = "registered" /\ CanWrite
  /\ numQueries' = numQueries - 1
  /\ phase' = [phase EXCEPT ![q] = "deactivate"]
  /\ UNCHANGED <<fixed, queries, idx, armed, todo, status, queue>>

Deactivate(q) ==
  /\ phase[q] = "deactivate" /\ ListLockFree
  /\ armed' = armed \ {q}
  /\ phase' = [phase EXCEPT ![q] = "deactivated"]
  /\ UNCHANGED <<fixed, node, idx, todo, status, queue>>

DelEnd(q) ==
  /\ phase[q] = "deactivated" /\ CanWrite
  /\ Remove(q)
  /\ UNCHANGED <<numQueries, armed>>

-----------------------------------------------------------------------------
(* Delivery: every tuple becomes a job.                                    *)

Deliver(jobs) ==
  /\ Len(list) + Len(jobs) <= MaxJobs
  /\ list' = list \o jobs
  /\ UNCHANGED <<fixed, node, phase, idx, armed, cur>>

(* eventOccuredBroadcast and objectChangedBroadcast, called with slcLock   *)
(* held for reading, so never inside a write section.  Each query gets the *)
(* copy made for it before its predecessor was served; numQueries limits   *)
(* the number of copies, and beyond it the tuple of a job is NULL.         *)
Matching(e) == Without(queries, {NoQuery} \cup {q \in Queries : ~Matches(q, e)})

Copies == numQueries - 1

Broadcast(e) ==
  /\ ~IsSource
  /\ LET to == Matching(e)
     IN /\ to # <<>>
        /\ Deliver([k \in 1 .. Len(to) |-> Job(to[k], k = 1 \/ k - 1 <= Copies)])
  /\ UNCHANGED <<todo, status>>

(* The handler of a probe goes through the list of the provider and calls  *)
(* eventOccuredUnicast or objectChangedUnicast for each query.  In the     *)
(* kernel it holds the lock of the list and not slcLock.                   *)
HandlerBegin(h, e) ==
  /\ ~IsSource /\ ListLockFree
  /\ todo' = [todo EXCEPT ![h] = {q \in armed : Matches(q, e)}]
  /\ UNCHANGED <<fixed, node, phase, idx, armed, status, queue>>

HandlerEnqueue(h, q) ==
  /\ q \in todo[h]
  /\ Deliver(<<Job(q, TRUE)>>)
  /\ todo' = [todo EXCEPT ![h] = @ \ {q}]
  /\ UNCHANGED status

(* hrtimerHandler.  If it cannot take slcLock at once it does nothing.     *)
Timer(q) ==
  /\ IsSource /\ q \in armed
  /\ Deliver(<<Job(q, TRUE)>>)
  /\ UNCHANGED <<todo, status>>

(* generateObjectStatus takes no lock at all.                              *)
StatusTuple(q) ==
  /\ q \in status
  /\ Deliver(<<Job(q, TRUE)>>)
  /\ UNCHANGED <<todo, status>>

StatusEnd(q) ==
  /\ q \in status
  /\ status' = status \ {q}
  /\ UNCHANGED <<fixed, node, phase, idx, armed, todo, queue>>

-----------------------------------------------------------------------------
(* The executor: KernelQueue and UserQueue say more about its queue.       *)

Dequeue ==
  /\ list # <<>> /\ cur = NoQuery
  /\ cur' = Head(list).query
  /\ list' = Tail(list)
  /\ UNCHANGED <<fixed, node, phase, idx, armed, todo, status>>

Executed ==
  /\ cur # NoQuery
  /\ cur' = NoQuery
  /\ UNCHANGED <<fixed, node, phase, idx, armed, todo, status, list>>

-----------------------------------------------------------------------------
Register(q) == AddSource(q) \/ AddStatus(q) \/ AddBegin(q) \/ Activate(q) \/ AddEnd(q)
Unregister(q) == DelSource(q) \/ DelBegin(q) \/ Deactivate(q) \/ DelEnd(q)

Next ==
  \/ \E q \in Queries : Register(q) \/ Unregister(q) \/ Timer(q) \/ StatusTuple(q) \/ StatusEnd(q)
  \/ \E e \in Events : Broadcast(e) \/ \E h \in Handlers : HandlerBegin(h, e)
  \/ \E h \in Handlers, q \in Queries : HandlerEnqueue(h, q)
  \/ Dequeue \/ Executed

Spec == Init /\ [][Next]_vars

-----------------------------------------------------------------------------
Windows == {"activate", "activated", "deactivate", "deactivated"}

TypeOK ==
  /\ dataModelType \in NodeTypes /\ objectEvents \in Wishes
  /\ queries \in [1 .. Slots -> Queries \cup {NoQuery}]
  /\ numQueries \in Int
  /\ phase \in [Queries -> {"unregistered", "registered"} \cup Windows]
  /\ idx \in [Queries -> 1 .. Slots]
  /\ armed \subseteq Queries /\ status \subseteq Queries
  /\ todo \in [Handlers -> SUBSET Queries]
  /\ list \in Seq([query : Queries, tuple : BOOLEAN])
  /\ cur \in Queries \cup {NoQuery}

(* delQueries trusts query->idx: the slot it clears is the query's own,    *)
(* also when others register and unregister in the windows without lock.   *)
OwnSlot ==
  \A q \in Queries : phase[q] # "unregistered" => queries[idx[q]] = q

(* And no slot points to a query that has been unregistered and freed.     *)
NoStaleSlot ==
  \A i \in 1 .. Slots : queries[i] # NoQuery => phase[queries[i]] # "unregistered"

(* When unregisterQuery returns the owner frees the query.  No job, no     *)
(* handler and not the executor refers to it then, although the handlers   *)
(* of the kernel do not hold slcLock.  Status queries are exempt: their    *)
(* thread is not stopped by anything.                                      *)
NoJobOfFreedQuery ==
  \A q \in Queries : phase[q] = "unregistered" /\ ~StatusQuery(q) =>
    /\ cur # q
    /\ \A k \in DOMAIN list : list[k].query # q
    /\ \A h \in Handlers : q \notin todo[h]

(* Outside the windows of addQueries and delQueries a broadcast gives      *)
(* every query that wants it a tuple, whatever was registered before.      *)
(* Status queries make numQueries drift, so nodes without them are meant.  *)
Settled == \A q \in Queries : phase[q] \notin Windows /\ ~StatusQuery(q)
SettledBroadcastHasTuples ==
  [][Settled => \A k \in Len(list) + 1 .. Len(list') : list'[k].tuple]_list

(* The comment in addQueries and delQueries (query.c:1353): "it is safe to *)
(* release the lock, because there are no onging modifications".  It would *)
(* follow that a broadcast then is as good as any other.                   *)
EveryJobHasTuple == \A k \in DOMAIN list : list[k].tuple
===============================================================================
