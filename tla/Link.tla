--------------------------------- MODULE Link ---------------------------------
(***************************************************************************)
(* The two layers and what they tell each other: providers and queries are *)
(* registered at both sides, each side sends what it registers to the      *)
(* other through its ring (sendDatamodel, sendAddQuery, sendDelQuery), and *)
(* commThreadWork of both layers handles what comes.  The daemon comes up, *)
(* asks for a snapshot of the datamodel, exits, is killed and comes again. *)
(*                                                                         *)
(* A provider's tree is a unit here (Datamodel has the nodes), a ring is a *)
(* bounded FIFO (RingBuffer), and what a query does at its node is left    *)
(* out (Registration).  slcLock is held across steps only by a thread that *)
(* busy-waits for room in the ring; every other section under it is a step.*)
(* In userspace, where the lock for writing is shared, sections of two     *)
(* writers can overlap: the model ends where they do (Overlap).            *)
(***************************************************************************)
EXTENDS Naturals, FiniteSets, Sequences

CONSTANTS
  Kernel, User,  \* the layers
  Threads,       \* that call the functions of lib/api.c
  LayerOf,       \* Threads -> layers
  Providers, Queries,
  OwnerOf,       \* the thread that registers a provider or a query
  NodeOf,        \* Queries -> Providers: where the stream begins
  Slots,         \* MAX_QUERIES_PER_DM
  Capacity,      \* messages that fit into a ring
  Permanent,     \* bound of the model: providers that are never unregistered
  MaxRestarts,   \* bound of the model on how often the daemon comes again
  Continued,     \* bound of the model: queries whose results one layer sends the other
  MayLackAfter,  \* bound of the model: the mishaps after which memory runs out
  StaysAfter,    \* bound of the model: the mishaps after which the daemon stays
  Nothing

Layers == {Kernel, User}
Items == Providers \cup Queries

ASSUME LinkAssumption ==
  /\ Kernel # User /\ Permanent \subseteq Providers /\ Providers \cap Queries = {} /\ Nothing \notin Items
  /\ LayerOf \in [Threads -> Layers] /\ OwnerOf \in [Items -> Threads]
  /\ NodeOf \in [Queries -> Providers]
  /\ Slots \in Nat \ {0} /\ Capacity \in Nat \ {0} /\ MaxRestarts \in Nat

VARIABLES
  dm,           \* per layer: providers whose tree is in SLC_DATA_MODEL
  slots,        \* per layer: queries in the slots of the nodes
  ring,         \* per layer: its txBuffer
  op, arg,      \* per thread: where it is in which call, for which item
  fresh,        \* items not registered so far.  Bound of the model: once each
  registered,   \* items whose registration was reported to be successful
  transferred,  \* queries with the flag TRANSFERED
  daemon,       \* how far main of the daemon is
  restarts,
  fatal,        \* <<layer, what>>: a NULL dereference, a broken lock, a race
  mishap        \* history: what happened that the code has no answer to

sides == <<dm, slots>>
calls == <<op, arg, fresh, registered, transferred>>
daemonVars == <<daemon, restarts>>
vars == <<sides, ring, calls, daemonVars, fatal, mishap>>

Peer(l) == IF l = Kernel THEN User ELSE Kernel
Home(x) == LayerOf[OwnerOf[x]]
At(p) == {q \in Queries : NodeOf[q] = p}
Msg(type, what) == [type |-> type, what |-> what]

(* What a message makes of a layer that handles it.                        *)
Adds(m, x) ==
  \/ m.type \in {"DM_ADD", "QUERY_ADD"} /\ m.what = x
  \/ m.type = "DM_SNAPSHOT" /\ x \in m.what
Removes(m, x) == m.type \in {"DM_DEL", "QUERY_DEL"} /\ m.what = x

Init ==
  /\ dm = [l \in Layers |-> {}] /\ slots = [l \in Layers |-> {}]
  /\ ring = [l \in Layers |-> <<>>]
  /\ op = [t \in Threads |-> "idle"] /\ arg = [t \in Threads |-> Nothing]
  /\ fresh = Items /\ registered = {} /\ transferred = {}
  /\ daemon = "down" /\ restarts = 0
  /\ fatal = {} /\ mishap = {}

-----------------------------------------------------------------------------
(* In the kernel ENDPOINT_CONNECTED looks at the mapping of the shared     *)
(* memory; in userspace it is 1.                                           *)
EndpointConnected(l) == l = Kernel => daemon # "down"

Write(l, m) == ring' = [ring EXCEPT ![l] = Append(@, m)]

(* Threads that busy-wait with slcLock held for writing.  In the kernel    *)
(* they exclude everybody; in userspace, where the macros are crossed,     *)
(* they share it with each other and exclude who wants it for reading.     *)
Holding(l) == {t \in Threads : LayerOf[t] = l /\ op[t] \in {"sendAddQuery", "sendDelQuery"}}
CanWrite(l) == l = Kernel => Holding(l) = {}
CanRead(l) == Holding(l) = {}

Alive(l) == l = User => daemon = "up"
Goto(t, where, x) == op' = [op EXCEPT ![t] = where] /\ arg' = [arg EXCEPT ![t] = x]
Sound == mishap \subseteq {"unsent"}
Note(what, happened) == mishap' = IF happened THEN mishap \cup {what} ELSE mishap
Fail(l, what) == fatal' = fatal \cup {<<l, what>>}

(* Removing a provider's tree frees the nodes and their slots.             *)
Without(l, p) ==
  /\ dm' = [dm EXCEPT ![l] = @ \ {p}]
  /\ slots' = [slots EXCEPT ![l] = @ \ At(p)]

(* Somebody counts on a query of p: it is registered, on its way or about  *)
(* to be.                                                                  *)
InUse(p) ==
  \E q \in At(p) : \/ q \in registered \/ \E l \in Layers : q \in slots[l]
                   \/ \E t \in Threads : arg[t] = q
                   \/ \E l \in Layers : \E i \in DOMAIN ring[l] :
                        ring[l][i].type # "DM_SNAPSHOT" /\ ring[l][i].what = q

(* The other layer has been told of p, if it is of this one.               *)
Told(l, p) == Home(p) # l \/ p \in dm[Peer(l)] \/ \E i \in DOMAIN ring[l] : Adds(ring[l][i], p)

-----------------------------------------------------------------------------
(* Variants of definitions below, each with a plausible bug.  Nothing uses *)
(* them; they show which bug breaks which property (PROJECT.json).         *)

RoomToTheBrim(l) == Len(ring[l]) <= Capacity

ShouldTransferIfRemote(l, q) == Home(q) = l /\ Home(NodeOf[q]) # l

CheckNothing(t, q, where) ==
  /\ op[t] = "idle" /\ Goto(t, where, q)
  /\ UNCHANGED <<sides, ring, fresh, registered, transferred, daemonVars, fatal, mishap>>

ContinueWithoutReadEnd(l, m) ==
  /\ m.type = "QUERY_CONTINUE" /\ CanRead(l)
  /\ m.what \in slots[l] /\ ring' = [ring EXCEPT ![Peer(l)] = Tail(@)]
  /\ UNCHANGED <<sides, calls, daemonVars, fatal, mishap>>

-----------------------------------------------------------------------------
(* isFull, negated.                                                        *)
Room(l) == Len(ring[l]) < Capacity

-----------------------------------------------------------------------------
(* registerProvider and unregisterProvider.  The message is sent without   *)
(* slcLock.                                                                *)

registerProvider(t, p) ==
  /\ op[t] = "idle" /\ p \in fresh /\ Sound /\ CanWrite(LayerOf[t])
  /\ fresh' = fresh \ {p}
  /\ IF p \in dm[LayerOf[t]]                                 \* the dry run fails
     THEN UNCHANGED <<dm, registered, op, arg>>
     ELSE /\ dm' = [dm EXCEPT ![LayerOf[t]] = @ \cup {p}]
          /\ registered' = registered \cup {p}
          /\ Goto(t, "sendDMAdd", p)
  /\ UNCHANGED <<slots, ring, transferred, daemonVars, fatal, mishap>>

unregisterProvider(t, p) ==
  /\ op[t] = "idle" /\ p \in registered \ Permanent /\ CanWrite(LayerOf[t])
  /\ registered' = registered \ {p}
  /\ Without(LayerOf[t], p)
  /\ Goto(t, "sendDMDel", p)
  /\ Note("unregistered", InUse(p))
  /\ UNCHANGED <<ring, fresh, transferred, daemonVars, fatal>>

(* sendDatamodel, called until it does not return -EBUSY.                  *)
SendDM(t) ==
  LET l == LayerOf[t]
      type == IF op[t] = "sendDMAdd" THEN "DM_ADD" ELSE "DM_DEL"
  IN /\ op[t] \in {"sendDMAdd", "sendDMDel"}
     /\ \/ EndpointConnected(l) /\ Room(l) /\ Write(l, Msg(type, arg[t]))
        \/ ~EndpointConnected(l) /\ UNCHANGED ring
     /\ Goto(t, "idle", Nothing)
     /\ UNCHANGED <<sides, fresh, registered, transferred, daemonVars, fatal, mishap>>

-----------------------------------------------------------------------------
(* registerQuery and unregisterQuery.  checkQueries looks for the node     *)
(* before slcLock is taken; addQueries and delQueries look for it again,   *)
(* and do not expect that it is not there.                                 *)

Check(t, q, where) ==
  /\ op[t] = "idle" /\ NodeOf[q] \in dm[LayerOf[t]]
  /\ Goto(t, where, q)
  /\ Note("unregistered", NodeOf[q] \notin dm[Home(NodeOf[q])])
  /\ UNCHANGED <<sides, ring, fresh, registered, transferred, daemonVars, fatal>>

CheckAdd(t, q) == q \in fresh /\ Sound /\ Check(t, q, "checkedAdd")
CheckDel(t, q) == q \in registered /\ Check(t, q, "checkedDel")

NoNode(t) ==
  /\ op[t] \in {"checkedAdd", "checkedDel"} /\ CanWrite(LayerOf[t])
  /\ NodeOf[arg[t]] \notin dm[LayerOf[t]]
  /\ Fail(LayerOf[t], "NULL")
  /\ UNCHANGED <<sides, ring, calls, daemonVars, mishap>>

Full(l, q) == Cardinality(slots[l] \cap At(NodeOf[q])) >= Slots

(* A query of this layer goes to the other one, wherever its stream begins.*)
ShouldTransfer(l, q) == Home(q) = l

addQueries(t) ==
  LET l == LayerOf[t]
      q == arg[t]
  IN /\ op[t] = "checkedAdd" /\ CanWrite(l) /\ NodeOf[q] \in dm[l]
     /\ fresh' = fresh \ {q}
     /\ IF Full(l, q) THEN UNCHANGED <<slots, registered>> /\ Goto(t, "idle", Nothing)
        ELSE /\ slots' = [slots EXCEPT ![l] = @ \cup {q}]
             /\ registered' = registered \cup {q}
             /\ IF ShouldTransfer(l, q) /\ EndpointConnected(l)
                THEN Goto(t, "sendAddQuery", q) ELSE Goto(t, "idle", Nothing)
     /\ Note("unsent", ~Full(l, q) /\ ~EndpointConnected(l))
     /\ UNCHANGED <<dm, ring, transferred, daemonVars, fatal>>

delQueries(t) ==
  LET l == LayerOf[t]
      q == arg[t]
  IN /\ op[t] = "checkedDel" /\ CanWrite(l) /\ NodeOf[q] \in dm[l]
     /\ slots' = [slots EXCEPT ![l] = @ \ {q}]
     /\ registered' = registered \ {q}
     /\ IF q \in transferred /\ EndpointConnected(l)
        THEN Goto(t, "sendDelQuery", q) ELSE Goto(t, "idle", Nothing)
     /\ UNCHANGED <<dm, ring, fresh, transferred, daemonVars, fatal, mishap>>

(* The loop around ringBufferWrite.  It does not look again whether there  *)
(* is anybody who reads.                                                   *)
SendQuery(t) ==
  LET l == LayerOf[t]
      q == arg[t]
      adds == op[t] = "sendAddQuery"
  IN /\ op[t] \in {"sendAddQuery", "sendDelQuery"} /\ Room(l)
     /\ Write(l, Msg(IF adds THEN "QUERY_ADD" ELSE "QUERY_DEL", q))
     /\ transferred' = IF adds THEN transferred \cup {q} ELSE transferred
     /\ Note("early", adds /\ ~Told(l, NodeOf[q]))
     /\ Goto(t, "idle", Nothing)
     /\ UNCHANGED <<sides, fresh, registered, daemonVars, fatal>>

LacksMemory == mishap \subseteq MayLackAfter /\ Note("memory", TRUE)

(* A call for which memory runs out.  Where mergeDataModel or deleteSubtree*)
(* stop, the node that queries look for is there or not (Datamodel has what*)
(* else is left), and the call fails; sendDatamodel is not tried again;    *)
(* sendAddQuery and sendDelQuery return as if there were nothing to send;  *)
(* getDescription, which copies the name, finds nothing.  Bound of the     *)
(* model: who could not unregister a provider does not try it again.       *)
CallLacksMemory(t) ==
  LET l == LayerOf[t]
      q == arg[t]
      checked == op[t] \in {"checkedAdd", "checkedDel"} /\ CanWrite(l)
  IN /\ LacksMemory
     /\ UNCHANGED <<ring, transferred, daemonVars>>
     /\ \/ \E p \in Providers :                                   \* registerProvider
             /\ OwnerOf[p] = t /\ op[t] = "idle" /\ p \in fresh \ dm[l] /\ Sound /\ CanWrite(l)
             /\ fresh' = fresh \ {p}
             /\ dm' \in {dm, [dm EXCEPT ![l] = @ \cup {p}]}
             /\ UNCHANGED <<slots, op, arg, registered, fatal>>
        \/ \E p \in Providers :                                   \* unregisterProvider
             /\ OwnerOf[p] = t /\ op[t] = "idle" /\ p \in registered \ Permanent /\ CanWrite(l)
             /\ registered' = registered \ {p}
             /\ Without(l, p) \/ UNCHANGED sides
             /\ UNCHANGED <<op, arg, fresh, fatal>>
        \/ /\ op[t] \in {"sendDMAdd", "sendDMDel"} /\ EndpointConnected(l)
           /\ Goto(t, "idle", Nothing)
           /\ UNCHANGED <<sides, fresh, registered, fatal>>
        \/ /\ checked /\ Fail(l, "NULL")
           /\ UNCHANGED <<sides, op, arg, fresh, registered>>
        \/ /\ checked /\ op[t] = "checkedAdd" /\ NodeOf[q] \in dm[l] /\ ~Full(l, q)
           /\ ShouldTransfer(l, q) /\ EndpointConnected(l)
           /\ fresh' = fresh \ {q} /\ registered' = registered \cup {q}
           /\ slots' = [slots EXCEPT ![l] = @ \cup {q}]
           /\ Goto(t, "idle", Nothing)
           /\ UNCHANGED <<dm, fatal>>
        \/ /\ checked /\ op[t] = "checkedDel" /\ NodeOf[q] \in dm[l]
           /\ q \in transferred /\ EndpointConnected(l)
           /\ registered' = registered \ {q}
           /\ slots' = [slots EXCEPT ![l] = @ \ {q}]
           /\ Goto(t, "idle", Nothing)
           /\ UNCHANGED <<dm, fresh, fatal>>

(* The executor, with slcLock for reading, sends an intermediate result.   *)
(* Without room it is dropped.  Bound of the model: one such message in a  *)
(* ring.                                                                   *)
sendQueryContinue(l, q) ==
  /\ Alive(l) /\ Sound
  /\ q \in Continued \cap slots[l] /\ CanRead(l) /\ EndpointConnected(l) /\ Room(l)
  /\ \A i \in DOMAIN ring[l] : ring[l][i].type # "QUERY_CONTINUE"
  /\ Write(l, Msg("QUERY_CONTINUE", q))
  /\ UNCHANGED <<sides, calls, daemonVars, fatal, mishap>>

-----------------------------------------------------------------------------
(* commThreadWork: the message m from the other layer, up to ReadEnd.      *)

ReadEnd(l) == ring' = [ring EXCEPT ![Peer(l)] = Tail(@)]

ReceiveAdd(l, m) ==
  /\ m.type = "DM_ADD" /\ CanWrite(l)
  /\ dm' = [dm EXCEPT ![l] = @ \cup {m.what}]       \* no change if it is there
  /\ ReadEnd(l)
  /\ UNCHANGED <<slots, calls, daemonVars, fatal, mishap>>

ReceiveDel(l, m) ==
  /\ m.type = "DM_DEL" /\ CanWrite(l)
  /\ Without(l, m.what)
  /\ ReadEnd(l)
  /\ UNCHANGED <<calls, daemonVars, fatal, mishap>>

ReceiveQueryAdd(l, m) ==
  LET q == m.what
  IN /\ m.type = "QUERY_ADD" /\ CanWrite(l)
     /\ ReadEnd(l)
     /\ IF NodeOf[q] \notin dm[l] THEN Fail(l, "NULL") /\ UNCHANGED <<slots, mishap>>
        ELSE /\ slots' = IF Full(l, q) THEN slots ELSE [slots EXCEPT ![l] = @ \cup {q}]
             /\ Note("refused", Full(l, q))
             /\ UNCHANGED fatal
     /\ UNCHANGED <<dm, calls, daemonVars>>

(* If resolveQuery does not find it, the kernel unlocks the lock it has    *)
(* for writing as if it had it for reading.                                *)
ReceiveQueryDel(l, m) ==
  /\ m.type = "QUERY_DEL" /\ CanWrite(l)
  /\ ReadEnd(l)
  /\ slots' = [slots EXCEPT ![l] = @ \ {m.what}]
  /\ IF l = Kernel /\ m.what \notin slots[l] THEN Fail(l, "lock") ELSE UNCHANGED fatal
  /\ UNCHANGED <<dm, calls, daemonVars, mishap>>

(* The tuples go to the executor, if the query is there.                   *)
ReceiveContinue(l, m) ==
  /\ m.type = "QUERY_CONTINUE" /\ CanRead(l)
  /\ ReadEnd(l)
  /\ UNCHANGED <<sides, calls, daemonVars, fatal, mishap>>

(* The kernel answers a request with all it has, the trees of the other    *)
(* layer included.                                                         *)
ReceiveRequest(m) ==
  /\ m.type = "DM_SNAPSHOT" /\ CanWrite(Kernel)
  /\ \/ /\ EndpointConnected(Kernel) /\ Room(Kernel)
        /\ ring' = [ring EXCEPT ![Kernel] = Append(@, Msg("DM_SNAPSHOT", dm[Kernel])),
                                ![User] = Tail(@)]
     \/ ~EndpointConnected(Kernel) /\ ReadEnd(Kernel)
  /\ UNCHANGED <<sides, calls, daemonVars, fatal, mishap>>

(* The daemon merges the answer as a whole.  If one of the trees is there  *)
(* the merge stops, somewhere.                                             *)
ReceiveSnapshot(m) ==
  LET stops == m.what \cap dm[User] # {}
  IN /\ m.type = "DM_SNAPSHOT" /\ CanWrite(User)
     /\ \E merged \in SUBSET m.what :
          /\ ~stops => merged = m.what
          /\ dm' = [dm EXCEPT ![User] = @ \cup merged]
          /\ Note("partial", ~(m.what \subseteq dm'[User]))
     /\ ReadEnd(User)
     /\ UNCHANGED <<slots, calls, daemonVars, fatal>>

ReceiveEmpty(l, m) ==
  /\ m.type = "EMPTY" /\ ReadEnd(l)
  /\ UNCHANGED <<sides, calls, daemonVars, fatal, mishap>>

(* A handler for which memory runs out: mergeDataModel or deleteSubtree    *)
(* stop, the kernel does not answer, a query is not copied and so not      *)
(* added, or getDescription does not find the node that is there.          *)
ReceiveLacksMemory(l, m) ==
  /\ LacksMemory /\ ReadEnd(l)
  /\ UNCHANGED <<calls, daemonVars>>
  /\ \/ /\ m.type = "DM_ADD" /\ CanWrite(l)
        /\ dm' \in {dm, [dm EXCEPT ![l] = @ \cup {m.what}]}
        /\ UNCHANGED <<slots, fatal>>
     \/ /\ m.type = "DM_SNAPSHOT" /\ CanWrite(l)
        /\ \E merged \in SUBSET m.what : dm' = [dm EXCEPT ![l] = @ \cup merged]
        /\ UNCHANGED <<slots, fatal>>
     \/ /\ m.type = "DM_DEL" /\ CanWrite(l)
        /\ Without(l, m.what) \/ UNCHANGED sides
        /\ UNCHANGED fatal
     \/ m.type = "QUERY_ADD" /\ UNCHANGED <<sides, fatal>>
     \/ m.type \in {"QUERY_ADD", "QUERY_DEL"} /\ CanWrite(l) /\ Fail(l, "NULL") /\ UNCHANGED sides
     \/ /\ m.type = "QUERY_DEL" /\ CanWrite(l)
        /\ IF l = Kernel THEN Fail(l, "lock") ELSE UNCHANGED fatal
        /\ UNCHANGED sides

(* The daemon starts its communication thread before initSLC has made the  *)
(* datamodel and initialised slcLock, and stops it after destroySLC has    *)
(* freed the datamodel.                                                    *)
Untimely(m) ==
  /\ m.type # "EMPTY" /\ daemon \in {"mapped", "requested", "destroyed"}
  /\ Fail(User, "NULL") /\ Note("untimely", TRUE)
  /\ UNCHANGED <<sides, ring, calls, daemonVars>>

Handle(l, m) ==
  \/ /\ Alive(l)
     /\ \/ ReceiveAdd(l, m) \/ ReceiveDel(l, m)
        \/ ReceiveQueryAdd(l, m) \/ ReceiveQueryDel(l, m) \/ ReceiveContinue(l, m)
        \/ l = Kernel /\ ReceiveRequest(m)
        \/ l = User /\ ReceiveSnapshot(m)
  \/ (l = Kernel \/ daemon \in {"mapped", "requested", "up", "destroyed"}) /\ ReceiveEmpty(l, m)
  \/ l = User /\ Untimely(m)

commThreadWork(l) ==
  /\ ring[Peer(l)] # <<>>
  /\ \/ Handle(l, Head(ring[Peer(l)]))
     \/ Alive(l) /\ ReceiveLacksMemory(l, Head(ring[Peer(l)]))

-----------------------------------------------------------------------------
(* The daemon.                                                             *)

InitLayer ==
  /\ daemon = "down"
  /\ daemon' = "mapped"
  /\ UNCHANGED <<sides, ring, calls, restarts, fatal, mishap>>

RequestSnapshot ==
  /\ daemon = "mapped" /\ Room(User)
  /\ Write(User, Msg("DM_SNAPSHOT", {}))
  /\ daemon' = "requested"
  /\ UNCHANGED <<sides, calls, restarts, fatal, mishap>>

InitSLC ==
  /\ daemon = "requested"
  /\ daemon' = "up"
  /\ UNCHANGED <<sides, ring, calls, restarts, fatal, mishap>>

(* What the kernel holds of the daemon that went, or the other way round,  *)
(* nobody takes back.                                                      *)
Leftover ==
  \/ \E x \in Items : Home(x) = User /\ (x \in registered \/ x \in dm[Kernel] \cup slots[Kernel])
  \/ transferred \cap registered # {} \/ ring[User] # <<>>
  \/ \E i \in DOMAIN ring[Kernel] : ring[Kernel][i].type # "EMPTY"
  \/ \E t \in Threads : op[t] # "idle"

(* main takes the datamodel away, with all that is registered, and then    *)
(* stops the communication thread, which reads what is left.  It calls     *)
(* ReadEnd once more when the ring is empty: read is now one after write,  *)
(* which looks like a ring that is full, of empty messages.                *)
Idle(l) == \A t \in Threads : LayerOf[t] = l => op[t] = "idle"
MayEnd == restarts < MaxRestarts /\ mishap \cap StaysAfter = {}
Gone == {x \in Items : Home(x) = User}

DestroySLC ==
  /\ daemon = "up" /\ Idle(User) /\ MayEnd
  /\ daemon' = "destroyed"
  /\ dm' = [dm EXCEPT ![User] = {}] /\ slots' = [slots EXCEPT ![User] = {}]
  /\ registered' = registered \ Gone
  /\ Note("restart", Leftover)
  /\ UNCHANGED <<ring, op, arg, fresh, transferred, restarts, fatal>>

ExitLayer ==
  /\ daemon = "destroyed"
  /\ ring' = [ring EXCEPT ![Kernel] = [i \in 1 .. Capacity |-> Msg("EMPTY", Nothing)]]
  /\ daemon' = "flushed"
  /\ UNCHANGED <<sides, calls, restarts, fatal, mishap>>

(* The end of the process, after exitLayer or because it is killed; the    *)
(* semaphore it then leaves has to be removed before it can come again.    *)
(* Bound of the model: not before it has registered something.             *)
Unmap ==
  LET mine == {t \in Threads : LayerOf[t] = User}
  IN /\ daemon \in {"up", "destroyed", "flushed"} /\ MayEnd
     /\ ~(Gone \subseteq fresh)
     /\ daemon' = "down" /\ restarts' = restarts + 1
     /\ dm' = [dm EXCEPT ![User] = {}] /\ slots' = [slots EXCEPT ![User] = {}]
     /\ op' = [t \in Threads |-> IF t \in mine THEN "idle" ELSE op[t]]
     /\ arg' = [t \in Threads |-> IF t \in mine THEN Nothing ELSE arg[t]]
     /\ fresh' = fresh \cup Gone /\ registered' = registered \ Gone
     /\ transferred' = transferred \ Gone
     /\ Note("restart", Leftover)
     /\ UNCHANGED <<ring, fatal>>

-----------------------------------------------------------------------------
(* In userspace ACQUIRE_WRITE_LOCK is a lock for reading: writers of the   *)
(* datamodel and of the slots do not exclude each other.  What comes of two*)
(* that are inside at once is left open.                                   *)
ToWrite(t) ==
  /\ LayerOf[t] = User
  /\ \/ op[t] \in {"checkedAdd", "checkedDel"}
     \/ /\ op[t] = "idle"
        /\ \E p \in Providers :
             OwnerOf[p] = t /\ p \in (IF Sound THEN fresh ELSE {}) \cup (registered \ Permanent)

Overlap ==
  /\ daemon = "up" /\ Fail(User, "race")
  /\ \E t \in Threads :
       /\ ToWrite(t)
       /\ \/ \E other \in Threads \ {t} : ToWrite(other)
          \/ /\ ring[Kernel] # <<>>
             /\ Head(ring[Kernel]).type \in {"DM_ADD", "DM_DEL", "DM_SNAPSHOT", "QUERY_ADD", "QUERY_DEL"}
  /\ UNCHANGED <<sides, ring, calls, daemonVars, mishap>>

Call(t) ==
  \/ \E p \in Providers : OwnerOf[p] = t /\ (registerProvider(t, p) \/ unregisterProvider(t, p))
  \/ \E q \in Queries : OwnerOf[q] = t /\ (CheckAdd(t, q) \/ CheckDel(t, q))

GoOn(t) == NoNode(t) \/ addQueries(t) \/ delQueries(t) \/ SendDM(t) \/ SendQuery(t)

(* Bounds of the model: nothing happens after something fatal, and nothing *)
(* new is registered after a mishap (Sound).                               *)
Next ==
  /\ fatal = {}
  /\ \/ \E t \in Threads : Alive(LayerOf[t]) /\ (Call(t) \/ GoOn(t) \/ CallLacksMemory(t))
     \/ \E l \in Layers : commThreadWork(l) \/ \E q \in Queries : sendQueryContinue(l, q)
     \/ InitLayer \/ RequestSnapshot \/ InitSLC \/ DestroySLC \/ ExitLayer \/ Unmap \/ Overlap

(* The communication threads poll, and who busy-waits tries again.         *)
Spec ==
  /\ Init /\ [][Next]_vars
  /\ \A l \in Layers : WF_vars(fatal = {} /\ commThreadWork(l))
  /\ \A t \in Threads : WF_vars(fatal = {} /\ Alive(LayerOf[t]) /\ GoOn(t))

-----------------------------------------------------------------------------
Message ==
  [type : {"DM_ADD", "DM_DEL"}, what : Providers]
    \cup [type : {"QUERY_ADD", "QUERY_DEL", "QUERY_CONTINUE"}, what : Queries]
    \cup [type : {"EMPTY"}, what : {Nothing}] \cup [type : {"DM_SNAPSHOT"}, what : SUBSET Providers]

TypeOK ==
  /\ dm \in [Layers -> SUBSET Providers] /\ slots \in [Layers -> SUBSET Queries]
  /\ ring \in [Layers -> Seq(Message)] /\ \A l \in Layers : Len(ring[l]) <= Capacity
  /\ op \in [Threads -> {"idle", "sendDMAdd", "sendDMDel", "checkedAdd", "checkedDel",
                         "sendAddQuery", "sendDelQuery"}]
  /\ arg \in [Threads -> Items \cup {Nothing}]
  /\ fresh \subseteq Items /\ registered \subseteq Items /\ transferred \subseteq Queries
  /\ daemon \in {"down", "mapped", "requested", "up", "destroyed", "flushed"}
  /\ restarts \in 0 .. MaxRestarts
  /\ fatal \subseteq Layers \X {"NULL", "lock", "race"}
  /\ mishap \subseteq {"unregistered", "early", "refused", "partial", "memory", "untimely", "restart",
                      "unsent"}

(* What the messages s[1] to s[n] make of a layer that has the items known.*)
Delivers(known, s, n, x) ==
  \/ x \in known /\ \A i \in 1 .. n : ~Removes(s[i], x)
  \/ \E i \in 1 .. n : Adds(s[i], x) /\ \A j \in i + 1 .. n : ~Removes(s[j], x)

(* Whether the layer that x does not belong to will have it when the       *)
(* messages that are on their way, or in the hands of a thread that waits  *)
(* for room, are delivered.                                                *)
Has(l) == dm[l] \cup slots[l]
About(x) == IF arg[OwnerOf[x]] = x THEN op[OwnerOf[x]] ELSE "idle"
WillHave(x) ==
  LET l == Home(x)
  IN \/ About(x) \in {"sendDMAdd", "sendAddQuery"}
     \/ /\ About(x) \notin {"sendDMDel", "sendDelQuery"}
        /\ Delivers(Has(Peer(l)), ring[l], Len(ring[l]), x)

(* The promise of the link, "the system relies on the fact that the other  *)
(* layer gets informed about changes" (sendAddQuery): what the messages on *)
(* their way make of the other layer is what is registered here, once the  *)
(* daemon has its snapshot, as long as no two writers of userspace are     *)
(* inside at once.  Seven things spoil it, each noted in mishap; an eighth *)
(* is that queries of the kernel from before the daemon came are not sent. *)
Synchronised ==
  /\ daemon = "up" /\ \A l \in Layers : \A i \in DOMAIN ring[l] : ring[l][i].type # "EMPTY"
  /\ \A i \in DOMAIN ring[User] : ring[User][i].type # "DM_SNAPSHOT"       \* the request

LayersAgree ==
  Synchronised /\ Sound /\ fatal = {} =>
    \A x \in Items : (x \in Queries => mishap = {}) => (WillHave(x) <=> x \in Has(Home(x)))

(* A NULL dereference needs a provider that went while queries counted on  *)
(* it, a query that overtook the news of its provider, a snapshot merged in*)
(* part, memory that ran out, or a daemon that starts, stops or has started*)
(* anew.  The kernel's lock breaks only if a query it is told to forget was*)
(* refused, or went with its node, or belongs to an earlier daemon, or if  *)
(* memory ran out.                                                         *)
FatalHasCause ==
  \A l \in Layers :
    /\ <<l, "NULL">> \in fatal => mishap \cap {"unregistered", "early", "untimely", "partial", "memory", "restart"} # {}
    /\ <<l, "lock">> \in fatal => mishap \cap {"refused", "unregistered", "memory", "restart"} # {}

(* Who busy-waits with slcLock held gets through, unless there is no daemon*)
(* any more or everything has come to a stop: both rings are full, in      *)
(* userspace a thread that waits keeps the communication thread from a     *)
(* QUERY_CONTINUE, and the one of the kernel is kept from its message by a *)
(* thread that waits, or waits itself for room for the snapshot.           *)
Jam ==
  /\ \A l \in Layers : ~Room(l)
  /\ Holding(User) # {} /\ Head(ring[Kernel]).type = "QUERY_CONTINUE"
  /\ Holding(Kernel) # {} \/ Head(ring[User]).type = "DM_SNAPSHOT"

BusyWaitEnds ==
  \A t \in {OwnerOf[q] : q \in Queries} :
    t \in Holding(LayerOf[t]) ~> (t \notin Holding(LayerOf[t]) \/ Jam \/ fatal # {} \/ daemon # "up")
===============================================================================
