----------------------------- MODULE RingBuffer ------------------------------
(***************************************************************************)
(* One direction of the shared-memory link (lib/communication.c): the      *)
(* threads of one layer call ringBufferWrite on its txBuffer, and the      *)
(* communication thread of the other layer calls ringBufferReadBegin and   *)
(* ringBufferReadEnd.  Nothing locks the reader out: reader and writer     *)
(* meet only in the fields of the ring, so each access to a shared field   *)
(* that the other side can observe is a step of its own, in program order. *)
(*                                                                         *)
(* The payload of a message is a block of the sender's txMemory.  The      *)
(* receiver never frees it: it marks the slot MSG_EMPTY, and a later       *)
(* ringBufferWrite sweeps the unused slots and frees what they point to.   *)
(***************************************************************************)
EXTENDS Naturals, FiniteSets, Sequences

CONSTANTS
  Writers,        \* threads of the sending layer
  Size,           \* ringBuffer->size, RING_BUFFER_SIZE
  FREE_THRESHOLD, \* writes between two sweeps
  Addrs, NULL,    \* blocks of txMemory, and no block
  PayloadTypes,   \* message types that carry a block
  BareTypes,      \* message types sent with addr = NULL (MSG_DM_SNAPSHOT)
  MSG_EMPTY,
  ExclusiveLock   \* does ACQUIRE_WRITE_LOCK(ringBufferLock) exclude other
                  \* writers?  TRUE in the kernel (write_lock_irqsave), FALSE
                  \* in userspace (the macro is pthread_rwlock_rdlock)

Types == PayloadTypes \cup BareTypes

ASSUME RingAssumption ==
  /\ Size \in Nat /\ Size >= 2
  /\ FREE_THRESHOLD \in 0..2
  /\ NULL \notin Addrs
  /\ MSG_EMPTY \notin Types
  /\ ExclusiveLock \in BOOLEAN

VARIABLES
  read, write,    \* the two indices of the ring
  elements,       \* the slots
  writeOps,       \* writes since the last sweep (static of the layer)
  holders,        \* writers inside ringBufferLock
  allocated,      \* blocks handed out by slcmalloc and not yet slcfreed
  wpc, msg,       \* per writer: where it is, the message it wants to send
  sweep,          \* per writer: the loop index i of the sweep
  rpc             \* where the reader is

vars == <<read, write, elements, writeOps, holders, allocated, wpc, msg, sweep, rpc>>
ringVars == <<read, write, elements>>

Index == 0 .. Size - 1
Slot == [type : Types \cup {MSG_EMPTY}, addr : Addrs \cup {NULL}]
EmptySlot == [type |-> MSG_EMPTY, addr |-> NULL]
Message == [type : PayloadTypes, addr : Addrs] \cup [type : BareTypes, addr : {NULL}]

Succ(i) == IF i + 1 = Size THEN 0 ELSE i + 1
isEmpty == read = write
isFull == (write + 1) % Size = read

Init ==
  /\ read = 0 /\ write = 0 /\ writeOps = 0
  /\ elements = [i \in Index |-> EmptySlot]
  /\ holders = {} /\ allocated = {}
  /\ wpc = [w \in Writers |-> "idle"]
  /\ msg = [w \in Writers |-> EmptySlot]
  /\ sweep = [w \in Writers |-> 0]
  /\ rpc = "poll"

-----------------------------------------------------------------------------
(* Variants of definitions below, each with a plausible bug.  Nothing uses *)
(* them; they show which bug breaks which property (PROJECT.json).         *)

AlwaysAvailable == TRUE

SweepDueLate == writeOps > FREE_THRESHOLD

SweepFromRead(w) ==
  /\ wpc[w] = "ready" /\ holders = {} /\ ~isFull /\ writeOps >= FREE_THRESHOLD
  /\ holders' = holders \cup {w}
  /\ writeOps' = 0
  /\ sweep' = [sweep EXCEPT ![w] = read]
  /\ wpc' = [wpc EXCEPT ![w] = "sweepTest"]
  /\ UNCHANGED <<ringVars, allocated, msg, rpc>>

SweepTestStays(w) ==
  /\ wpc[w] = "sweepTest"
  /\ elements[sweep[w]].type = MSG_EMPTY /\ elements[sweep[w]].addr # NULL
  /\ wpc' = [wpc EXCEPT ![w] = "sweepFree"]
  /\ UNCHANGED <<ringVars, writeOps, holders, allocated, msg, sweep, rpc>>

SweepFreeWithoutClear(w) ==
  /\ wpc[w] = "sweepFree"
  /\ allocated' = allocated \ {elements[sweep[w]].addr}
  /\ wpc' = [wpc EXCEPT ![w] = "sweepNext"]
  /\ UNCHANGED <<ringVars, writeOps, holders, msg, sweep, rpc>>

StoreTypeOnly(w) ==
  /\ wpc[w] = "storeType"
  /\ elements' = [elements EXCEPT ![write].type = msg[w].type]
  /\ wpc' = [wpc EXCEPT ![w] = "publish"]
  /\ UNCHANGED <<read, write, writeOps, holders, allocated, msg, sweep, rpc>>

-----------------------------------------------------------------------------
(* The writers.  A caller builds a message in a fresh block and then calls *)
(* ringBufferWrite.  When the ring is full the call returns -1 and the     *)
(* caller either calls again (a stuttering step: nothing changed) or gives *)
(* the message up and frees the block, as sendQueryContinue does.          *)

Prepare(w, m) ==
  /\ wpc[w] = "idle"
  /\ m.addr \notin allocated
  /\ allocated' = allocated \cup ({m.addr} \ {NULL})
  /\ msg' = [msg EXCEPT ![w] = m]
  /\ wpc' = [wpc EXCEPT ![w] = "ready"]
  /\ UNCHANGED <<ringVars, writeOps, holders, sweep, rpc>>

LockAvailable == ExclusiveLock => holders = {}

Drop(w) ==
  /\ wpc[w] = "ready" /\ LockAvailable /\ isFull
  /\ allocated' = allocated \ {msg[w].addr}
  /\ msg' = [msg EXCEPT ![w] = EmptySlot]
  /\ wpc' = [wpc EXCEPT ![w] = "idle"]
  /\ UNCHANGED <<ringVars, writeOps, holders, sweep, rpc>>

SweepDue == writeOps >= FREE_THRESHOLD

BeginSweep(w) ==
  /\ wpc[w] = "ready" /\ LockAvailable /\ ~isFull /\ SweepDue
  /\ holders' = holders \cup {w}
  /\ writeOps' = 0
  /\ sweep' = [sweep EXCEPT ![w] = write]
  /\ wpc' = [wpc EXCEPT ![w] = "sweepTest"]
  /\ UNCHANGED <<ringVars, allocated, msg, rpc>>

BeginStore(w) ==
  /\ wpc[w] = "ready" /\ LockAvailable /\ ~isFull /\ ~SweepDue
  /\ holders' = holders \cup {w}
  /\ wpc' = [wpc EXCEPT ![w] = "storeType"]
  /\ UNCHANGED <<ringVars, writeOps, allocated, msg, sweep, rpc>>

SweepTest(w) ==
  /\ wpc[w] = "sweepTest"
  /\ LET slot == elements[sweep[w]]
         stale == slot.type = MSG_EMPTY /\ slot.addr # NULL
     IN wpc' = [wpc EXCEPT ![w] = IF stale THEN "sweepFree" ELSE "sweepNext"]
  /\ UNCHANGED <<ringVars, writeOps, holders, allocated, msg, sweep, rpc>>

SweepFree(w) ==
  /\ wpc[w] = "sweepFree"
  /\ allocated' = allocated \ {elements[sweep[w]].addr}
  /\ wpc' = [wpc EXCEPT ![w] = "sweepClear"]
  /\ UNCHANGED <<ringVars, writeOps, holders, msg, sweep, rpc>>

SweepClear(w) ==
  /\ wpc[w] = "sweepClear"
  /\ elements' = [elements EXCEPT ![sweep[w]].addr = NULL]
  /\ wpc' = [wpc EXCEPT ![w] = "sweepNext"]
  /\ UNCHANGED <<read, write, writeOps, holders, allocated, msg, sweep, rpc>>

SweepNext(w) ==
  /\ wpc[w] = "sweepNext"
  /\ sweep' = [sweep EXCEPT ![w] = Succ(@)]
  /\ wpc' = [wpc EXCEPT ![w] = IF sweep'[w] = read THEN "storeType" ELSE "sweepTest"]
  /\ UNCHANGED <<ringVars, writeOps, holders, allocated, msg, rpc>>

StoreType(w) ==
  /\ wpc[w] = "storeType"
  /\ elements' = [elements EXCEPT ![write].type = msg[w].type]
  /\ wpc' = [wpc EXCEPT ![w] = "storeAddr"]
  /\ UNCHANGED <<read, write, writeOps, holders, allocated, msg, sweep, rpc>>

StoreAddr(w) ==
  /\ wpc[w] = "storeAddr"
  /\ elements' = [elements EXCEPT ![write].addr = msg[w].addr]
  /\ wpc' = [wpc EXCEPT ![w] = "publish"]
  /\ UNCHANGED <<read, write, writeOps, holders, allocated, msg, sweep, rpc>>

Publish(w) ==
  /\ wpc[w] = "publish"
  /\ writeOps' = writeOps + 1
  /\ write' = Succ(write)
  /\ holders' = holders \ {w}
  /\ msg' = [msg EXCEPT ![w] = EmptySlot]
  /\ wpc' = [wpc EXCEPT ![w] = "idle"]
  /\ UNCHANGED <<read, elements, allocated, sweep, rpc>>

-----------------------------------------------------------------------------
(* The reader: the loop of commThreadWork in the other layer.              *)

ringBufferReadBegin ==
  /\ rpc = "poll" /\ ~isEmpty
  /\ rpc' = "handling"
  /\ UNCHANGED <<ringVars, writeOps, holders, allocated, wpc, msg, sweep>>

(* ringBufferReadEnd writes the type of the slot and then the index.       *)
ReadEndType ==
  /\ rpc = "handling"
  /\ elements' = [elements EXCEPT ![read].type = MSG_EMPTY]
  /\ rpc' = "emptied"
  /\ UNCHANGED <<read, write, writeOps, holders, allocated, wpc, msg, sweep>>

ReadEndIndex ==
  /\ rpc = "emptied"
  /\ read' = Succ(read)
  /\ rpc' = "poll"
  /\ UNCHANGED <<write, elements, writeOps, holders, allocated, wpc, msg, sweep>>

-----------------------------------------------------------------------------
Enter(w) == Drop(w) \/ BeginSweep(w) \/ BeginStore(w)

Inside(w) ==
  \/ SweepTest(w) \/ SweepFree(w) \/ SweepClear(w) \/ SweepNext(w)
  \/ StoreType(w) \/ StoreAddr(w) \/ Publish(w)

Reader == ringBufferReadBegin \/ ReadEndType \/ ReadEndIndex

Next ==
  \/ \E w \in Writers : (\E m \in Message : Prepare(w, m)) \/ Enter(w) \/ Inside(w)
  \/ Reader

(* A writer that holds the lock runs on, and the communication thread of   *)
(* the other layer polls for ever.  Nothing obliges a layer to send.       *)
Fairness == WF_vars(Reader) /\ \A w \in Writers : WF_vars(Inside(w))

Spec == Init /\ [][Next]_vars /\ Fairness

-----------------------------------------------------------------------------
(* Positions on the ring.                                                  *)

(* Steps from i to j in the direction of the indices.                      *)
Dist(i, j) == IF i <= j THEN j - i ELSE j + Size - i

(* The slot holds a published message that ReadEnd has not released.       *)
InUse(i) == Dist(read, i) < Dist(read, write)

InStore == {"storeType", "storeAddr", "publish"}
InSweep == {"sweepTest", "sweepFree", "sweepClear", "sweepNext"}

TypeOK ==
  /\ read \in Index /\ write \in Index
  /\ elements \in [Index -> Slot]
  /\ writeOps \in Nat
  /\ holders \subseteq Writers
  /\ allocated \subseteq Addrs
  /\ wpc \in [Writers -> {"idle", "ready"} \cup InStore \cup InSweep]
  /\ msg \in [Writers -> Message \cup {EmptySlot}]
  /\ sweep \in [Writers -> Index]
  /\ rpc \in {"poll", "handling", "emptied"}

(* The comment at communication.c:40: ringBufferLock protects the ring     *)
(* against concurrent writes, so two writers never store at the same time. *)
NoConcurrentStores ==
  \A v, w \in Writers : wpc[v] \in InStore /\ wpc[w] \in InStore => v = w

(* The sweep only meets slots that the reader has released: the code calls *)
(* a slot that is "not marked as empty" an error (communication.c:168).    *)
(* The sweep runs up to an index the reader keeps moving.                  *)
SweepSeesEmptySlots ==
  \A w \in Writers : wpc[w] \in InSweep => elements[sweep[w]].type = MSG_EMPTY

(* The block of a message that is published, or being handled by the other *)
(* layer, stays allocated until ReadEnd, and no other slot and no message  *)
(* under construction points to it: the payload cannot be freed or reused  *)
(* under the reader.                                                       *)
PayloadStaysLive ==
  \A i \in Index :
    InUse(i) /\ elements[i].addr # NULL =>
      /\ elements[i].addr \in allocated
      /\ \A j \in Index \ {i} : elements[j].addr # elements[i].addr
      /\ \A w \in Writers : msg[w].addr # elements[i].addr

(* Every allocated block can still be reached, from a slot the sweep will  *)
(* visit or from a message in a writer's hands: overwriting a slot never   *)
(* loses the block of an old message.  It rests on FREE_THRESHOLD <= 2.    *)
NoBlockLost ==
  \A a \in allocated :
    (\E i \in Index : elements[i].addr = a) \/ (\E w \in Writers : msg[w].addr = a)

(* The sweep ends, although its exit test compares i for equality with an  *)
(* index that the reader advances meanwhile.                               *)
SweepTerminates ==
  \A w \in Writers : (wpc[w] \in InSweep) ~> (wpc[w] = "storeType")

-----------------------------------------------------------------------------
(* The messages between the indices, without the one ReadEnd has emptied.  *)
First == IF rpc = "emptied" THEN Succ(read) ELSE read
Contents == [k \in 1 .. Dist(First, write) |-> elements[(First + k - 1) % Size]]

Link == INSTANCE Channel WITH
  Senders <- Writers, Messages <- Message, NoMessage <- EmptySlot,
  Capacity <- Size - 1, outbox <- msg, queue <- Contents,
  handled <- IF rpc = "handling" THEN elements[read] ELSE EmptySlot

(* The ring implements the FIFO link: messages arrive complete, once, in   *)
(* the order of publication, unchanged while they are handled, and an      *)
(* accepted message is eventually handled.                                 *)
LinkSpec == Link!Spec

(* Its safety part, without "eventually".                                  *)
LinkSafety == Link!Safety

-----------------------------------------------------------------------------
(* Why the safety properties hold when one writer at a time is inside the  *)
(* lock: the parts of the inductive invariant.                             *)

Busy(w) == wpc[w] \in InStore \cup InSweep

OneHolder ==
  /\ \A w \in Writers : w \in holders <=> Busy(w)
  /\ \A v, w \in holders : v = w

(* A writer inside has seen a free slot, and the reader only makes more.   *)
RoomInside == \A w \in Writers : Busy(w) => ~isFull

(* Between ReadBegin and ReadEnd the slot at read is still in use.          *)
ReaderHasMessage ==
  /\ rpc # "poll" => ~isEmpty
  /\ rpc = "emptied" => elements[read].type = MSG_EMPTY

FreeSlotsEmpty ==
  \A i \in Index :
    \/ InUse(i)
    \/ elements[i].type = MSG_EMPTY
    \/ i = write /\ \E w \in Writers : wpc[w] \in {"storeAddr", "publish"}

(* The sweep is behind the reader's index, and what it passed is cleared.  *)
SweepPosition ==
  \A w \in Writers : wpc[w] \in InSweep =>
    /\ ~InUse(sweep[w])
    /\ \A i \in Index :
         Dist(write, i) < Dist(write, sweep[w]) => elements[i].addr = NULL
    /\ wpc[w] = "sweepNext" => elements[sweep[w]].addr = NULL
    /\ wpc[w] \in {"sweepFree", "sweepClear"} => elements[sweep[w]].addr # NULL

(* The slot whose block is freed and whose pointer is not yet cleared.     *)
Clearing(i) == \E w \in Writers : wpc[w] = "sweepClear" /\ sweep[w] = i

SlotBlocks ==
  /\ \A i \in Index : elements[i].addr # NULL /\ ~Clearing(i) => elements[i].addr \in allocated
  /\ \A i, j \in Index : elements[i].addr # NULL /\ elements[i].addr = elements[j].addr => i = j

WriterBlocks ==
  /\ \A w \in Writers : msg[w].addr # NULL => msg[w].addr \in allocated
  /\ \A v, w \in Writers : msg[v].addr # NULL /\ msg[v].addr = msg[w].addr => v = w
  /\ \A w \in Writers : wpc[w] = "idle" => msg[w] = EmptySlot
  /\ \A w \in Writers : wpc[w] = "publish" => elements[write].addr = msg[w].addr
  /\ \A w \in Writers, i \in Index : msg[w].addr # NULL /\ msg[w].addr = elements[i].addr =>
       \/ Clearing(i)
       \/ wpc[w] = "publish" /\ i = write

(* Until the next sweep is due, the slots about to be overwritten point to *)
(* nothing.                                                                *)
SlotsReserved ==
  /\ \A w \in Writers : wpc[w] \in {"storeType", "storeAddr"} => elements[write].addr = NULL
  /\ holders = {} /\ ~SweepDue => elements[write].addr = NULL
  /\ writeOps + 1 < FREE_THRESHOLD /\ (\A w \in Writers : wpc[w] \notin InSweep)
       => elements[Succ(write)].addr = NULL

BlocksReachable ==
  \A a \in allocated :
    \/ \E i \in Index : elements[i].addr = a /\ ~Clearing(i)
    \/ \E w \in Writers : msg[w].addr = a

(* What a writer is about to publish, and what the reader has not yet      *)
(* emptied, is a message both halves of which were stored.                  *)
MessagesWhole ==
  /\ \A w \in Writers : wpc[w] # "idle" => msg[w] \in Message
  /\ \A w \in Writers :
       wpc[w] \in {"storeAddr", "publish"} => elements[write].type = msg[w].type
  /\ \A i \in Index : InUse(i) => elements[i].type # MSG_EMPTY \/ (rpc = "emptied" /\ i = read)

IInv ==
  /\ TypeOK /\ OneHolder /\ RoomInside /\ ReaderHasMessage /\ FreeSlotsEmpty
  /\ SweepPosition /\ SlotBlocks /\ WriterBlocks /\ SlotsReserved /\ BlocksReachable
  /\ MessagesWhole
===============================================================================
