----------------------------- MODULE Link_proofs -----------------------------
(***************************************************************************)
(* IInv of LinkInvariant is inductive, so that for all sets of threads,    *)
(* providers and queries, of whichever layer, and for rings of any size    *)
(* the layers agree and nothing fatal happens without one of its causes.   *)
(* There is one lemma for each part of the invariant, with a step for each *)
(* action that can disturb it; what keeps it when memory runs out comes at *)
(* the end.                                                                *)
(***************************************************************************)
EXTENDS LinkInvariant, TLAPS

(* What sendDatamodel, sendAddQuery and sendDelQuery send.                 *)
Types == {"DM_ADD", "DM_DEL", "QUERY_ADD", "QUERY_DEL", "QUERY_CONTINUE", "DM_SNAPSHOT", "EMPTY"}

(* A message names an item, or a set of providers, or nothing: messages of *)
(* all functions that write to a ring.                                     *)
LEMMA MessageFields ==
  ASSUME NEW m \in Message
  PROVE  /\ m.type \in Types
         /\ m.type \in {"DM_ADD", "DM_DEL"} => m.what \in Providers
         /\ m.type \in {"QUERY_ADD", "QUERY_DEL", "QUERY_CONTINUE"} => m.what \in Queries
         /\ m.type = "DM_SNAPSHOT" => m.what \in SUBSET Providers
         /\ m.type = "EMPTY" => m.what = Nothing
<1>1. CASE m \in [type : {"DM_ADD", "DM_DEL"}, what : Providers]
  BY <1>1 DEF Types
<1>2. CASE m \in [type : {"QUERY_ADD", "QUERY_DEL", "QUERY_CONTINUE"}, what : Queries]
  BY <1>2 DEF Types
<1>3. CASE m \in [type : {"EMPTY"}, what : {Nothing}]
  BY <1>3 DEF Types
<1>4. CASE m \in [type : {"DM_SNAPSHOT"}, what : SUBSET Providers]
  BY <1>4 DEF Types
<1>. QED
  BY <1>1, <1>2, <1>3, <1>4 DEF Message

(* The messages that are written are messages.                             *)
LEMMA MsgIsMessage ==
  /\ \A p \in Providers : Msg("DM_ADD", p) \in Message /\ Msg("DM_DEL", p) \in Message
  /\ \A q \in Queries : /\ Msg("QUERY_ADD", q) \in Message /\ Msg("QUERY_DEL", q) \in Message
                        /\ Msg("QUERY_CONTINUE", q) \in Message
  /\ \A S \in SUBSET Providers : Msg("DM_SNAPSHOT", S) \in Message
  /\ Msg("EMPTY", Nothing) \in Message
BY DEF Msg, Message

(* The two layers are each other's peer.                                   *)
LEMMA Peers ==
  /\ Kernel \in Layers /\ User \in Layers /\ Peer(Kernel) = User /\ Peer(User) = Kernel
  /\ \A l \in Layers : Peer(l) \in Layers /\ Peer(l) # l /\ Peer(Peer(l)) = l
  /\ \A k, l \in Layers : k = l \/ k = Peer(l)
  /\ \A x \in Items : OwnerOf[x] \in Threads /\ Home(x) \in Layers
  /\ \A t \in Threads : LayerOf[t] \in Layers
BY LinkAssumption DEF Layers, Peer, Home

(* ringBufferWrite: the messages before the new one stay where they are.   *)
LEMMA RingAppend ==
  ASSUME ring \in [Layers -> Seq(Message)], NEW l \in Layers, NEW m \in Message,
         ring' = [ring EXCEPT ![l] = Append(@, m)]
  PROVE  /\ ring' \in [Layers -> Seq(Message)]
         /\ Len(ring[l]) \in Nat /\ Len(ring'[l]) = Len(ring[l]) + 1
         /\ DOMAIN ring[l] = 1 .. Len(ring[l]) /\ DOMAIN ring'[l] = 1 .. Len(ring[l]) + 1
         /\ \A i \in 1 .. Len(ring[l]) : ring'[l][i] = ring[l][i]
         /\ ring'[l][Len(ring[l]) + 1] = m
         /\ \A k \in Layers \ {l} : ring'[k] = ring[k]
<1>. DEFINE s == ring[l]
<1>1. s \in Seq(Message) /\ ring'[l] = Append(s, m)
  OBVIOUS
<1>2. /\ Len(s) \in Nat /\ DOMAIN s = 1 .. Len(s) /\ Append(s, m) \in Seq(Message)
      /\ Len(Append(s, m)) = Len(s) + 1 /\ DOMAIN Append(s, m) = 1 .. Len(s) + 1
      /\ \A i \in 1 .. Len(s) : Append(s, m)[i] = s[i]
      /\ Append(s, m)[Len(s) + 1] = m
  <2>. HIDE DEF s
  <2>. QED BY <1>1
<1>3. ring' \in [Layers -> Seq(Message)]
  BY <1>1, <1>2
<1>. QED
  BY <1>1, <1>2, <1>3

(* ringBufferReadEnd: every message moves up by one.                       *)
LEMMA RingTail ==
  ASSUME ring \in [Layers -> Seq(Message)], NEW l \in Layers, ring[l] # <<>>,
         ring' = [ring EXCEPT ![l] = Tail(@)]
  PROVE  /\ ring' \in [Layers -> Seq(Message)]
         /\ Len(ring[l]) \in Nat \ {0} /\ Len(ring'[l]) = Len(ring[l]) - 1
         /\ DOMAIN ring[l] = 1 .. Len(ring[l]) /\ DOMAIN ring'[l] = 1 .. Len(ring[l]) - 1
         /\ \A i \in 1 .. Len(ring[l]) - 1 : ring'[l][i] = ring[l][i + 1]
         /\ Head(ring[l]) = ring[l][1] /\ Head(ring[l]) \in Message
         /\ \A k \in Layers \ {l} : ring'[k] = ring[k]
<1>. DEFINE s == ring[l]
<1>1. s \in Seq(Message) /\ s # <<>> /\ ring'[l] = Tail(s)
  OBVIOUS
<1>2. /\ Len(s) \in Nat \ {0} /\ DOMAIN s = 1 .. Len(s) /\ Tail(s) \in Seq(Message)
      /\ Len(Tail(s)) = Len(s) - 1 /\ DOMAIN Tail(s) = 1 .. Len(s) - 1
      /\ \A i \in 1 .. Len(s) - 1 : Tail(s)[i] = s[i + 1]
      /\ Head(s) = s[1] /\ Head(s) \in Message
  <2>. HIDE DEF s
  <2>. QED BY <1>1
<1>3. ring' \in [Layers -> Seq(Message)]
  BY <1>1, <1>2
<1>. QED
  BY <1>1, <1>2, <1>3

(* What is in a ring is a message, and so is what the receiver reads.      *)
LEMMA InTheRing ==
  ASSUME ring \in [Layers -> Seq(Message)], NEW l \in Layers
  PROVE  /\ Len(ring[l]) \in Nat /\ DOMAIN ring[l] = 1 .. Len(ring[l])
         /\ \A i \in DOMAIN ring[l] : ring[l][i] \in Message
         /\ ring[l] # <<>> => /\ Head(ring[l]) \in Message /\ Head(ring[l]) = ring[l][1]
                              /\ 1 \in DOMAIN ring[l]
<1>. DEFINE s == ring[l]
<1>1. s \in Seq(Message)
  OBVIOUS
<1>2. /\ Len(s) \in Nat /\ DOMAIN s = 1 .. Len(s)
      /\ \A i \in DOMAIN s : s[i] \in Message
      /\ s # <<>> => Head(s) \in Message /\ Head(s) = s[1] /\ 1 \in DOMAIN s
  <2>. HIDE DEF s
  <2>. QED BY <1>1
<1>. QED
  BY <1>2

(* The daemon takes its datamodel away, or ends.                           *)
Leaves == DestroySLC \/ Unmap

(* A step for which there is memory, and in which no two writers of        *)
(* userspace meet.                                                         *)
Usual ==
  /\ fatal = {}
  /\ \/ \E t \in Threads : Alive(LayerOf[t]) /\ (Call(t) \/ GoOn(t))
     \/ \E l \in Layers : \/ ring[Peer(l)] # <<>> /\ Handle(l, Head(ring[Peer(l)]))
                         \/ \E q \in Queries : sendQueryContinue(l, q)
     \/ InitLayer \/ RequestSnapshot \/ InitSLC \/ DestroySLC \/ ExitLayer \/ Unmap

(* A step for which memory runs out.                                       *)
Lacks ==
  /\ fatal = {}
  /\ \/ \E t \in Threads : Alive(LayerOf[t]) /\ CallLacksMemory(t)
     \/ \E l \in Layers : /\ ring[Peer(l)] # <<>> /\ Alive(l)
                         /\ ReceiveLacksMemory(l, Head(ring[Peer(l)]))

(* There are no other steps.                                               *)
LEMMA NextIs == Next => Usual \/ Lacks \/ (fatal = {} /\ Overlap)
BY DEF Next, Usual, Lacks, commThreadWork

(* Who takes a step: a thread in or before a call, a communication thread  *)
(* with the message it reads, an executor, or the daemon.                  *)
LEMMA Steps ==
  ASSUME ring \in [Layers -> Seq(Message)], Usual
  PROVE  /\ fatal = {}
         /\ \/ \E t \in Threads, p \in Providers :
                 /\ OwnerOf[p] = t /\ Alive(LayerOf[t])
                 /\ registerProvider(t, p) \/ unregisterProvider(t, p)
            \/ \E t \in Threads, q \in Queries :
                 OwnerOf[q] = t /\ Alive(LayerOf[t]) /\ (CheckAdd(t, q) \/ CheckDel(t, q))
            \/ \E t \in Threads :
                 /\ Alive(LayerOf[t])
                 /\ NoNode(t) \/ addQueries(t) \/ delQueries(t) \/ SendDM(t) \/ SendQuery(t)
            \/ \E l \in Layers, m \in Message :
                 ring[Peer(l)] # <<>> /\ m = Head(ring[Peer(l)]) /\ Handle(l, m)
            \/ \E l \in Layers, q \in Queries : sendQueryContinue(l, q)
            \/ InitLayer \/ RequestSnapshot \/ InitSLC \/ DestroySLC \/ ExitLayer \/ Unmap
<1>1. ASSUME NEW l \in Layers, ring[Peer(l)] # <<>>, Handle(l, Head(ring[Peer(l)]))
      PROVE  \E m \in Message : ring[Peer(l)] # <<>> /\ m = Head(ring[Peer(l)]) /\ Handle(l, m)
  BY <1>1, Peers, InTheRing
<1>. QED
  BY <1>1 DEF Usual, Call, GoOn

-----------------------------------------------------------------------------
(* Types, in four parts.                                                   *)

SidesType == dm \in [Layers -> SUBSET Providers] /\ slots \in [Layers -> SUBSET Queries]

RingType == ring \in [Layers -> Seq(Message)] /\ \A l \in Layers : Len(ring[l]) <= Capacity

CallsType ==
  /\ op \in [Threads -> {"idle", "sendDMAdd", "sendDMDel", "checkedAdd", "checkedDel",
                         "sendAddQuery", "sendDelQuery"}]
  /\ arg \in [Threads -> Items \cup {Nothing}]
  /\ fresh \subseteq Items /\ registered \subseteq Items /\ transferred \subseteq Queries

HistoryType ==
  /\ daemon \in {"down", "mapped", "requested", "up", "destroyed", "flushed"}
  /\ restarts \in 0 .. MaxRestarts
  /\ fatal \subseteq Layers \X {"NULL", "lock", "race"}
  /\ mishap \subseteq {"unregistered", "early", "refused", "partial", "memory", "untimely", "restart", "unsent"}

(* The parts are the whole.                                                *)
LEMMA TypeParts == TypeOK <=> SidesType /\ RingType /\ CallsType /\ HistoryType
BY DEF TypeOK, SidesType, RingType, CallsType, HistoryType

(* Initially no item is known to anybody.                                  *)
LEMMA InitTypeOK == Init => TypeOK
<1>. SUFFICES ASSUME Init PROVE TypeOK
  OBVIOUS
<1>1. RingType
  BY LinkAssumption DEF Init, RingType
<1>2. SidesType /\ CallsType
  BY DEF Init, SidesType, CallsType
<1>3. 0 \in 0 .. MaxRestarts
  BY LinkAssumption
<1>4. HistoryType
  BY <1>3 DEF Init, HistoryType
<1>. QED
  BY <1>1, <1>2, <1>4, TypeParts

(* What a thread is in a call for is what the call is about.               *)
LEMMA InCall ==
  ASSUME TypeOK, CallsOwn, NEW t \in Threads
  PROVE  /\ LayerOf[t] \in Layers
         /\ SendDM(t) => arg[t] \in Providers
         /\ addQueries(t) \/ delQueries(t) \/ SendQuery(t) \/ NoNode(t) => arg[t] \in Queries
         /\ arg[t] # Nothing => arg[t] \in Items /\ Home(arg[t]) = LayerOf[t]
<1>1. LayerOf[t] \in Layers
  BY Peers
<1>2. SendDM(t) => arg[t] \in Providers
  BY DEF CallsOwn, SendDM
<1>3. addQueries(t) \/ delQueries(t) \/ SendQuery(t) \/ NoNode(t) => arg[t] \in Queries
  BY DEF CallsOwn, addQueries, delQueries, SendQuery, NoNode
<1>4. arg[t] # Nothing => arg[t] \in Items /\ Home(arg[t]) = LayerOf[t]
  BY DEF TypeOK, CallsOwn, Home
<1>. QED
  BY <1>1, <1>2, <1>3, <1>4

(* The trees and the slots of both layers.                                 *)
LEMMA NextSidesType == ASSUME TypeOK, CallsOwn, Usual PROVE SidesType'
<1>. USE DEF SidesType, sides
<1>0. SidesType
  BY TypeParts
<1>1. ASSUME NEW t \in Threads, NEW p \in Providers,
             registerProvider(t, p) \/ unregisterProvider(t, p)
      PROVE  SidesType'
  <2>1. LayerOf[t] \in Layers
    BY Peers
  <2>. QED
    BY <1>0, <1>1, <2>1 DEF registerProvider, unregisterProvider, Without
<1>2. ASSUME NEW t \in Threads, addQueries(t) \/ delQueries(t)
      PROVE  SidesType'
  <2>1. LayerOf[t] \in Layers /\ arg[t] \in Queries
    BY <1>2, InCall
  <2>. QED
    BY <1>0, <1>2, <2>1 DEF addQueries, delQueries
<1>3. ASSUME NEW t \in Threads, NEW q,
             CheckAdd(t, q) \/ CheckDel(t, q) \/ NoNode(t) \/ SendDM(t) \/ SendQuery(t)
      PROVE  SidesType'
  BY <1>0, <1>3 DEF CheckAdd, CheckDel, Check, NoNode, SendDM, SendQuery
<1>4. ASSUME NEW l \in Layers, NEW m \in Message, Handle(l, m)
      PROVE  SidesType'
  <2>1. /\ m.type \in {"DM_ADD", "DM_DEL"} => m.what \in Providers
        /\ m.type \in {"QUERY_ADD", "QUERY_DEL", "QUERY_CONTINUE"} => m.what \in Queries
        /\ m.type = "DM_SNAPSHOT" => m.what \in SUBSET Providers
    BY MessageFields
  <2>2. CASE ReceiveAdd(l, m) \/ ReceiveDel(l, m)
    BY <1>0, <2>2, <2>1 DEF ReceiveAdd, ReceiveDel, Without
  <2>3. CASE ReceiveQueryAdd(l, m) \/ ReceiveQueryDel(l, m)
    BY <1>0, <2>3, <2>1 DEF ReceiveQueryAdd, ReceiveQueryDel
  <2>4. CASE l = User /\ ReceiveSnapshot(m)
    BY <1>0, <2>4, <2>1 DEF ReceiveSnapshot
  <2>5. CASE ReceiveContinue(l, m) \/ ReceiveRequest(m) \/ ReceiveEmpty(l, m) \/ Untimely(m)
    BY <1>0, <2>5 DEF ReceiveContinue, ReceiveRequest, ReceiveEmpty, Untimely
  <2>. QED
    BY <1>4, <2>2, <2>3, <2>4, <2>5 DEF Handle
<1>5. ASSUME NEW l \in Layers, NEW q \in Queries, sendQueryContinue(l, q)
      PROVE  SidesType'
  BY <1>0, <1>5 DEF sendQueryContinue
<1>6. CASE InitLayer \/ RequestSnapshot \/ InitSLC \/ DestroySLC \/ ExitLayer \/ Unmap
  BY <1>0, <1>6, Peers DEF InitLayer, RequestSnapshot, InitSLC, DestroySLC, ExitLayer, Unmap, Gone
<1>. QED
  BY <1>1, <1>2, <1>3, <1>4, <1>5, <1>6, Steps DEF TypeOK

(* The rings: what is written is a message, and there is room for it.      *)
LEMMA NextRingType == ASSUME TypeOK, CallsOwn, Usual PROVE RingType'
<1>0. RingType /\ Capacity \in Nat
  BY TypeParts, LinkAssumption
<1>1. ASSUME NEW l \in Layers, NEW m \in Message, Room(l),
             ring' = [ring EXCEPT ![l] = Append(@, m)]
      PROVE  RingType'
  BY <1>0, <1>1, RingAppend DEF RingType, Room
<1>2. ASSUME NEW l \in Layers, ring[l] # <<>>, ring' = [ring EXCEPT ![l] = Tail(@)]
      PROVE  RingType'
  BY <1>0, <1>2, RingTail DEF RingType
<1>3. CASE UNCHANGED ring
  BY <1>0, <1>3 DEF RingType
<1>4. ASSUME NEW t \in Threads, SendDM(t)
      PROVE  RingType'
  <2>1. LayerOf[t] \in Layers /\ arg[t] \in Providers
    BY <1>4, InCall
  <2>. QED
    BY <1>1, <1>3, <1>4, <2>1, MsgIsMessage DEF SendDM, Write
<1>5. ASSUME NEW t \in Threads, SendQuery(t)
      PROVE  RingType'
  <2>1. LayerOf[t] \in Layers /\ arg[t] \in Queries
    BY <1>5, InCall
  <2>. QED
    BY <1>1, <1>5, <2>1, MsgIsMessage DEF SendQuery, Write
<1>6. ASSUME NEW l \in Layers, NEW q \in Queries, sendQueryContinue(l, q)
      PROVE  RingType'
  BY <1>1, <1>6, MsgIsMessage DEF sendQueryContinue, Write
<1>7. CASE RequestSnapshot
  BY <1>1, <1>7, Peers, MsgIsMessage DEF RequestSnapshot, Write
<1>8. ASSUME NEW l \in Layers, ring[Peer(l)] # <<>>, ReadEnd(l)
      PROVE  RingType'
  BY <1>2, <1>8, Peers DEF ReadEnd
<1>9. ASSUME NEW m \in Message, ring[User] # <<>>, Room(Kernel),
             ring' = [ring EXCEPT ![Kernel] = Append(@, Msg("DM_SNAPSHOT", dm[Kernel])),
                                  ![User] = Tail(@)]
      PROVE  RingType'
  <2>. DEFINE s == ring[Kernel]
              r == ring[User]
              a == Msg("DM_SNAPSHOT", dm[Kernel])
  <2>1. Layers = {Kernel, User} /\ Kernel # User
    BY LinkAssumption DEF Layers
  <2>2. s \in Seq(Message) /\ r \in Seq(Message) /\ a \in Message /\ r # <<>>
    BY <1>0, <1>9, <2>1, MsgIsMessage DEF RingType, TypeOK
  <2>3. /\ Len(Append(s, a)) = Len(s) + 1 /\ Append(s, a) \in Seq(Message)
        /\ Len(Tail(r)) = Len(r) - 1 /\ Tail(r) \in Seq(Message)
        /\ Len(s) \in Nat /\ Len(r) \in Nat
    <3>. HIDE DEF s, r, a
    <3>. QED BY <2>2
  <2>4. ring'[Kernel] = Append(s, a) /\ ring'[User] = Tail(r) /\ ring' = [l \in Layers |-> ring'[l]]
    BY <1>0, <1>9, <2>1 DEF RingType
  <2>5. Len(s) < Capacity /\ Len(r) <= Capacity
    BY <1>0, <1>9, <2>1 DEF RingType, Room
  <2>6. ring'[Kernel] \in Seq(Message) /\ ring'[User] \in Seq(Message)
    BY <2>3, <2>4
  <2>7. Len(ring'[Kernel]) <= Capacity /\ Len(ring'[User]) <= Capacity
    <3>. HIDE DEF s, r, a
    <3>. QED BY <1>0, <2>3, <2>4, <2>5
  <2>. QED
    BY <2>1, <2>4, <2>6, <2>7 DEF RingType
<1>10. ASSUME NEW l \in Layers, NEW m \in Message, ring[Peer(l)] # <<>>, Handle(l, m)
       PROVE  RingType'
  <2>1. CASE l = Kernel /\ ReceiveRequest(m)
    BY <1>8, <1>9, <1>10, <2>1, Peers DEF ReceiveRequest
  <2>2. CASE ~(l = Kernel /\ ReceiveRequest(m)) /\ ~ReadEnd(l)
    BY <1>3, <1>10, <2>2
    DEF Handle, ReceiveAdd, ReceiveDel, ReceiveQueryAdd, ReceiveQueryDel, ReceiveContinue,
        ReceiveSnapshot, ReceiveEmpty, Untimely
  <2>. QED
    BY <1>8, <1>10, <2>1, <2>2
<1>11. CASE ExitLayer
  <2>. DEFINE empty == [i \in 1 .. Capacity |-> Msg("EMPTY", Nothing)]
  <2>1. empty \in Seq(Message) /\ Len(empty) = Capacity
    <3>1. \A i \in 1 .. Capacity : empty[i] \in Message
      BY MsgIsMessage
    <3>2. empty \in [1 .. Capacity -> Message]
      BY <3>1
    <3>. HIDE DEF empty
    <3>. QED BY <1>0, <3>2
  <2>2. ring' = [ring EXCEPT ![Kernel] = empty]
    BY <1>11 DEF ExitLayer
  <2>. HIDE DEF empty
  <2>3. \A l \in Layers : ring'[l] = IF l = Kernel THEN empty ELSE ring[l]
    BY <1>0, <2>2 DEF RingType
  <2>4. ring' \in [Layers -> Seq(Message)]
    BY <1>0, <2>1, <2>2 DEF RingType
  <2>. QED
    BY <1>0, <2>1, <2>3, <2>4 DEF RingType
<1>12. ASSUME NEW t \in Threads, NEW p \in Providers,
              registerProvider(t, p) \/ unregisterProvider(t, p)
       PROVE  UNCHANGED ring
  BY <1>12 DEF registerProvider, unregisterProvider
<1>13. ASSUME NEW t \in Threads, NEW q,
              CheckAdd(t, q) \/ CheckDel(t, q) \/ NoNode(t) \/ addQueries(t) \/ delQueries(t)
       PROVE  UNCHANGED ring
  BY <1>13 DEF CheckAdd, CheckDel, Check, NoNode, addQueries, delQueries
<1>14. CASE InitLayer \/ InitSLC \/ Leaves
  BY <1>3, <1>14 DEF InitLayer, InitSLC, Leaves, DestroySLC, Unmap, Gone
<1>. QED
  BY <1>3, <1>4, <1>5, <1>6, <1>7, <1>10, <1>11, <1>12, <1>13, <1>14, Steps DEF TypeOK, Leaves

(* The calls: a thread goes on to the next part of the call it is in.      *)
LEMMA NextCallsType == ASSUME TypeOK, CallsOwn, Usual PROVE CallsType'
<1>. USE DEF CallsType, calls
<1>0. CallsType
  BY TypeParts
<1>1. ASSUME NEW t \in Threads, NEW p \in Providers,
             registerProvider(t, p) \/ unregisterProvider(t, p)
      PROVE  CallsType'
  BY <1>0, <1>1 DEF registerProvider, unregisterProvider, Goto, Items
<1>2. ASSUME NEW t \in Threads, NEW q \in Queries, CheckAdd(t, q) \/ CheckDel(t, q)
      PROVE  CallsType'
  BY <1>0, <1>2 DEF CheckAdd, CheckDel, Check, Goto, Items
<1>3. ASSUME NEW t \in Threads, NoNode(t) \/ SendDM(t)
      PROVE  CallsType'
  BY <1>0, <1>3 DEF NoNode, SendDM, Goto
<1>4. ASSUME NEW t \in Threads, addQueries(t) \/ delQueries(t)
      PROVE  CallsType'
  <2>1. arg[t] \in Queries
    BY <1>4, InCall
  <2>. QED
    BY <1>0, <1>4, <2>1 DEF addQueries, delQueries, Goto, Items
<1>5. ASSUME NEW t \in Threads, SendQuery(t)
      PROVE  CallsType'
  <2>1. arg[t] \in Queries
    BY <1>5, InCall
  <2>. QED
    BY <1>0, <1>5, <2>1 DEF SendQuery, Goto
<1>6. ASSUME NEW l, NEW m, Handle(l, m)
      PROVE  CallsType'
  BY <1>0, <1>6
  DEF Handle, ReceiveAdd, ReceiveDel, ReceiveQueryAdd, ReceiveQueryDel, ReceiveContinue,
      ReceiveRequest, ReceiveSnapshot, ReceiveEmpty, Untimely
<1>7. ASSUME NEW l, NEW q, sendQueryContinue(l, q)
      PROVE  CallsType'
  BY <1>0, <1>7 DEF sendQueryContinue
<1>8. CASE InitLayer \/ RequestSnapshot \/ InitSLC \/ ExitLayer
  BY <1>0, <1>8 DEF InitLayer, RequestSnapshot, InitSLC, ExitLayer
<1>9. CASE Leaves
  BY <1>0, <1>9 DEF Leaves, DestroySLC, Unmap, Gone
<1>. QED
  BY <1>1, <1>2, <1>3, <1>4, <1>5, <1>6, <1>7, <1>8, <1>9, Steps DEF TypeOK, Leaves

(* What happened is kept, and nothing happened that has no name.           *)
LEMMA NextHistory == ASSUME TypeOK, CallsOwn, Usual PROVE HistoryType' /\ mishap \subseteq mishap'
<1>. USE DEF HistoryType, daemonVars
<1>0. HistoryType /\ MaxRestarts \in Nat
  BY TypeParts, LinkAssumption
<1>10. \A l \in Layers : \A w \in {"NULL", "lock"} :
         Fail(l, w) => fatal' \subseteq Layers \X {"NULL", "lock", "race"}
  BY <1>0 DEF Fail
<1>1. ASSUME NEW t, NEW p, registerProvider(t, p) \/ unregisterProvider(t, p)
      PROVE  HistoryType' /\ mishap \subseteq mishap'
  BY <1>0, <1>1 DEF registerProvider, unregisterProvider, Note
<1>2. ASSUME NEW t, NEW q, CheckAdd(t, q) \/ CheckDel(t, q)
      PROVE  HistoryType' /\ mishap \subseteq mishap'
  BY <1>0, <1>2 DEF CheckAdd, CheckDel, Check, Note
<1>3. ASSUME NEW t \in Threads, NoNode(t) \/ SendDM(t)
      PROVE  HistoryType' /\ mishap \subseteq mishap'
  <2>1. LayerOf[t] \in Layers
    BY Peers
  <2>. QED
    BY <1>0, <1>3, <1>10, <2>1 DEF NoNode, SendDM
<1>4. ASSUME NEW t, addQueries(t) \/ delQueries(t) \/ SendQuery(t)
      PROVE  HistoryType' /\ mishap \subseteq mishap'
  BY <1>0, <1>4 DEF addQueries, delQueries, SendQuery, Note
<1>5. ASSUME NEW l \in Layers, NEW m, Handle(l, m)
      PROVE  HistoryType' /\ mishap \subseteq mishap'
  <2>1. CASE ReceiveQueryAdd(l, m) \/ ReceiveQueryDel(l, m)
    BY <1>0, <1>10, <2>1 DEF ReceiveQueryAdd, ReceiveQueryDel, Note
  <2>2. CASE ReceiveSnapshot(m) \/ Untimely(m)
    <3>1. User \in Layers
      BY Peers
    <3>. QED
      BY <1>0, <1>10, <2>2, <3>1 DEF ReceiveSnapshot, Untimely, Note
  <2>3. CASE \/ ReceiveAdd(l, m) \/ ReceiveDel(l, m) \/ ReceiveContinue(l, m)
             \/ ReceiveRequest(m) \/ ReceiveEmpty(l, m)
    BY <1>0, <2>3 DEF ReceiveAdd, ReceiveDel, ReceiveContinue, ReceiveRequest, ReceiveEmpty
  <2>. QED
    BY <1>5, <2>1, <2>2, <2>3 DEF Handle
<1>6. ASSUME NEW l, NEW q, sendQueryContinue(l, q)
      PROVE  HistoryType' /\ mishap \subseteq mishap'
  BY <1>0, <1>6 DEF sendQueryContinue
<1>7. CASE InitLayer \/ RequestSnapshot \/ InitSLC \/ ExitLayer
  BY <1>0, <1>7 DEF InitLayer, RequestSnapshot, InitSLC, ExitLayer
<1>8. CASE Leaves
  BY <1>0, <1>8 DEF Leaves, DestroySLC, Unmap, MayEnd, Gone, Note
<1>. QED
  BY <1>1, <1>2, <1>3, <1>4, <1>5, <1>6, <1>7, <1>8, Steps DEF TypeOK, Leaves

(* Every action keeps the types.                                           *)
LEMMA NextTypeOK == ASSUME TypeOK, CallsOwn, Usual PROVE TypeOK'
<1>1. SidesType' /\ RingType' /\ CallsType' /\ HistoryType'
  BY NextSidesType, NextRingType, NextCallsType, NextHistory
<1>. QED
  BY <1>1 DEF TypeOK, SidesType, RingType, CallsType, HistoryType

-----------------------------------------------------------------------------
(* The calls.                                                              *)

(* Only its owner is in a call for an item, and only if the daemon is up   *)
(* when it is of the daemon.                                               *)
LEMMA NextCallsOwn == ASSUME TypeOK, CallsOwn, Usual PROVE CallsOwn'
<1>. USE DEF CallsOwn, calls, daemonVars
<1>0. CallsType /\ Nothing \notin Items
  BY TypeParts, LinkAssumption
<1>1. ASSUME NEW t \in Threads, NEW p \in Providers, OwnerOf[p] = t, Alive(LayerOf[t]),
             registerProvider(t, p) \/ unregisterProvider(t, p)
      PROVE  CallsOwn'
  BY <1>0, <1>1 DEF registerProvider, unregisterProvider, Goto, Items, CallsType, Alive
<1>2. ASSUME NEW t \in Threads, NEW q \in Queries, OwnerOf[q] = t, Alive(LayerOf[t]),
             CheckAdd(t, q) \/ CheckDel(t, q)
      PROVE  CallsOwn'
  BY <1>0, <1>2 DEF CheckAdd, CheckDel, Check, Goto, Items, CallsType, Alive
<1>3. ASSUME NEW t \in Threads, NoNode(t) \/ SendDM(t) \/ SendQuery(t)
      PROVE  CallsOwn'
  BY <1>0, <1>3 DEF NoNode, SendDM, SendQuery, Goto, CallsType
<1>4. ASSUME NEW t \in Threads, addQueries(t) \/ delQueries(t), Alive(LayerOf[t])
      PROVE  CallsOwn'
  <2>1. arg[t] \in Queries
    BY <1>4, InCall
  <2>. QED
    BY <1>0, <1>4, <2>1 DEF addQueries, delQueries, Goto, CallsType, Alive
<1>5. ASSUME NEW l, NEW m, Handle(l, m)
      PROVE  CallsOwn'
  BY <1>5
  DEF Handle, ReceiveAdd, ReceiveDel, ReceiveQueryAdd, ReceiveQueryDel, ReceiveContinue,
      ReceiveRequest, ReceiveSnapshot, ReceiveEmpty, Untimely
<1>6. ASSUME NEW l, NEW q, sendQueryContinue(l, q)
      PROVE  CallsOwn'
  BY <1>6 DEF sendQueryContinue
<1>7. CASE InitLayer \/ RequestSnapshot \/ InitSLC
  BY <1>7 DEF InitLayer, RequestSnapshot, InitSLC
<1>8. CASE ExitLayer
  BY <1>8 DEF ExitLayer
<1>9. CASE Leaves
  BY <1>0, <1>9 DEF Leaves, DestroySLC, Unmap, Idle, Gone, CallsType
<1>. QED
  BY <1>1, <1>2, <1>3, <1>4, <1>5, <1>6, <1>7, <1>8, <1>9, Steps DEF TypeOK, Leaves

(* What a thread is in a call for is as far as the call says: it is fresh  *)
(* before it is registered, registered before it is sent or looked up.     *)
LEMMA NextCallsKnow == ASSUME TypeOK, CallsOwn, CallsKnow, HomeHas, Usual PROVE CallsKnow'
<1>. USE DEF CallsKnow, calls
<1>0. /\ CallsType /\ Nothing \notin Items /\ registered \cap fresh = {}
      /\ \A t \in Threads : op[t] # "idle" => OwnerOf[arg[t]] = t /\ arg[t] \in Items
  BY TypeParts, LinkAssumption DEF HomeHas, CallsOwn, TypeOK
<1>1. ASSUME NEW t \in Threads, NEW p \in Providers, OwnerOf[p] = t, registerProvider(t, p)
      PROVE  CallsKnow'
  BY <1>0, <1>1 DEF registerProvider, Goto, CallsType
<1>2. ASSUME NEW t \in Threads, NEW p \in Providers, OwnerOf[p] = t, unregisterProvider(t, p)
      PROVE  CallsKnow'
  BY <1>0, <1>2 DEF unregisterProvider, Goto, CallsType
<1>3. ASSUME NEW t \in Threads, NEW q \in Queries, CheckAdd(t, q) \/ CheckDel(t, q)
      PROVE  CallsKnow'
  BY <1>0, <1>3 DEF CheckAdd, CheckDel, Check, Goto, CallsType
<1>4. ASSUME NEW t \in Threads, NoNode(t) \/ SendDM(t)
      PROVE  CallsKnow'
  BY <1>0, <1>4 DEF NoNode, SendDM, Goto, CallsType
<1>5. ASSUME NEW t \in Threads, addQueries(t)
      PROVE  CallsKnow'
  BY <1>0, <1>5 DEF addQueries, Goto, CallsType
<1>6. ASSUME NEW t \in Threads, delQueries(t)
      PROVE  CallsKnow'
  BY <1>0, <1>6 DEF delQueries, Goto, CallsType
<1>7. ASSUME NEW t \in Threads, SendQuery(t)
      PROVE  CallsKnow'
  BY <1>0, <1>7 DEF SendQuery, Goto, CallsType
<1>8. ASSUME NEW l, NEW m, Handle(l, m)
      PROVE  CallsKnow'
  BY <1>8
  DEF Handle, ReceiveAdd, ReceiveDel, ReceiveQueryAdd, ReceiveQueryDel, ReceiveContinue,
      ReceiveRequest, ReceiveSnapshot, ReceiveEmpty, Untimely
<1>9. ASSUME NEW l, NEW q, sendQueryContinue(l, q)
      PROVE  CallsKnow'
  BY <1>9 DEF sendQueryContinue
<1>10. CASE InitLayer \/ RequestSnapshot \/ InitSLC \/ ExitLayer
  BY <1>10 DEF InitLayer, RequestSnapshot, InitSLC, ExitLayer
<1>11. CASE Leaves
  <2>1. CASE Unmap
    BY <1>0, <2>1, Peers DEF Unmap, Gone, CallsType, Home
  <2>2. CASE DestroySLC
    <3>1. \A t \in Threads : op[t] # "idle" => arg[t] \notin Gone
      BY <1>0, <2>2 DEF DestroySLC, Idle, Gone, Home
    <3>. QED
      BY <1>0, <2>2, <3>1 DEF DestroySLC, CallsType
  <2>. QED
    BY <1>11, <2>1, <2>2 DEF Leaves
<1>. QED
  BY <1>1, <1>2, <1>3, <1>4, <1>5, <1>6, <1>7, <1>8, <1>9, <1>10, <1>11, Steps DEF TypeOK, Leaves

(* A node is freed with the queries in its slots.                          *)
LEMMA NextSlotsHaveNode == ASSUME TypeOK, CallsOwn, SlotsHaveNode, Usual PROVE SlotsHaveNode'
<1>. USE DEF SlotsHaveNode, sides
<1>0. SidesType
  BY TypeParts
<1>1. ASSUME NEW l \in Layers, NEW p, Without(l, p)
      PROVE  SlotsHaveNode'
  BY <1>0, <1>1 DEF Without, At, SidesType
<1>2. ASSUME NEW t \in Threads, NEW p \in Providers, registerProvider(t, p)
      PROVE  SlotsHaveNode'
  BY <1>0, <1>2, Peers DEF registerProvider, SidesType
<1>3. ASSUME NEW t \in Threads, addQueries(t) \/ delQueries(t)
      PROVE  SlotsHaveNode'
  <2>1. LayerOf[t] \in Layers
    BY Peers
  <2>. QED
    BY <1>0, <1>3, <2>1 DEF addQueries, delQueries, SidesType
<1>4. ASSUME NEW t \in Threads, NEW x,
             CheckAdd(t, x) \/ CheckDel(t, x) \/ NoNode(t) \/ SendDM(t) \/ SendQuery(t)
      PROVE  SlotsHaveNode'
  BY <1>4 DEF CheckAdd, CheckDel, Check, NoNode, SendDM, SendQuery
<1>5. ASSUME NEW l \in Layers, NEW m, Handle(l, m)
      PROVE  SlotsHaveNode'
  <2>1. CASE ReceiveDel(l, m)
    BY <1>1, <2>1 DEF ReceiveDel
  <2>2. CASE ReceiveAdd(l, m) \/ (l = User /\ ReceiveSnapshot(m))
    BY <1>0, <2>2 DEF ReceiveAdd, ReceiveSnapshot, SidesType
  <2>3. CASE ReceiveQueryAdd(l, m) \/ ReceiveQueryDel(l, m)
    BY <1>0, <2>3 DEF ReceiveQueryAdd, ReceiveQueryDel, SidesType
  <2>4. CASE ReceiveContinue(l, m) \/ ReceiveRequest(m) \/ ReceiveEmpty(l, m) \/ Untimely(m)
    BY <2>4 DEF ReceiveContinue, ReceiveRequest, ReceiveEmpty, Untimely
  <2>. QED
    BY <1>5, <2>1, <2>2, <2>3, <2>4 DEF Handle
<1>6. ASSUME NEW l, NEW q, sendQueryContinue(l, q)
      PROVE  SlotsHaveNode'
  BY <1>6 DEF sendQueryContinue
<1>7. CASE InitLayer \/ RequestSnapshot \/ InitSLC \/ ExitLayer
  BY <1>7 DEF InitLayer, RequestSnapshot, InitSLC, ExitLayer
<1>8. CASE Leaves
  BY <1>0, <1>8 DEF Leaves, DestroySLC, Unmap, Gone, SidesType
<1>9. ASSUME NEW t \in Threads, NEW p, unregisterProvider(t, p)
      PROVE  SlotsHaveNode'
  BY <1>1, <1>9, Peers DEF unregisterProvider
<1>. QED
  BY <1>2, <1>3, <1>4, <1>5, <1>6, <1>7, <1>8, <1>9, Steps DEF TypeOK, Leaves

-----------------------------------------------------------------------------
(* What a step can do to a tree, to a slot, to the registrations and to a  *)
(* ring, whichever action it is.                                           *)

(* A tree comes by registerProvider or with the message that is read.      *)
LEMMA TreeComes ==
  ASSUME TypeOK, Usual, NEW l \in Layers, NEW x, x \in dm'[l], x \notin dm[l]
  PROVE  /\ Alive(l)
         /\ \/ \E t \in Threads :
                 OwnerOf[x] = t /\ LayerOf[t] = l /\ registerProvider(t, x) /\ x \in registered'
            \/ /\ ring[Peer(l)] # <<>> /\ Adds(Head(ring[Peer(l)]), x)
               /\ Head(ring[Peer(l)]).type \in {"DM_ADD", "DM_SNAPSHOT"}
               /\ \/ ReceiveAdd(l, Head(ring[Peer(l)]))
                  \/ l = User /\ ReceiveSnapshot(Head(ring[Peer(l)]))
<1>. USE DEF sides
<1>0. SidesType
  BY TypeParts
<1>1. ASSUME NEW t \in Threads, NEW p \in Providers, OwnerOf[p] = t, registerProvider(t, p)
      PROVE  LayerOf[t] = l /\ x = p /\ x \in registered'
  BY <1>0, <1>1, Peers DEF registerProvider, SidesType
<1>2. ASSUME NEW t \in Threads, NEW p, unregisterProvider(t, p)
      PROVE  FALSE
  BY <1>0, <1>2, Peers DEF unregisterProvider, Without, SidesType
<1>3. ASSUME NEW t, NEW q,
             \/ CheckAdd(t, q) \/ CheckDel(t, q) \/ NoNode(t)
             \/ addQueries(t) \/ delQueries(t) \/ SendDM(t) \/ SendQuery(t)
      PROVE  FALSE
  BY <1>3 DEF CheckAdd, CheckDel, Check, NoNode, addQueries, delQueries, SendDM, SendQuery
<1>4. ASSUME NEW k \in Layers, NEW m \in Message, Handle(k, m)
      PROVE  /\ k = l /\ Alive(l) /\ Adds(m, x) /\ m.type \in {"DM_ADD", "DM_SNAPSHOT"}
             /\ ReceiveAdd(l, m) \/ (l = User /\ ReceiveSnapshot(m))
  <2>1. CASE Alive(k) /\ ReceiveAdd(k, m)
    <3>1. k = l /\ Adds(m, x) /\ m.type = "DM_ADD"
      BY <1>0, <2>1 DEF ReceiveAdd, SidesType, Adds
    <3>. QED
      BY <2>1, <3>1
  <2>2. CASE Alive(k) /\ k = User /\ ReceiveSnapshot(m)
    <3>1. k = l /\ Adds(m, x) /\ m.type = "DM_SNAPSHOT"
      BY <1>0, <2>2 DEF ReceiveSnapshot, SidesType, Adds
    <3>. QED
      BY <2>2, <3>1
  <2>3. CASE ReceiveDel(k, m)
    BY <1>0, <2>3 DEF ReceiveDel, Without, SidesType
  <2>4. CASE \/ ReceiveQueryAdd(k, m) \/ ReceiveQueryDel(k, m) \/ ReceiveContinue(k, m)
             \/ ReceiveRequest(m) \/ ReceiveEmpty(k, m) \/ Untimely(m)
    BY <2>4
    DEF ReceiveQueryAdd, ReceiveQueryDel, ReceiveContinue, ReceiveRequest, ReceiveEmpty, Untimely
  <2>. QED
    BY <1>4, <2>1, <2>2, <2>3, <2>4 DEF Handle
<1>5. ASSUME NEW k, NEW q, sendQueryContinue(k, q)
      PROVE  FALSE
  BY <1>5 DEF sendQueryContinue
<1>6. CASE InitLayer \/ RequestSnapshot \/ InitSLC \/ DestroySLC \/ ExitLayer \/ Unmap
  BY <1>0, <1>6 DEF InitLayer, RequestSnapshot, InitSLC, DestroySLC, ExitLayer, Unmap, Gone, SidesType
<1>. QED
  BY <1>1, <1>2, <1>3, <1>4, <1>5, <1>6, Steps DEF TypeOK

(* A tree goes by unregisterProvider, with the message that is read, or    *)
(* with the daemon.                                                        *)
LEMMA TreeGoes ==
  ASSUME TypeOK, Usual, NEW l \in Layers, NEW x, x \in dm[l], x \notin dm'[l]
  PROVE  \/ \E t \in Threads : OwnerOf[x] = t /\ LayerOf[t] = l /\ unregisterProvider(t, x)
         \/ /\ ring[Peer(l)] # <<>> /\ ReceiveDel(l, Head(ring[Peer(l)]))
            /\ Head(ring[Peer(l)]).what = x
         \/ Leaves /\ l = User
<1>. USE DEF sides
<1>0. SidesType
  BY TypeParts
<1>1. ASSUME NEW t \in Threads, NEW p \in Providers, registerProvider(t, p)
      PROVE  FALSE
  BY <1>0, <1>1, Peers DEF registerProvider, SidesType
<1>2. ASSUME NEW t \in Threads, NEW p, unregisterProvider(t, p)
      PROVE  x = p /\ LayerOf[t] = l
  BY <1>0, <1>2, Peers DEF unregisterProvider, Without, SidesType
<1>3. ASSUME NEW t, NEW q,
             \/ CheckAdd(t, q) \/ CheckDel(t, q) \/ NoNode(t)
             \/ addQueries(t) \/ delQueries(t) \/ SendDM(t) \/ SendQuery(t)
      PROVE  FALSE
  BY <1>3 DEF CheckAdd, CheckDel, Check, NoNode, addQueries, delQueries, SendDM, SendQuery
<1>4. ASSUME NEW k \in Layers, NEW m \in Message, Handle(k, m)
      PROVE  k = l /\ ReceiveDel(k, m) /\ m.what = x
  <2>1. CASE ReceiveAdd(k, m)
    BY <1>0, <2>1 DEF ReceiveAdd, SidesType
  <2>2. CASE k = User /\ ReceiveSnapshot(m)
    BY <1>0, <2>2 DEF ReceiveSnapshot, SidesType
  <2>3. CASE ReceiveDel(k, m)
    BY <1>0, <2>3 DEF ReceiveDel, Without, SidesType
  <2>4. CASE \/ ReceiveQueryAdd(k, m) \/ ReceiveQueryDel(k, m) \/ ReceiveContinue(k, m)
             \/ ReceiveRequest(m) \/ ReceiveEmpty(k, m) \/ Untimely(m)
    BY <2>4
    DEF ReceiveQueryAdd, ReceiveQueryDel, ReceiveContinue, ReceiveRequest, ReceiveEmpty, Untimely
  <2>. QED
    BY <1>4, <2>1, <2>2, <2>3, <2>4 DEF Handle
<1>5. ASSUME NEW k, NEW q, sendQueryContinue(k, q)
      PROVE  FALSE
  BY <1>5 DEF sendQueryContinue
<1>6. CASE InitLayer \/ RequestSnapshot \/ InitSLC \/ ExitLayer
  BY <1>6 DEF InitLayer, RequestSnapshot, InitSLC, ExitLayer
<1>7. CASE Leaves
  BY <1>0, <1>7 DEF Leaves, DestroySLC, Unmap, Gone, SidesType
<1>. QED
  BY <1>1, <1>2, <1>3, <1>4, <1>5, <1>6, <1>7, Steps DEF TypeOK, Leaves

(* A query comes to a slot by addQueries, for its owner or for the other   *)
(* layer.                                                                  *)
LEMMA QueryComes ==
  ASSUME TypeOK, CallsOwn, Usual, NEW l \in Layers, NEW q, q \in slots'[l], q \notin slots[l]
  PROVE  /\ Alive(l)
         /\ \/ \E t \in Threads :
                 /\ OwnerOf[q] = t /\ arg[t] = q /\ LayerOf[t] = l
                 /\ addQueries(t) /\ q \in registered'
            \/ /\ ring[Peer(l)] # <<>> /\ ReceiveQueryAdd(l, Head(ring[Peer(l)]))
               /\ Head(ring[Peer(l)]).what = q
<1>. USE DEF sides
<1>0. SidesType
  BY TypeParts
<1>1. ASSUME NEW t \in Threads, NEW p, registerProvider(t, p) \/ unregisterProvider(t, p)
      PROVE  FALSE
  BY <1>0, <1>1, Peers DEF registerProvider, unregisterProvider, Without, SidesType
<1>2. ASSUME NEW t \in Threads, addQueries(t)
      PROVE  OwnerOf[q] = t /\ arg[t] = q /\ LayerOf[t] = l /\ q \in registered'
  <2>1. LayerOf[t] \in Layers /\ OwnerOf[arg[t]] = t
    BY <1>2, Peers DEF CallsOwn, addQueries
  <2>. QED
    BY <1>0, <1>2, <2>1 DEF addQueries, SidesType
<1>3. ASSUME NEW t \in Threads, delQueries(t)
      PROVE  FALSE
  BY <1>0, <1>3, Peers DEF delQueries, SidesType
<1>4. ASSUME NEW t, NEW x,
             CheckAdd(t, x) \/ CheckDel(t, x) \/ NoNode(t) \/ SendDM(t) \/ SendQuery(t)
      PROVE  FALSE
  BY <1>4 DEF CheckAdd, CheckDel, Check, NoNode, SendDM, SendQuery
<1>5. ASSUME NEW k \in Layers, NEW m \in Message, Handle(k, m)
      PROVE  k = l /\ Alive(l) /\ ReceiveQueryAdd(k, m) /\ m.what = q
  <2>1. CASE Alive(k) /\ ReceiveQueryAdd(k, m)
    BY <1>0, <2>1 DEF ReceiveQueryAdd, SidesType
  <2>2. CASE ReceiveQueryDel(k, m)
    BY <1>0, <2>2 DEF ReceiveQueryDel, SidesType
  <2>3. CASE ReceiveDel(k, m)
    BY <1>0, <2>3 DEF ReceiveDel, Without, SidesType
  <2>4. CASE \/ ReceiveAdd(k, m) \/ ReceiveSnapshot(m) \/ ReceiveContinue(k, m)
             \/ ReceiveRequest(m) \/ ReceiveEmpty(k, m) \/ Untimely(m)
    BY <2>4 DEF ReceiveAdd, ReceiveSnapshot, ReceiveContinue, ReceiveRequest, ReceiveEmpty, Untimely
  <2>. QED
    BY <1>5, <2>1, <2>2, <2>3, <2>4 DEF Handle
<1>6. ASSUME NEW k, NEW x, sendQueryContinue(k, x)
      PROVE  FALSE
  BY <1>6 DEF sendQueryContinue
<1>7. CASE InitLayer \/ RequestSnapshot \/ InitSLC \/ DestroySLC \/ ExitLayer \/ Unmap
  BY <1>0, <1>7 DEF InitLayer, RequestSnapshot, InitSLC, DestroySLC, ExitLayer, Unmap, Gone, SidesType
<1>. QED
  BY <1>1, <1>2, <1>3, <1>4, <1>5, <1>6, <1>7, Steps DEF TypeOK

(* A query goes by delQueries, for its owner or for the other layer, with  *)
(* its node, or with the daemon.                                           *)
LEMMA QueryGoes ==
  ASSUME TypeOK, CallsOwn, Usual, NEW l \in Layers, NEW q \in Queries, q \in slots[l], q \notin slots'[l]
  PROVE  \/ \E t \in Threads :
              /\ OwnerOf[q] = t /\ arg[t] = q /\ LayerOf[t] = l
              /\ delQueries(t) /\ q \notin registered'
         \/ \E t \in Threads : LayerOf[t] = l /\ unregisterProvider(t, NodeOf[q])
         \/ /\ ring[Peer(l)] # <<>> /\ Head(ring[Peer(l)]).what = NodeOf[q]
            /\ ReceiveDel(l, Head(ring[Peer(l)]))
         \/ /\ ring[Peer(l)] # <<>> /\ Head(ring[Peer(l)]).what = q
            /\ ReceiveQueryDel(l, Head(ring[Peer(l)]))
         \/ Leaves /\ l = User
<1>. USE DEF sides
<1>0. SidesType
  BY TypeParts
<1>1. ASSUME NEW t \in Threads, NEW p, registerProvider(t, p)
      PROVE  FALSE
  BY <1>1 DEF registerProvider
<1>2. ASSUME NEW t \in Threads, NEW p, unregisterProvider(t, p)
      PROVE  p = NodeOf[q] /\ LayerOf[t] = l
  BY <1>0, <1>2, Peers DEF unregisterProvider, Without, At, SidesType
<1>3. ASSUME NEW t \in Threads, delQueries(t)
      PROVE  OwnerOf[q] = t /\ arg[t] = q /\ LayerOf[t] = l /\ q \notin registered'
  <2>1. LayerOf[t] \in Layers /\ OwnerOf[arg[t]] = t
    BY <1>3, Peers DEF CallsOwn, delQueries
  <2>. QED
    BY <1>0, <1>3, <2>1 DEF delQueries, SidesType
<1>4. ASSUME NEW t \in Threads, NEW x,
             \/ CheckAdd(t, x) \/ CheckDel(t, x) \/ NoNode(t)
             \/ addQueries(t) \/ SendDM(t) \/ SendQuery(t)
      PROVE  FALSE
  BY <1>0, <1>4, Peers DEF CheckAdd, CheckDel, Check, NoNode, addQueries, SendDM, SendQuery, SidesType
<1>5. ASSUME NEW k \in Layers, NEW m \in Message, Handle(k, m)
      PROVE  /\ k = l
             /\ \/ ReceiveDel(k, m) /\ m.what = NodeOf[q]
                \/ ReceiveQueryDel(k, m) /\ m.what = q
  <2>1. CASE ReceiveQueryAdd(k, m)
    BY <1>0, <2>1 DEF ReceiveQueryAdd, SidesType
  <2>2. CASE ReceiveQueryDel(k, m)
    BY <1>0, <2>2 DEF ReceiveQueryDel, SidesType
  <2>3. CASE ReceiveDel(k, m)
    BY <1>0, <2>3 DEF ReceiveDel, Without, At, SidesType
  <2>4. CASE \/ ReceiveAdd(k, m) \/ ReceiveSnapshot(m) \/ ReceiveContinue(k, m)
             \/ ReceiveRequest(m) \/ ReceiveEmpty(k, m) \/ Untimely(m)
    BY <2>4 DEF ReceiveAdd, ReceiveSnapshot, ReceiveContinue, ReceiveRequest, ReceiveEmpty, Untimely
  <2>. QED
    BY <1>5, <2>1, <2>2, <2>3, <2>4 DEF Handle
<1>6. ASSUME NEW k, NEW x, sendQueryContinue(k, x)
      PROVE  FALSE
  BY <1>6 DEF sendQueryContinue
<1>7. CASE InitLayer \/ RequestSnapshot \/ InitSLC \/ ExitLayer
  BY <1>7 DEF InitLayer, RequestSnapshot, InitSLC, ExitLayer
<1>8. CASE Leaves
  BY <1>0, <1>8 DEF Leaves, DestroySLC, Unmap, Gone, SidesType
<1>. QED
  BY <1>1, <1>2, <1>3, <1>4, <1>5, <1>6, <1>7, <1>8, Steps DEF TypeOK, Leaves

(* An item is registered by its owner, which puts it into the tree of its  *)
(* own layer, and ceases to be by its owner or with the daemon; nothing    *)
(* becomes fresh but what goes with the daemon.                            *)
LEMMA Registers ==
  ASSUME TypeOK, CallsOwn, Usual, NEW x \in Items
  PROVE  /\ x \in registered' /\ x \notin registered =>
              \E t \in Threads :
                /\ OwnerOf[x] = t /\ x \notin fresh'
                /\ \/ x \in Providers /\ x \in fresh /\ registerProvider(t, x) /\ x \in dm'[LayerOf[t]]
                   \/ x \in Queries /\ arg[t] = x /\ addQueries(t) /\ x \in slots'[LayerOf[t]]
         /\ x \in registered /\ x \notin registered' =>
              \/ \E t \in Threads :
                   /\ OwnerOf[x] = t
                   /\ \/ x \in Providers /\ unregisterProvider(t, x) /\ x \notin dm'[LayerOf[t]]
                      \/ x \in Queries /\ arg[t] = x /\ delQueries(t) /\ x \notin slots'[LayerOf[t]]
              \/ Leaves /\ Home(x) = User
         /\ x \in fresh' /\ x \notin fresh => Unmap /\ Home(x) = User /\ x \notin registered'
<1>. USE DEF calls
<1>0. SidesType /\ CallsType
  BY TypeParts
<1>1. ASSUME NEW t \in Threads, NEW p \in Providers, OwnerOf[p] = t, registerProvider(t, p)
      PROVE  /\ x \in registered' /\ x \notin registered =>
                  x = p /\ x \notin fresh' /\ x \in fresh /\ x \in dm'[LayerOf[t]]
             /\ x \in registered => x \in registered'
             /\ x \in fresh' => x \in fresh
  BY <1>0, <1>1, Peers DEF registerProvider, SidesType
<1>2. ASSUME NEW t \in Threads, NEW p \in Providers, OwnerOf[p] = t, unregisterProvider(t, p)
      PROVE  /\ x \in registered' => x \in registered
             /\ x \in registered /\ x \notin registered' => x = p /\ x \notin dm'[LayerOf[t]]
             /\ x \in fresh' => x \in fresh
  BY <1>0, <1>2, Peers DEF unregisterProvider, Without, SidesType
<1>3. ASSUME NEW t \in Threads, addQueries(t)
      PROVE  /\ x \in registered' /\ x \notin registered =>
                  /\ x = arg[t] /\ x \in Queries /\ OwnerOf[x] = t
                  /\ x \notin fresh' /\ x \in slots'[LayerOf[t]]
             /\ x \in registered => x \in registered'
             /\ x \in fresh' => x \in fresh
  <2>1. LayerOf[t] \in Layers /\ arg[t] \in Queries /\ OwnerOf[arg[t]] = t
    BY <1>3, Peers DEF CallsOwn, addQueries
  <2>. QED
    BY <1>0, <1>3, <2>1 DEF addQueries, SidesType
<1>4. ASSUME NEW t \in Threads, delQueries(t)
      PROVE  /\ x \in registered' => x \in registered
             /\ x \in registered /\ x \notin registered' =>
                  x = arg[t] /\ x \in Queries /\ OwnerOf[x] = t /\ x \notin slots'[LayerOf[t]]
             /\ x \in fresh' => x \in fresh
  <2>1. LayerOf[t] \in Layers /\ arg[t] \in Queries /\ OwnerOf[arg[t]] = t
    BY <1>4, Peers DEF CallsOwn, delQueries
  <2>. QED
    BY <1>0, <1>4, <2>1 DEF delQueries, SidesType
<1>5. ASSUME NEW t, NEW y,
             CheckAdd(t, y) \/ CheckDel(t, y) \/ NoNode(t) \/ SendDM(t) \/ SendQuery(t)
      PROVE  registered' = registered /\ fresh' = fresh
  BY <1>5 DEF CheckAdd, CheckDel, Check, NoNode, SendDM, SendQuery
<1>6. ASSUME NEW k, NEW m, Handle(k, m)
      PROVE  registered' = registered /\ fresh' = fresh
  BY <1>6
  DEF Handle, ReceiveAdd, ReceiveDel, ReceiveQueryAdd, ReceiveQueryDel, ReceiveContinue,
      ReceiveRequest, ReceiveSnapshot, ReceiveEmpty, Untimely
<1>7. ASSUME NEW k, NEW y, sendQueryContinue(k, y)
      PROVE  registered' = registered /\ fresh' = fresh
  BY <1>7 DEF sendQueryContinue
<1>8. CASE InitLayer \/ RequestSnapshot \/ InitSLC \/ ExitLayer
  BY <1>8 DEF InitLayer, RequestSnapshot, InitSLC, ExitLayer
<1>9. CASE Leaves
  BY <1>9 DEF Leaves, DestroySLC, Unmap, Gone
<1>10. ring \in [Layers -> Seq(Message)]
  BY DEF TypeOK
<1>11. CASE x \in registered' /\ x \notin registered
  BY <1>1, <1>2, <1>3, <1>4, <1>5, <1>6, <1>7, <1>8, <1>9, <1>10, <1>11, Steps DEF Leaves
<1>12. CASE x \in registered /\ x \notin registered'
  BY <1>1, <1>2, <1>3, <1>4, <1>5, <1>6, <1>7, <1>8, <1>9, <1>10, <1>12, Steps DEF Leaves
<1>13. x \in fresh' /\ x \notin fresh => Unmap /\ Home(x) = User /\ x \notin registered'
  BY <1>1, <1>2, <1>3, <1>4, <1>5, <1>6, <1>7, <1>8, <1>9, <1>10, Steps DEF Leaves
<1>. QED
  BY <1>11, <1>12, <1>13

(* Who writes the message m to the ring of layer l.                        *)
Is(m, type, what) == m.type = type /\ m.what = what
Writes(l, m) ==
  \/ \E t \in Threads :
       /\ LayerOf[t] = l /\ Alive(l) /\ SendDM(t) /\ EndpointConnected(l)
       /\ Is(m, IF op[t] = "sendDMAdd" THEN "DM_ADD" ELSE "DM_DEL", arg[t])
  \/ \E t \in Threads :
       /\ LayerOf[t] = l /\ Alive(l) /\ SendQuery(t)
       /\ Is(m, IF op[t] = "sendAddQuery" THEN "QUERY_ADD" ELSE "QUERY_DEL", arg[t])
  \/ \E q \in Queries : sendQueryContinue(l, q) /\ Is(m, "QUERY_CONTINUE", q)
  \/ /\ l = Kernel /\ ring[User] # <<>> /\ ReceiveRequest(Head(ring[User])) /\ EndpointConnected(Kernel)
     /\ Is(m, "DM_SNAPSHOT", dm[Kernel])
  \/ l = User /\ RequestSnapshot /\ Is(m, "DM_SNAPSHOT", {})

(* How layer l reads the message m.                                        *)
Reads(l, m) ==
  \/ /\ Alive(l)
     /\ \/ ReceiveAdd(l, m) \/ ReceiveDel(l, m)
        \/ ReceiveQueryAdd(l, m) \/ ReceiveQueryDel(l, m) \/ ReceiveContinue(l, m)
        \/ l = Kernel /\ ReceiveRequest(m)
        \/ l = User /\ ReceiveSnapshot(m)
  \/ (l = Kernel \/ daemon \in {"mapped", "requested", "up", "destroyed"}) /\ ReceiveEmpty(l, m)

(* A ring stays, gets a message, loses one, or is filled by the daemon that*)
(* exits.                                                                  *)
LEMMA RingSteps ==
  ASSUME TypeOK, CallsOwn, Usual, NEW l \in Layers
  PROVE  \/ ring'[l] = ring[l]
         \/ Room(l) /\ \E m \in Message : ring'[l] = Append(ring[l], m) /\ Writes(l, m)
         \/ ring[l] # <<>> /\ ring'[l] = Tail(ring[l]) /\ Reads(Peer(l), Head(ring[l]))
         \/ l = Kernel /\ ExitLayer /\ ring'[l] = [i \in 1 .. Capacity |-> Msg("EMPTY", Nothing)]
<1>. DEFINE Stays == ring'[l] = ring[l]
            Grows == Room(l) /\ \E m \in Message : ring'[l] = Append(ring[l], m) /\ Writes(l, m)
            Exits == l = Kernel /\ ExitLayer /\ ring'[l] = [i \in 1 .. Capacity |-> Msg("EMPTY", Nothing)]
            Shrinks == ring[l] # <<>> /\ ring'[l] = Tail(ring[l]) /\ Reads(Peer(l), Head(ring[l]))
<1>0. ring \in [Layers -> Seq(Message)]
  BY DEF TypeOK
<1>1. ASSUME NEW k \in Layers, NEW m \in Message, Room(k), ring' = [ring EXCEPT ![k] = Append(@, m)],
             Writes(k, m)
      PROVE  Stays \/ Grows
  BY <1>0, <1>1
<1>2. ASSUME NEW k \in Layers, ring[Peer(k)] # <<>>, ReadEnd(k), Reads(k, Head(ring[Peer(k)]))
      PROVE  Stays \/ Shrinks
  <2>1. CASE l = Peer(k)
    <3>1. Peer(l) = k
      BY <2>1, Peers
    <3>. QED
      BY <1>0, <1>2, <2>1, <3>1 DEF ReadEnd
  <2>2. CASE l # Peer(k)
    BY <1>0, <1>2, <2>2 DEF ReadEnd
  <2>. QED
    BY <2>1, <2>2
<1>3. ASSUME NEW t \in Threads, SendDM(t), Alive(LayerOf[t])
      PROVE  Stays \/ Grows
  <2>1. LayerOf[t] \in Layers /\ arg[t] \in Providers
    BY <1>3, InCall
  <2>2. CASE UNCHANGED ring
    BY <2>2
  <2>3. CASE /\ EndpointConnected(LayerOf[t]) /\ Room(LayerOf[t])
             /\ Write(LayerOf[t], Msg(IF op[t] = "sendDMAdd" THEN "DM_ADD" ELSE "DM_DEL", arg[t]))
    <3>. DEFINE m == Msg(IF op[t] = "sendDMAdd" THEN "DM_ADD" ELSE "DM_DEL", arg[t])
    <3>1. m \in Message /\ Is(m, IF op[t] = "sendDMAdd" THEN "DM_ADD" ELSE "DM_DEL", arg[t])
      BY <2>1, MsgIsMessage DEF Msg, Is
    <3>2. Writes(LayerOf[t], m)
      BY <1>3, <2>3, <3>1 DEF Writes
    <3>. HIDE DEF m
    <3>3. ring' = [ring EXCEPT ![LayerOf[t]] = Append(@, m)]
      BY <2>3 DEF Write, m
    <3>. QED
      BY <1>1, <2>1, <2>3, <3>1, <3>2, <3>3
  <2>. QED
    BY <1>3, <2>2, <2>3 DEF SendDM
<1>4. ASSUME NEW t \in Threads, SendQuery(t), Alive(LayerOf[t])
      PROVE  Stays \/ Grows
  <2>. DEFINE m == Msg(IF op[t] = "sendAddQuery" THEN "QUERY_ADD" ELSE "QUERY_DEL", arg[t])
  <2>1. LayerOf[t] \in Layers /\ arg[t] \in Queries
    BY <1>4, InCall
  <2>2. m \in Message /\ Is(m, IF op[t] = "sendAddQuery" THEN "QUERY_ADD" ELSE "QUERY_DEL", arg[t])
    BY <2>1, MsgIsMessage DEF Msg, Is
  <2>3. Writes(LayerOf[t], m)
    BY <1>4, <2>2 DEF Writes
  <2>4. Room(LayerOf[t]) /\ ring' = [ring EXCEPT ![LayerOf[t]] = Append(@, m)]
    BY <1>4 DEF SendQuery, Write
  <2>. HIDE DEF m
  <2>. QED
    BY <1>1, <2>1, <2>2, <2>3, <2>4
<1>5. ASSUME NEW k \in Layers, NEW q \in Queries, sendQueryContinue(k, q)
      PROVE  Stays \/ Grows
  <2>1. Is(Msg("QUERY_CONTINUE", q), "QUERY_CONTINUE", q) /\ Msg("QUERY_CONTINUE", q) \in Message
    BY MsgIsMessage DEF Msg, Is
  <2>2. Writes(k, Msg("QUERY_CONTINUE", q))
    BY <1>5, <2>1 DEF Writes
  <2>. QED
    BY <1>1, <1>5, <2>1, <2>2 DEF sendQueryContinue, Write
<1>6. ASSUME RequestSnapshot
      PROVE  Stays \/ Grows
  <2>1. Is(Msg("DM_SNAPSHOT", {}), "DM_SNAPSHOT", {}) /\ Msg("DM_SNAPSHOT", {}) \in Message
    BY MsgIsMessage DEF Msg, Is
  <2>2. Writes(User, Msg("DM_SNAPSHOT", {})) /\ User \in Layers
    BY <1>6, <2>1, Peers DEF Writes
  <2>. QED
    BY <1>1, <1>6, <2>1, <2>2 DEF RequestSnapshot, Write
<1>7. ASSUME NEW m \in Message, m = Head(ring[User]), ring[User] # <<>>, ReceiveRequest(m)
      PROVE  Stays \/ Grows \/ Shrinks
  <2>. DEFINE a == Msg("DM_SNAPSHOT", dm[Kernel])
  <2>1. /\ Kernel # User /\ Kernel \in Layers /\ User \in Layers /\ l \in {Kernel, User}
        /\ Peer(Kernel) = User /\ Peer(User) = Kernel
    BY Peers, LinkAssumption DEF Layers
  <2>2. Reads(Kernel, m)
    BY <1>7, <2>1 DEF Reads, Alive
  <2>3. CASE ReadEnd(Kernel)
    BY <1>2, <1>7, <2>1, <2>2, <2>3
  <2>4. CASE /\ EndpointConnected(Kernel) /\ Room(Kernel)
             /\ ring' = [ring EXCEPT ![Kernel] = Append(@, a), ![User] = Tail(@)]
    <3>1. a \in Message /\ Is(a, "DM_SNAPSHOT", dm[Kernel])
      BY <2>1, MsgIsMessage DEF TypeOK, Msg, Is
    <3>2. Writes(Kernel, a)
      BY <1>7, <2>4, <3>1 DEF Writes
    <3>. HIDE DEF a
    <3>3. ring'[Kernel] = Append(ring[Kernel], a) /\ ring'[User] = Tail(ring[User])
      BY <1>0, <2>1, <2>4
    <3>4. CASE l = Kernel
      BY <2>4, <3>1, <3>2, <3>3, <3>4
    <3>5. CASE l = User
      BY <1>7, <2>1, <2>2, <3>3, <3>5
    <3>. QED
      BY <2>1, <3>4, <3>5
  <2>. QED
    BY <1>7, <2>3, <2>4 DEF ReceiveRequest
<1>8. ASSUME NEW k \in Layers, NEW m \in Message, ring[Peer(k)] # <<>>, m = Head(ring[Peer(k)]),
             Handle(k, m), ~(k = Kernel /\ ReceiveRequest(m))
      PROVE  Stays \/ Shrinks
  <2>1. CASE Untimely(m)
    BY <2>1 DEF Untimely
  <2>2. CASE ~Untimely(m)
    <3>1. Reads(k, m)
      BY <1>8, <2>2 DEF Handle, Reads
    <3>2. ReadEnd(k)
      BY <1>8, <3>1
      DEF Reads, ReceiveAdd, ReceiveDel, ReceiveQueryAdd, ReceiveQueryDel, ReceiveContinue,
          ReceiveSnapshot, ReceiveEmpty
    <3>. QED
      BY <1>2, <1>8, <3>1, <3>2
  <2>. QED
    BY <2>1, <2>2
<1>9. ASSUME ExitLayer
      PROVE  Stays \/ Exits
  <2>1. CASE l = Kernel
    BY <1>0, <1>9, <2>1 DEF ExitLayer
  <2>2. CASE l # Kernel
    BY <1>0, <1>9, <2>2 DEF ExitLayer
  <2>. QED
    BY <1>9, <2>1, <2>2
<1>10. ASSUME NEW t, NEW x,
              \/ registerProvider(t, x) \/ unregisterProvider(t, x) \/ CheckAdd(t, x) \/ CheckDel(t, x)
              \/ NoNode(t) \/ addQueries(t) \/ delQueries(t)
       PROVE  Stays
  BY <1>10
  DEF registerProvider, unregisterProvider, CheckAdd, CheckDel, Check, NoNode, addQueries, delQueries
<1>11. ASSUME InitLayer \/ InitSLC \/ Leaves
       PROVE  Stays
  BY <1>11 DEF InitLayer, InitSLC, Leaves, DestroySLC, Unmap, Gone
<1>12. Peer(Kernel) = User
  BY Peers
<1>. HIDE DEF Stays, Grows, Shrinks, Exits
<1>13. Stays \/ Grows \/ Shrinks \/ Exits
  BY <1>0, <1>3, <1>4, <1>5, <1>6, <1>7, <1>8, <1>9, <1>10, <1>11, <1>12, Steps DEF Leaves
<1>. QED
  BY <1>13 DEF Stays, Grows, Shrinks, Exits

(* What is in a ring was there before or is written by this step.          *)
LEMMA Sent ==
  ASSUME TypeOK, CallsOwn, Usual, NEW l \in Layers, NEW i \in DOMAIN ring'[l]
  PROVE  \/ \E j \in DOMAIN ring[l] : ring'[l][i] = ring[l][j]
         \/ Room(l) /\ Writes(l, ring'[l][i])
         \/ l = Kernel /\ ExitLayer /\ Is(ring'[l][i], "EMPTY", Nothing)
<1>. DEFINE s == ring[l]
<1>1. s \in Seq(Message)
  BY DEF TypeOK
<1>2. ASSUME NEW m \in Message, ring'[l] = Append(s, m), ~\E j \in DOMAIN s : ring'[l][i] = s[j]
      PROVE  ring'[l][i] = m
  <2>. HIDE DEF s
  <2>1. i \in 1 .. Len(s) + 1 /\ Len(s) \in Nat /\ DOMAIN s = 1 .. Len(s)
    BY <1>1, <1>2
  <2>. QED
    BY <1>1, <1>2, <2>1
<1>3. ASSUME ring'[l] = Tail(s), s # <<>>
      PROVE  \E j \in DOMAIN s : ring'[l][i] = s[j]
  <2>. HIDE DEF s
  <2>. QED
    BY <1>1, <1>3
<1>4. ASSUME ring'[l] = [n \in 1 .. Capacity |-> Msg("EMPTY", Nothing)]
      PROVE  Is(ring'[l][i], "EMPTY", Nothing)
  BY <1>4 DEF Msg, Is
<1>. QED
  BY <1>2, <1>3, <1>4, RingSteps

(* A thread begins a call, goes on in the call it is in, or is gone with   *)
(* the daemon.                                                             *)
LEMMA CallSteps ==
  ASSUME TypeOK, Usual, NEW t \in Threads
  PROVE  \/ op'[t] = op[t] /\ arg'[t] = arg[t]
         \/ \E p \in Providers :
              OwnerOf[p] = t /\ registerProvider(t, p) /\ op'[t] = "sendDMAdd" /\ arg'[t] = p
         \/ \E p \in Providers :
              OwnerOf[p] = t /\ unregisterProvider(t, p) /\ op'[t] = "sendDMDel" /\ arg'[t] = p
         \/ \E q \in Queries :
              /\ CheckAdd(t, q) \/ CheckDel(t, q)
              /\ op[t] = "idle" /\ op'[t] \in {"checkedAdd", "checkedDel"} /\ arg'[t] = q
         \/ addQueries(t) \/ delQueries(t)
         \/ (SendDM(t) \/ SendQuery(t)) /\ op'[t] = "idle" /\ arg'[t] = Nothing
         \/ Unmap /\ LayerOf[t] = User /\ op'[t] = "idle" /\ arg'[t] = Nothing
<1>. USE DEF calls
<1>0. CallsType
  BY TypeParts
<1>1. ASSUME NEW k \in Threads, NEW p \in Providers, OwnerOf[p] = k, registerProvider(k, p)
      PROVE  \/ op'[t] = op[t] /\ arg'[t] = arg[t]
             \/ k = t /\ op'[t] = "sendDMAdd" /\ arg'[t] = p
  BY <1>0, <1>1 DEF registerProvider, Goto, CallsType
<1>2. ASSUME NEW k \in Threads, NEW p \in Providers, OwnerOf[p] = k, unregisterProvider(k, p)
      PROVE  \/ op'[t] = op[t] /\ arg'[t] = arg[t]
             \/ k = t /\ op'[t] = "sendDMDel" /\ arg'[t] = p
  BY <1>0, <1>2 DEF unregisterProvider, Goto, CallsType
<1>3. ASSUME NEW k \in Threads, NEW q \in Queries, CheckAdd(k, q) \/ CheckDel(k, q)
      PROVE  \/ op'[t] = op[t] /\ arg'[t] = arg[t]
             \/ k = t /\ op[t] = "idle" /\ op'[t] \in {"checkedAdd", "checkedDel"} /\ arg'[t] = q
  BY <1>0, <1>3 DEF CheckAdd, CheckDel, Check, Goto, CallsType
<1>4. ASSUME NEW k \in Threads, NoNode(k) \/ addQueries(k) \/ delQueries(k)
      PROVE  k = t \/ (op'[t] = op[t] /\ arg'[t] = arg[t])
  BY <1>0, <1>4 DEF NoNode, addQueries, delQueries, Goto, CallsType
<1>5. ASSUME NoNode(t)
      PROVE  op'[t] = op[t] /\ arg'[t] = arg[t]
  BY <1>5 DEF NoNode
<1>6. ASSUME NEW k \in Threads, SendDM(k) \/ SendQuery(k)
      PROVE  \/ op'[t] = op[t] /\ arg'[t] = arg[t]
             \/ k = t /\ op'[t] = "idle" /\ arg'[t] = Nothing
  BY <1>0, <1>6 DEF SendDM, SendQuery, Goto, CallsType
<1>7. ASSUME NEW l, NEW m, Handle(l, m)
      PROVE  op'[t] = op[t] /\ arg'[t] = arg[t]
  BY <1>7
  DEF Handle, ReceiveAdd, ReceiveDel, ReceiveQueryAdd, ReceiveQueryDel, ReceiveContinue,
      ReceiveRequest, ReceiveSnapshot, ReceiveEmpty, Untimely
<1>8. ASSUME NEW l, NEW q, sendQueryContinue(l, q)
      PROVE  op'[t] = op[t] /\ arg'[t] = arg[t]
  BY <1>8 DEF sendQueryContinue
<1>9. ASSUME InitLayer \/ RequestSnapshot \/ InitSLC \/ DestroySLC \/ ExitLayer
      PROVE  op'[t] = op[t] /\ arg'[t] = arg[t]
  BY <1>9 DEF InitLayer, RequestSnapshot, InitSLC, DestroySLC, ExitLayer
<1>10. ASSUME Unmap
       PROVE  \/ op'[t] = op[t] /\ arg'[t] = arg[t]
              \/ LayerOf[t] = User /\ op'[t] = "idle" /\ arg'[t] = Nothing
  BY <1>0, <1>10 DEF Unmap, Gone, CallsType
<1>. QED
  BY <1>1, <1>2, <1>3, <1>4, <1>5, <1>6, <1>7, <1>8, <1>9, <1>10, Steps DEF TypeOK

(* A query is marked as transferred when it is sent.                       *)
LEMMA Transfers ==
  ASSUME TypeOK, CallsOwn, Usual, NEW q \in Queries
  PROVE  /\ q \in transferred /\ q \notin transferred' => Unmap /\ Home(q) = User
         /\ q \in transferred' /\ q \notin transferred =>
              \E t \in Threads : /\ SendQuery(t) /\ op[t] = "sendAddQuery" /\ arg[t] = q
                                 /\ OwnerOf[q] = t /\ Alive(LayerOf[t])
<1>. USE DEF calls
<1>1. ASSUME NEW t \in Threads, SendQuery(t)
      PROVE  /\ q \in transferred => q \in transferred'
             /\ q \in transferred' /\ q \notin transferred =>
                  op[t] = "sendAddQuery" /\ arg[t] = q /\ OwnerOf[q] = t
  BY <1>1 DEF SendQuery, CallsOwn
<1>2. ASSUME NEW t, NEW x,
             \/ registerProvider(t, x) \/ unregisterProvider(t, x) \/ CheckAdd(t, x) \/ CheckDel(t, x)
             \/ NoNode(t) \/ addQueries(t) \/ delQueries(t) \/ SendDM(t)
      PROVE  transferred' = transferred
  BY <1>2
  DEF registerProvider, unregisterProvider, CheckAdd, CheckDel, Check, NoNode, addQueries,
      delQueries, SendDM
<1>3. ASSUME NEW l, NEW m, Handle(l, m)
      PROVE  transferred' = transferred
  BY <1>3
  DEF Handle, ReceiveAdd, ReceiveDel, ReceiveQueryAdd, ReceiveQueryDel, ReceiveContinue,
      ReceiveRequest, ReceiveSnapshot, ReceiveEmpty, Untimely
<1>4. ASSUME NEW l, NEW x, sendQueryContinue(l, x)
      PROVE  transferred' = transferred
  BY <1>4 DEF sendQueryContinue
<1>5. ASSUME InitLayer \/ RequestSnapshot \/ InitSLC \/ DestroySLC \/ ExitLayer
      PROVE  transferred' = transferred
  BY <1>5 DEF InitLayer, RequestSnapshot, InitSLC, DestroySLC, ExitLayer
<1>6. ASSUME Unmap
      PROVE  /\ q \in transferred' => q \in transferred
             /\ q \in transferred /\ q \notin transferred' => Home(q) = User
  BY <1>6 DEF Unmap, Gone
<1>. QED
  BY <1>1, <1>2, <1>3, <1>4, <1>5, <1>6, Steps DEF TypeOK

(* The daemon comes and goes step by step.                                 *)
LEMMA DaemonSteps ==
  ASSUME TypeOK, Usual
  PROVE  \/ daemon' = daemon
         \/ daemon = "down" /\ daemon' = "mapped" /\ InitLayer
         \/ daemon = "mapped" /\ daemon' = "requested" /\ RequestSnapshot
         \/ daemon = "requested" /\ daemon' = "up" /\ InitSLC
         \/ daemon = "up" /\ daemon' = "destroyed" /\ DestroySLC
         \/ daemon = "destroyed" /\ daemon' = "flushed" /\ ExitLayer
         \/ daemon' = "down" /\ Unmap
<1>. USE DEF daemonVars
<1>1. ASSUME NEW t, NEW x,
             \/ registerProvider(t, x) \/ unregisterProvider(t, x) \/ CheckAdd(t, x) \/ CheckDel(t, x)
             \/ NoNode(t) \/ addQueries(t) \/ delQueries(t) \/ SendDM(t) \/ SendQuery(t)
      PROVE  daemon' = daemon
  BY <1>1
  DEF registerProvider, unregisterProvider, CheckAdd, CheckDel, Check, NoNode, addQueries,
      delQueries, SendDM, SendQuery
<1>2. ASSUME NEW l, NEW m, Handle(l, m)
      PROVE  daemon' = daemon
  BY <1>2
  DEF Handle, ReceiveAdd, ReceiveDel, ReceiveQueryAdd, ReceiveQueryDel, ReceiveContinue,
      ReceiveRequest, ReceiveSnapshot, ReceiveEmpty, Untimely
<1>3. ASSUME NEW l, NEW x, sendQueryContinue(l, x)
      PROVE  daemon' = daemon
  BY <1>3 DEF sendQueryContinue
<1>4. CASE InitLayer \/ RequestSnapshot \/ InitSLC \/ DestroySLC \/ ExitLayer \/ Unmap
  BY <1>4 DEF InitLayer, RequestSnapshot, InitSLC, DestroySLC, ExitLayer, Unmap, Gone
<1>. QED
  BY <1>1, <1>2, <1>3, <1>4, Steps DEF TypeOK

-----------------------------------------------------------------------------
(* The parts of the invariant.                                             *)

(* What the messages in the rings are about.                               *)
LEMMA InRings ==
  ASSUME TypeOK, NEW l \in Layers, NEW i \in DOMAIN ring[l]
  PROVE  /\ ring[l][i] \in Message
         /\ ring[l][i].type \in {"DM_ADD", "DM_DEL"} => ring[l][i].what \in Providers
         /\ ring[l][i].type \in {"QUERY_ADD", "QUERY_DEL", "QUERY_CONTINUE"} => ring[l][i].what \in Queries
         /\ ring[l][i].type = "DM_SNAPSHOT" => ring[l][i].what \in SUBSET Providers
         /\ ring[l][i].type = "EMPTY" => ring[l][i].what = Nothing
<1>1. ring[l][i] \in Message
  BY InTheRing DEF TypeOK
<1>. QED
  BY <1>1, MessageFields

(* The message a communication thread reads is the first of the ring.      *)
LEMMA TheHead ==
  ASSUME TypeOK, NEW l \in Layers, ring[l] # <<>>
  PROVE  1 \in DOMAIN ring[l] /\ Head(ring[l]) = ring[l][1] /\ Head(ring[l]) \in Message
BY InTheRing DEF TypeOK

(* The daemon that goes without a trace leaves nothing behind.             *)
LEMMA NoTrace ==
  ASSUME TypeOK, Leaves, "restart" \notin mishap'
  PROVE  /\ \A x \in Items : Home(x) = User => x \notin registered /\ x \notin dm[Kernel] \cup slots[Kernel]
         /\ transferred \cap registered = {} /\ ring[User] = <<>> /\ ring' = ring
         /\ \A i \in DOMAIN ring[Kernel] : ring[Kernel][i].type = "EMPTY"
         /\ \A t \in Threads : op[t] = "idle" /\ op'[t] = "idle"
<1>1. ~Leftover
  BY DEF Leaves, DestroySLC, Unmap, Gone, Note
<1>2. \A t \in Threads : op[t] = "idle" => op'[t] = "idle"
  BY DEF Leaves, DestroySLC, Unmap, Gone
<1>. QED
  BY <1>1, <1>2 DEF Leftover, Leaves, DestroySLC, Unmap, Gone

(* A layer sends news of its own items, and the daemon an empty request.   *)
LEMMA NextRingOwn == ASSUME TypeOK, CallsOwn, RingOwn, Usual PROVE RingOwn'
<1>. SUFFICES ASSUME NEW l \in Layers, NEW i \in DOMAIN ring'[l]
              PROVE  /\ ring'[l][i].type \in {"DM_ADD", "DM_DEL", "QUERY_ADD", "QUERY_DEL"} =>
                          Home(ring'[l][i].what) = l
                     /\ l = User /\ ring'[l][i].type = "DM_SNAPSHOT" => ring'[l][i].what = {}
  BY DEF RingOwn
<1>1. CASE \E j \in DOMAIN ring[l] : ring'[l][i] = ring[l][j]
  BY <1>1 DEF RingOwn
<1>2. ASSUME NEW t \in Threads, LayerOf[t] = l, SendDM(t) \/ SendQuery(t)
      PROVE  Home(arg[t]) = l
  BY <1>2, InCall, LinkAssumption DEF Items
<1>3. Kernel # User
  BY LinkAssumption
<1>. QED
  BY <1>1, <1>2, <1>3, Sent DEF Writes, Is

(* What is registered is had at home.                                      *)
LEMMA NextHomeHas ==
  ASSUME TypeOK, CallsOwn, CallsKnow, RingOwn, HomeHas, UsedIsThere, GoneIsGone, RequestFirst, Usual
  PROVE  HomeHas'
<1>0. mishap \subseteq mishap' /\ Providers \subseteq Items /\ Queries \subseteq Items
  BY NextHistory DEF Items
<1>1. ASSUME NEW x \in Items, x \in registered'
      PROVE  x \notin fresh'
  BY <1>1, Registers DEF HomeHas
<1>2. ASSUME NEW p \in Providers, p \in registered'
      PROVE  p \in dm'[Home(p)]
  <2>1. CASE p \notin registered
    BY <1>0, <1>2, <2>1, Registers, LinkAssumption DEF Home
  <2>2. CASE p \in registered /\ p \notin dm'[Home(p)]
    <3>1. p \in dm[Home(p)] /\ Home(p) \in Layers
      BY <1>0, <2>2, Peers DEF HomeHas
    <3>2. ASSUME NEW t \in Threads, unregisterProvider(t, p)
          PROVE  FALSE
      BY <1>2, <3>2 DEF unregisterProvider
    <3>3. ASSUME ring[Peer(Home(p))] # <<>>, Head(ring[Peer(Home(p))]).what = p,
                 ReceiveDel(Home(p), Head(ring[Peer(Home(p))]))
          PROVE  FALSE
      <4>1. Home(p) = Peer(Home(p))
        BY <3>1, <3>3, TheHead, Peers DEF ReceiveDel, RingOwn
      <4>. QED
        BY <3>1, <4>1, Peers
    <3>4. ASSUME Leaves, Home(p) = User
          PROVE  FALSE
      BY <1>0, <1>2, <3>4 DEF Leaves, DestroySLC, Unmap, Gone
    <3>. QED
      BY <2>2, <3>1, <3>2, <3>3, <3>4, TreeGoes
  <2>. QED
    BY <2>1, <2>2
<1>3. ASSUME None({"memory", "restart"})', NEW p \in Providers, p \in dm'[Home(p)]
      PROVE  p \in registered'
  <2>0. None({"memory", "restart"}) /\ "restart" \notin mishap'
    BY <1>0, <1>3 DEF None
  <2>1. Home(p) \in Layers /\ Peer(Home(p)) \in Layers /\ Peer(Home(p)) # Home(p)
    BY <1>0, Peers
  <2>2. CASE p \in dm[Home(p)]
    <3>1. p \in registered
      BY <1>0, <1>3, <2>0, <2>2 DEF HomeHas
    <3>2. ASSUME NEW t \in Threads, OwnerOf[p] = t, p \notin dm'[LayerOf[t]]
          PROVE  FALSE
      BY <1>3, <3>2 DEF Home
    <3>3. ASSUME Leaves, Home(p) = User
          PROVE  FALSE
      BY <1>0, <1>3, <2>0, <3>1, <3>3, NoTrace
    <3>. QED
      BY <1>0, <3>1, <3>2, <3>3, Registers, LinkAssumption
  <2>3. CASE p \notin dm[Home(p)]
    <3>. DEFINE m == Head(ring[Peer(Home(p))])
    <3>1. ASSUME ring[Peer(Home(p))] # <<>>, Adds(m, p), m.type \in {"DM_ADD", "DM_SNAPSHOT"}
          PROVE  FALSE
      <4>1. /\ 1 \in DOMAIN ring[Peer(Home(p))] /\ m = ring[Peer(Home(p))][1]
        BY <2>1, <3>1, TheHead
      <4>2. CASE m.type = "DM_ADD"
        BY <2>1, <3>1, <4>1, <4>2 DEF Adds, RingOwn
      <4>3. CASE m.type = "DM_SNAPSHOT"
        <5>1. p \in m.what
          BY <3>1, <4>3 DEF Adds
        <5>2. CASE Peer(Home(p)) = User
          BY <4>1, <4>3, <5>1, <5>2, Peers DEF RingOwn
        <5>3. CASE Peer(Home(p)) = Kernel
          <6>1. Home(p) = User
            BY <2>1, <5>3, Peers
          <6>. QED
            BY <1>0, <1>3, <2>0, <4>1, <4>3, <5>1, <5>3, <6>1 DEF RequestFirst, UserFree
        <5>. QED
          BY <2>1, <5>2, <5>3, Peers
      <4>. QED
        BY <3>1, <4>2, <4>3
    <3>. QED
      BY <1>3, <2>1, <2>3, <3>1, TreeComes
  <2>. QED
    BY <2>2, <2>3
<1>4. ASSUME NEW q \in Queries, q \in slots'[Home(q)]
      PROVE  q \in registered'
  <2>1. Home(q) \in Layers /\ Peer(Home(q)) \in Layers /\ Peer(Home(q)) # Home(q)
    BY <1>0, Peers
  <2>2. CASE q \in slots[Home(q)]
    <3>1. q \in registered
      BY <2>2 DEF HomeHas
    <3>2. ASSUME NEW t \in Threads, OwnerOf[q] = t, q \notin slots'[LayerOf[t]]
          PROVE  FALSE
      BY <1>4, <3>2 DEF Home
    <3>3. ASSUME Leaves, Home(q) = User
          PROVE  FALSE
      BY <1>4, <2>1, <3>3 DEF Leaves, DestroySLC, Unmap, Gone, TypeOK
    <3>. QED
      BY <1>0, <3>1, <3>2, <3>3, Registers, LinkAssumption
  <2>3. CASE q \notin slots[Home(q)]
    <3>1. ASSUME ring[Peer(Home(q))] # <<>>, ReceiveQueryAdd(Home(q), Head(ring[Peer(Home(q))])),
                 Head(ring[Peer(Home(q))]).what = q
          PROVE  FALSE
      BY <2>1, <3>1, TheHead DEF ReceiveQueryAdd, RingOwn
    <3>. QED
      BY <1>4, <2>1, <2>3, <3>1, QueryComes
  <2>. QED
    BY <2>2, <2>3
<1>5. ASSUME None({"unregistered", "memory", "restart"})', NEW q \in Queries, q \in registered'
      PROVE  q \in slots'[Home(q)]
  <2>1. Home(q) \in Layers /\ Peer(Home(q)) \in Layers /\ Peer(Home(q)) # Home(q)
    BY <1>0, Peers
  <2>2. None({"unregistered", "memory", "restart"})
    BY <1>0, <1>5 DEF None
  <2>3. CASE q \notin registered
    BY <1>0, <1>5, <2>3, Registers, LinkAssumption DEF Home
  <2>4. CASE q \in registered /\ q \notin slots'[Home(q)]
    <3>1. q \in slots[Home(q)] /\ InUse(NodeOf[q]) /\ NodeOf[q] \in Providers
      BY <2>2, <2>4, LinkAssumption DEF HomeHas, InUse, At
    <3>2. NodeOf[q] \in dm[Home(NodeOf[q])] /\ NodeOf[q] \in registered
      BY <2>2, <3>1 DEF UsedIsThere, HomeHas, None
    <3>3. ASSUME NEW t \in Threads, OwnerOf[q] = t, q \notin registered'
          PROVE  FALSE
      BY <1>5, <3>3
    <3>4. ASSUME NEW t \in Threads, unregisterProvider(t, NodeOf[q])
          PROVE  FALSE
      BY <1>5, <3>1, <3>4 DEF unregisterProvider, Note, None
    <3>5. ASSUME ring[Peer(Home(q))] # <<>>, Head(ring[Peer(Home(q))]).what = NodeOf[q],
                 ReceiveDel(Home(q), Head(ring[Peer(Home(q))]))
          PROVE  FALSE
      BY <2>1, <2>2, <3>2, <3>5, TheHead DEF ReceiveDel, GoneIsGone, None
    <3>6. ASSUME ring[Peer(Home(q))] # <<>>, Head(ring[Peer(Home(q))]).what = q,
                 ReceiveQueryDel(Home(q), Head(ring[Peer(Home(q))]))
          PROVE  FALSE
      BY <2>1, <3>6, TheHead DEF ReceiveQueryDel, RingOwn
    <3>7. ASSUME Leaves, Home(q) = User
          PROVE  FALSE
      BY <1>0, <1>5, <3>7 DEF Leaves, DestroySLC, Unmap, Gone
    <3>. QED
      BY <2>1, <2>4, <3>1, <3>3, <3>4, <3>5, <3>6, <3>7, QueryGoes
  <2>. QED
    BY <2>3, <2>4
<1>6. registered' \subseteq Items
  BY NextCallsType DEF CallsType
<1>. QED
  BY <1>1, <1>2, <1>3, <1>4, <1>5, <1>6 DEF HomeHas, None

(* A thread begins a call for a query by looking for its node.             *)
LEMMA CallBegins ==
  ASSUME TypeOK, CallsOwn, Usual, NEW t \in Threads, arg'[t] \in Queries
  PROVE  \/ arg[t] = arg'[t] /\ (op'[t] \in {"checkedAdd", "checkedDel"} => op[t] = op'[t])
         \/ CheckAdd(t, arg'[t]) \/ CheckDel(t, arg'[t])
<1>. USE DEF calls
<1>0. CallsType /\ Nothing \notin Queries /\ Providers \cap Queries = {}
  BY TypeParts, LinkAssumption DEF Items
<1>1. ASSUME NEW k \in Threads, NEW p \in Providers,
             registerProvider(k, p) \/ unregisterProvider(k, p)
      PROVE  arg[t] = arg'[t] /\ op[t] = op'[t]
  BY <1>0, <1>1 DEF registerProvider, unregisterProvider, Goto, CallsType
<1>2. ASSUME NEW k \in Threads, NEW q \in Queries, CheckAdd(k, q) \/ CheckDel(k, q)
      PROVE  \/ arg[t] = arg'[t] /\ op[t] = op'[t]
             \/ CheckAdd(t, arg'[t]) \/ CheckDel(t, arg'[t])
  <2>1. CASE k = t
    <3>1. arg'[t] = q
      BY <1>0, <1>2, <2>1 DEF CheckAdd, CheckDel, Check, Goto, CallsType
    <3>. QED
      BY <1>2, <2>1, <3>1
  <2>2. CASE k # t
    BY <1>0, <1>2, <2>2 DEF CheckAdd, CheckDel, Check, Goto, CallsType
  <2>. QED
    BY <2>1, <2>2
<1>3. ASSUME NEW k \in Threads,
             NoNode(k) \/ addQueries(k) \/ delQueries(k) \/ SendDM(k) \/ SendQuery(k)
      PROVE  arg[t] = arg'[t] /\ (op'[t] \in {"checkedAdd", "checkedDel"} => op[t] = op'[t])
  BY <1>0, <1>3 DEF NoNode, addQueries, delQueries, SendDM, SendQuery, Goto, CallsType
<1>4. ASSUME NEW k, NEW m, Handle(k, m)
      PROVE  arg[t] = arg'[t] /\ op[t] = op'[t]
  BY <1>4
  DEF Handle, ReceiveAdd, ReceiveDel, ReceiveQueryAdd, ReceiveQueryDel, ReceiveContinue,
      ReceiveRequest, ReceiveSnapshot, ReceiveEmpty, Untimely
<1>5. ASSUME NEW k, NEW q, sendQueryContinue(k, q)
      PROVE  arg[t] = arg'[t] /\ op[t] = op'[t]
  BY <1>5 DEF sendQueryContinue
<1>6. CASE InitLayer \/ RequestSnapshot \/ InitSLC \/ DestroySLC \/ ExitLayer \/ Unmap
  BY <1>0, <1>6 DEF InitLayer, RequestSnapshot, InitSLC, DestroySLC, ExitLayer, Unmap, Gone, CallsType
<1>. QED
  BY <1>1, <1>2, <1>3, <1>4, <1>5, <1>6, Steps DEF TypeOK

(* Whatever counts on a provider did so before, or finds it.               *)
LEMMA UseBegins ==
  ASSUME TypeOK, CallsOwn, Usual, "unregistered" \notin mishap', NEW p \in Providers, InUse(p)'
  PROVE  InUse(p) \/ (p \in dm[Home(p)] /\ dm' = dm)
<1>0. Providers \cap Queries = {} /\ Nothing \notin Queries /\ Queries \subseteq Items
  BY LinkAssumption DEF Items
<1>1. PICK q \in At(p) : \/ q \in registered' \/ \E l \in Layers : q \in slots'[l]
                         \/ \E t \in Threads : arg'[t] = q
                         \/ \E l \in Layers : \E i \in DOMAIN ring'[l] :
                              ring'[l][i].type # "DM_SNAPSHOT" /\ ring'[l][i].what = q
  BY DEF InUse, At
<1>2. q \in Queries /\ NodeOf[q] = p
  BY DEF At
<1>3. ASSUME \/ q \in registered \/ \E l \in Layers : q \in slots[l]
             \/ \E t \in Threads : arg[t] = q
             \/ \E l \in Layers : \E i \in DOMAIN ring[l] :
                  ring[l][i].type # "DM_SNAPSHOT" /\ ring[l][i].what = q
      PROVE  InUse(p)
  BY <1>3 DEF InUse
<1>4. CASE q \in registered'
  BY <1>0, <1>2, <1>3, <1>4, Registers
<1>5. ASSUME NEW l \in Layers, q \in slots'[l]
      PROVE  InUse(p)
  <2>1. ASSUME ring[Peer(l)] # <<>>, ReceiveQueryAdd(l, Head(ring[Peer(l)])),
               Head(ring[Peer(l)]).what = q
        PROVE  InUse(p)
    BY <1>3, <2>1, TheHead, Peers DEF ReceiveQueryAdd
  <2>. QED
    BY <1>3, <1>5, <2>1, QueryComes
<1>6. ASSUME NEW t \in Threads, arg'[t] = q, ~InUse(p)
      PROVE  p \in dm[Home(p)] /\ dm' = dm
  <2>1. CheckAdd(t, q) \/ CheckDel(t, q)
    BY <1>2, <1>3, <1>6, CallBegins
  <2>. QED
    BY <1>2, <2>1 DEF CheckAdd, CheckDel, Check, Note, sides
<1>7. ASSUME NEW l \in Layers, NEW i \in DOMAIN ring'[l],
             ring'[l][i].type # "DM_SNAPSHOT", ring'[l][i].what = q
      PROVE  InUse(p)
  <2>1. ASSUME NEW t \in Threads, SendDM(t), arg[t] = q
        PROVE  FALSE
    BY <1>0, <1>2, <2>1, InCall
  <2>2. ASSUME NEW x \in Queries, sendQueryContinue(l, x), x = q
        PROVE  InUse(p)
    BY <1>3, <2>2 DEF sendQueryContinue
  <2>. QED
    BY <1>0, <1>2, <1>3, <1>7, <2>1, <2>2, Sent DEF Writes, Is
<1>. QED
  BY <1>1, <1>4, <1>5, <1>6, <1>7

(* A provider that is counted on is there.                                 *)
LEMMA NextUsedIsThere ==
  ASSUME TypeOK, CallsOwn, RingOwn, HomeHas, UsedIsThere, Usual
  PROVE  UsedIsThere'
<1>. SUFFICES ASSUME None({"unregistered", "memory", "restart"})', NEW p \in Providers, InUse(p)'
              PROVE  p \in dm'[Home(p)]
  BY DEF UsedIsThere
<1>1. None({"unregistered", "memory", "restart"}) /\ "unregistered" \notin mishap' /\ "restart" \notin mishap'
  BY NextHistory DEF None
<1>2. p \in Items /\ Home(p) \in Layers /\ Peer(Home(p)) \in Layers /\ Peer(Home(p)) # Home(p)
  BY Peers DEF Items
<1>3. CASE ~InUse(p)
  BY <1>1, <1>3, UseBegins
<1>4. CASE InUse(p) /\ p \notin dm'[Home(p)]
  <2>1. p \in dm[Home(p)] /\ p \in registered
    BY <1>1, <1>4 DEF UsedIsThere, HomeHas, None
  <2>2. ASSUME NEW t \in Threads, unregisterProvider(t, p)
        PROVE  FALSE
    BY <1>1, <1>4, <2>2 DEF unregisterProvider, Note
  <2>3. ASSUME ring[Peer(Home(p))] # <<>>, ReceiveDel(Home(p), Head(ring[Peer(Home(p))])),
               Head(ring[Peer(Home(p))]).what = p
        PROVE  FALSE
    BY <1>2, <2>3, TheHead DEF ReceiveDel, RingOwn
  <2>4. ASSUME Leaves, Home(p) = User
        PROVE  FALSE
    BY <1>1, <1>2, <2>1, <2>4, NoTrace
  <2>. QED
    BY <1>2, <1>4, <2>1, <2>2, <2>3, <2>4, TreeGoes
<1>. QED
  BY <1>3, <1>4

(* The news that something is gone is about what is gone for good.         *)
LEMMA NextGoneIsGone ==
  ASSUME TypeOK, CallsOwn, CallsKnow, HomeHas, GoneIsGone, Usual
  PROVE  GoneIsGone'
<1>. SUFFICES ASSUME None({"memory", "restart"})', NEW l \in Layers, NEW i \in DOMAIN ring'[l],
                     ring'[l][i].type \in {"DM_DEL", "QUERY_DEL"}
              PROVE  ring'[l][i].what \notin registered' \cup fresh'
  BY DEF GoneIsGone
<1>0. /\ None({"memory", "restart"}) /\ "restart" \notin mishap'
      /\ Queries \subseteq Items /\ Providers \subseteq Items
  BY NextHistory DEF Items, None
<1>1. ASSUME NEW j \in DOMAIN ring[l], ring'[l][i] = ring[l][j]
      PROVE  ring'[l][i].what \notin registered' \cup fresh'
  <2>. DEFINE x == ring[l][j].what
  <2>1. x \in Items /\ x \notin registered /\ x \notin fresh /\ ring[l][j].type # "EMPTY"
    BY <1>0, <1>1, InRings DEF GoneIsGone
  <2>2. ASSUME NEW t \in Threads, addQueries(t), arg[t] = x
        PROVE  FALSE
    BY <2>1, <2>2 DEF addQueries, CallsKnow
  <2>3. ~Leaves
    <3>1. ASSUME Leaves
          PROVE  l = Kernel /\ ring[l][j].type = "EMPTY"
      BY <1>0, <3>1, NoTrace, Peers, InTheRing DEF TypeOK, Layers
    <3>. QED
      BY <2>1, <3>1
  <2>. HIDE DEF x
  <2>4. x \notin registered' \cup fresh'
    BY <2>1, <2>2, <2>3, Registers DEF Leaves
  <2>. QED
    BY <1>1, <2>4 DEF x
<1>2. ASSUME NEW t \in Threads, SendDM(t) \/ SendQuery(t), op[t] \in {"sendDMDel", "sendDelQuery"}
      PROVE  arg[t] \notin registered' \cup fresh'
  BY <1>2 DEF SendDM, SendQuery, CallsKnow
<1>3. ASSUME NEW t \in Threads, SendDM(t), op[t] # "sendDMAdd"
      PROVE  op[t] = "sendDMDel"
  BY <1>3 DEF SendDM
<1>4. ASSUME NEW t \in Threads, SendQuery(t), op[t] # "sendAddQuery"
      PROVE  op[t] = "sendDelQuery"
  BY <1>4 DEF SendQuery
<1>. QED
  BY <1>1, <1>2, <1>3, <1>4, Sent DEF Writes, Is

(* Between the check and the call that counts on it, the node stays.       *)
LEMMA NextCheckedHasNode ==
  ASSUME TypeOK, CallsOwn, HomeHas, UsedIsThere, GoneIsGone, CheckedHasNode, Usual
  PROVE  CheckedHasNode'
<1>. SUFFICES ASSUME None({"unregistered", "memory", "restart"})', NEW t \in Threads,
                     op'[t] \in {"checkedAdd", "checkedDel"}
              PROVE  NodeOf[arg'[t]] \in dm'[LayerOf[t]]
  BY DEF CheckedHasNode
<1>1. None({"unregistered", "memory", "restart"}) /\ "unregistered" \notin mishap' /\ "restart" \notin mishap'
  BY NextHistory DEF None
<1>2. /\ LayerOf[t] \in Layers /\ Peer(LayerOf[t]) \in Layers /\ arg'[t] \in Queries
      /\ NodeOf[arg'[t]] \in Providers
  BY NextCallsOwn, Peers, LinkAssumption DEF CallsOwn
<1>3. CASE CheckAdd(t, arg'[t]) \/ CheckDel(t, arg'[t])
  BY <1>3 DEF CheckAdd, CheckDel, Check, sides
<1>4. CASE arg[t] = arg'[t] /\ op[t] = op'[t] /\ NodeOf[arg'[t]] \notin dm'[LayerOf[t]]
  <2>. DEFINE p == NodeOf[arg[t]]
  <2>1. p \in dm[LayerOf[t]] /\ InUse(p) /\ p \in Providers
    BY <1>1, <1>2, <1>4 DEF CheckedHasNode, InUse, At
  <2>2. p \in registered
    BY <1>1, <2>1 DEF UsedIsThere, HomeHas, None
  <2>. HIDE DEF p
  <2>3. ASSUME NEW k \in Threads, unregisterProvider(k, p)
        PROVE  FALSE
    BY <1>1, <2>1, <2>3 DEF unregisterProvider, Note
  <2>4. ASSUME ring[Peer(LayerOf[t])] # <<>>, Head(ring[Peer(LayerOf[t])]).what = p,
               ReceiveDel(LayerOf[t], Head(ring[Peer(LayerOf[t])]))
        PROVE  FALSE
    BY <1>1, <1>2, <2>2, <2>4, TheHead DEF ReceiveDel, GoneIsGone, None
  <2>5. ASSUME Leaves
        PROVE  FALSE
    BY <1>1, <1>4, <2>5, NoTrace
  <2>6. p \notin dm'[LayerOf[t]]
    BY <1>4 DEF p
  <2>. QED
    BY <1>2, <2>1, <2>3, <2>4, <2>5, <2>6, TreeGoes
<1>. QED
  BY <1>2, <1>3, <1>4, CallBegins

(* What is registered is sent, or in the hands of the thread that sends it.*)
LEMMA NextRegisteredIsSent ==
  ASSUME TypeOK, CallsOwn, RegisteredIsSent, Usual
  PROVE  RegisteredIsSent'
<1>. SUFFICES ASSUME "memory" \notin mishap', NEW q \in Queries, q \in registered',
                     Home(q) = User \/ "unsent" \notin mishap'
              PROVE  q \in transferred' \/ About(q)' = "sendAddQuery"
  BY DEF RegisteredIsSent
<1>. DEFINE t == OwnerOf[q]
<1>0. /\ q \in Items /\ t \in Threads /\ Home(q) = LayerOf[t] /\ LayerOf[t] \in Layers
      /\ mishap \subseteq mishap' /\ Nothing \notin Queries
      /\ Kernel # User /\ Providers \cap Queries = {}
  BY Peers, NextHistory, LinkAssumption DEF Items, Home
<1>1. CASE q \notin registered
  <2>1. addQueries(t) /\ arg[t] = q
    BY <1>0, <1>1, Registers
  <2>2. op'[t] = "sendAddQuery" /\ arg'[t] = q
    <3>1. ~Full(LayerOf[t], q)
      BY <1>1, <2>1 DEF addQueries
    <3>2. EndpointConnected(LayerOf[t])
      BY <1>0, <2>1, <3>1 DEF addQueries, Note, EndpointConnected
    <3>. QED
      BY <1>0, <2>1, <3>1, <3>2 DEF addQueries, ShouldTransfer, Goto, TypeOK
  <2>. QED
    BY <2>2 DEF About
<1>2. CASE q \in registered /\ q \in transferred
  BY <1>0, <1>2, Transfers, Registers DEF Leaves, DestroySLC, Unmap, Gone
<1>3. CASE q \in registered /\ About(q) = "sendAddQuery"
  <2>1. arg[t] = q /\ op[t] = "sendAddQuery"
    BY <1>3 DEF About
  <2>2. CASE op'[t] = op[t] /\ arg'[t] = arg[t]
    BY <2>1, <2>2 DEF About
  <2>3. CASE SendQuery(t)
    BY <2>1, <2>3 DEF SendQuery
  <2>4. CASE Leaves /\ LayerOf[t] = User
    BY <1>0, <2>4 DEF Leaves, DestroySLC, Unmap, Gone
  <2>. QED
    BY <1>0, <2>1, <2>2, <2>3, <2>4, CallSteps
    DEF registerProvider, unregisterProvider, addQueries, delQueries, SendDM, Leaves
<1>. QED
  BY <1>0, <1>1, <1>2, <1>3 DEF RegisteredIsSent

(* Until the kernel has handled the request, nothing comes from the daemon.*)
LEMMA NextRequestFirst ==
  ASSUME TypeOK, CallsOwn, RingOwn, RequestFirst, Usual
  PROVE  RequestFirst'
<1>. SUFFICES ASSUME None({"memory", "restart"})'
              PROVE  RequestFirst'
  BY DEF RequestFirst
<1>. DEFINE s == ring[User]
<1>0. /\ None({"memory", "restart"}) /\ "restart" \notin mishap'
      /\ Kernel # User /\ Kernel \in Layers /\ User \in Layers
      /\ Peer(Kernel) = User /\ Peer(User) = Kernel
      /\ s \in Seq(Message) /\ Len(s) \in Nat /\ DOMAIN s = 1 .. Len(s)
  BY NextHistory, Peers, InTheRing, LinkAssumption DEF TypeOK, None
<1>1. /\ daemon \in {"down", "mapped"} => s = <<>>
      /\ \A i \in DOMAIN s : /\ daemon = "requested" => s[i].type = "DM_SNAPSHOT"
                             /\ s[i].type = "DM_SNAPSHOT" => i = 1 /\ UserFree(dm[Kernel])
      /\ daemon \in {"down", "mapped", "requested"} => UserFree(dm[Kernel])
      /\ \A i \in DOMAIN ring[Kernel] :
           ring[Kernel][i].type = "DM_SNAPSHOT" => UserFree(ring[Kernel][i].what)
  BY <1>0 DEF RequestFirst
<1>2. ASSUME UserFree(dm[Kernel]), s = <<>> \/ s[1].type = "DM_SNAPSHOT"
      PROVE  UserFree(dm'[Kernel])
  <2>1. ASSUME NEW x \in dm'[Kernel], Home(x) = User
        PROVE  FALSE
    <3>1. x \notin dm[Kernel]
      BY <1>2, <2>1 DEF UserFree
    <3>2. s # <<>> /\ Adds(Head(s), x) /\ Head(s).type \in {"DM_ADD", "DM_SNAPSHOT"}
      BY <1>0, <2>1, <3>1, TreeComes DEF Home
    <3>3. Head(s) = s[1] /\ 1 \in DOMAIN s
      BY <1>0, <3>2, TheHead
    <3>. QED
      BY <1>0, <1>2, <3>2, <3>3 DEF Adds, RingOwn
  <2>. QED
    BY <2>1 DEF UserFree
<1>3. CASE Leaves
  BY <1>0, <1>3, NoTrace DEF Leaves, DestroySLC, Unmap, Gone, RequestFirst, UserFree, TypeOK, Items
<1>4. ASSUME NEW m, Writes(User, m)
      PROVE  \/ m.type # "DM_SNAPSHOT" /\ daemon = "up" /\ daemon' = "up"
             \/ m.type = "DM_SNAPSHOT" /\ daemon = "mapped" /\ daemon' = "requested"
  BY <1>0, <1>4 DEF Writes, Is, Alive, SendDM, SendQuery, sendQueryContinue, RequestSnapshot, daemonVars
<1>. HIDE DEF s
<1>5. /\ \/ ring'[User] = s
         \/ \E m \in Message : ring'[User] = Append(s, m) /\ Writes(User, m)
         \/ s # <<>> /\ ring'[User] = Tail(s)
  BY <1>0, RingSteps DEF s
<1>6. ASSUME ~Leaves, daemon' \in {"down", "mapped"}
      PROVE  ring'[User] = <<>>
  <2>1. daemon \in {"down", "mapped"}
    BY <1>6, DaemonSteps DEF Leaves
  <2>. QED
    BY <1>1, <1>4, <1>5, <1>6, <2>1
<1>7. ASSUME ~Leaves, NEW i \in DOMAIN ring'[User]
      PROVE  /\ daemon' = "requested" => ring'[User][i].type = "DM_SNAPSHOT"
             /\ ring'[User][i].type = "DM_SNAPSHOT" => i = 1 /\ UserFree(dm'[Kernel])
  <2>1. daemon' = "requested" => daemon \in {"mapped", "requested"}
    BY DaemonSteps
  <2>2. CASE ring'[User] = s
    <3>1. daemon' = "requested" => daemon = "requested"
      BY <1>0, <1>1, <1>7, <2>1, <2>2
    <3>. QED
      BY <1>0, <1>1, <1>2, <1>7, <2>2, <3>1
  <2>3. ASSUME NEW m \in Message, ring'[User] = Append(s, m), Writes(User, m)
        PROVE  /\ daemon' = "requested" => ring'[User][i].type = "DM_SNAPSHOT"
               /\ ring'[User][i].type = "DM_SNAPSHOT" => i = 1 /\ UserFree(dm'[Kernel])
    <3>1. /\ i \in 1 .. Len(s) + 1
          /\ i \in 1 .. Len(s) => ring'[User][i] = s[i]
          /\ i = Len(s) + 1 => ring'[User][i] = m
      BY <1>0, <1>7, <2>3
    <3>2. CASE i \in 1 .. Len(s)
      BY <1>0, <1>1, <1>2, <1>4, <2>3, <3>1, <3>2
    <3>3. CASE i = Len(s) + 1
      BY <1>0, <1>1, <1>2, <1>4, <2>3, <3>1, <3>3
    <3>. QED
      BY <3>1, <3>2, <3>3, <1>0
  <2>4. CASE s # <<>> /\ ring'[User] = Tail(s)
    <3>1. i \in 1 .. Len(s) - 1 /\ ring'[User][i] = s[i + 1] /\ i + 1 \in DOMAIN s
      BY <1>0, <1>7, <2>4
    <3>. QED
      BY <1>0, <1>1, <2>1, <2>4, <3>1
  <2>. QED
    BY <1>5, <2>2, <2>3, <2>4
<1>8. ASSUME ~Leaves, daemon' \in {"down", "mapped", "requested"}
      PROVE  UserFree(dm'[Kernel])
  <2>1. daemon \in {"down", "mapped", "requested"}
    BY <1>8, DaemonSteps DEF Leaves
  <2>2. s = <<>> \/ s[1].type = "DM_SNAPSHOT"
    BY <1>0, <1>1, <2>1
  <2>. QED
    BY <1>1, <1>2, <2>1, <2>2
<1>9. ASSUME NEW i \in DOMAIN ring'[Kernel], ring'[Kernel][i].type = "DM_SNAPSHOT"
      PROVE  UserFree(ring'[Kernel][i].what)
  <2>1. ASSUME s # <<>>, ReceiveRequest(Head(s))
        PROVE  UserFree(dm[Kernel])
    <3>1. Head(s) = s[1] /\ 1 \in DOMAIN s
      BY <1>0, <2>1, TheHead DEF s
    <3>. QED
      BY <1>1, <2>1, <3>1 DEF ReceiveRequest
  <2>. QED
    BY <1>0, <1>1, <1>9, <2>1, Sent DEF Writes, Is, s
<1>. QED
  BY <1>3, <1>6, <1>7, <1>8, <1>9 DEF RequestFirst

(* Without the daemon nothing is on its way to it.                         *)
LEMMA NextNobodyThere ==
  ASSUME TypeOK, CallsOwn, RegisteredIsSent, NobodyThere, Usual
  PROVE  NobodyThere'
<1>. SUFFICES ASSUME Sound', daemon' \in {"down", "flushed"}
              PROVE  NobodyThere'
  BY DEF NobodyThere
<1>. DEFINE s == ring[Kernel]
<1>0. /\ Sound /\ "restart" \notin mishap' /\ Kernel # User /\ Kernel \in Layers /\ User \in Layers
      /\ Peer(Kernel) = User /\ Peer(User) = Kernel /\ Layers = {Kernel, User}
      /\ s \in Seq(Message) /\ Len(s) \in Nat /\ DOMAIN s = 1 .. Len(s) /\ Capacity \in Nat
      /\ Queries \subseteq Items /\ mishap \subseteq mishap' /\ Providers \cap Queries = {}
  BY NextHistory, Peers, InTheRing, LinkAssumption DEF TypeOK, Sound, Items, Layers
<1>1. CASE Leaves
  <2>1. /\ \A i \in DOMAIN ring'[Kernel] : ring'[Kernel][i].type = "EMPTY"
        /\ \A t \in Threads : op[t] = "idle" /\ op'[t] = "idle"
        /\ transferred \cap registered = {}
    BY <1>0, <1>1, NoTrace
  <2>2. dm'[User] = {} /\ slots'[User] = {} /\ daemon' = "down"
    BY <1>0, <1>1 DEF Leaves, DestroySLC, Unmap, Gone, TypeOK
  <2>3. ASSUME mishap' = {}, NEW q \in Queries, Home(q) = Kernel
        PROVE  q \notin registered'
    <3>1. OwnerOf[q] \in Threads /\ op[OwnerOf[q]] = "idle"
      BY <1>0, <2>1, Peers
    <3>2. About(q) = "idle"
      BY <3>1 DEF About
    <3>3. q \notin registered
      BY <1>0, <2>1, <2>3, <3>2 DEF RegisteredIsSent
    <3>. QED
      BY <1>1, <3>3 DEF Leaves, DestroySLC, Unmap, Gone
  <2>. QED
    BY <2>1, <2>2, <2>3 DEF NobodyThere, Has
<1>2. CASE ExitLayer
  <2>1. ring'[Kernel] = [i \in 1 .. Capacity |-> Msg("EMPTY", Nothing)]
    BY <1>0, <1>2 DEF ExitLayer, TypeOK
  <2>2. Len(ring'[Kernel]) = Capacity /\ \A i \in DOMAIN ring'[Kernel] : ring'[Kernel][i].type = "EMPTY"
    BY <1>0, <2>1 DEF Msg
  <2>3. daemon' = "flushed"
    BY <1>2 DEF ExitLayer
  <2>. QED
    BY <2>2, <2>3 DEF NobodyThere
<1>3. CASE daemon' = daemon /\ ~ExitLayer /\ ~Leaves
  <2>1. /\ \A i \in DOMAIN s : s[i].type = "EMPTY"
        /\ daemon = "flushed" => Len(s) = Capacity
        /\ daemon = "down" =>
             /\ Has(User) = {}
             /\ \A t \in Threads : op[t] \notin {"sendAddQuery", "sendDelQuery"}
             /\ mishap = {} => \A q \in Queries : Home(q) = Kernel => q \notin registered
    BY <1>0, <1>3 DEF NobodyThere
  <2>2. ASSUME NEW m, Writes(Kernel, m), Room(Kernel)
        PROVE  FALSE
    <3>1. daemon = "down"
      BY <1>0, <1>3, <2>1, <2>2 DEF Room
    <3>. QED
      BY <1>0, <2>1, <2>2, <3>1 DEF Writes, EndpointConnected, SendQuery, sendQueryContinue
  <2>3. ~Reads(User, Head(s))
    BY <1>0, <1>3 DEF Reads, Alive
  <2>4. ring'[Kernel] = s
    BY <1>0, <1>3, <2>2, <2>3, RingSteps
  <2>5. ~Alive(User)
    BY <1>3 DEF Alive
  <2>6. ASSUME daemon = "down"
        PROVE  dm'[User] = {} /\ slots'[User] = {}
    <3>1. dm[User] = {} /\ slots[User] = {}
      BY <2>1, <2>6 DEF Has
    <3>2. dm'[User] \subseteq dm[User] /\ slots'[User] \subseteq slots[User]
      BY <1>0, <2>5, TreeComes, QueryComes
    <3>. QED
      BY <3>1, <3>2
  <2>7. ASSUME daemon = "down", NEW t \in Threads, op[t] \notin {"sendAddQuery", "sendDelQuery"},
               addQueries(t) \/ delQueries(t)
        PROVE  op'[t] \notin {"sendAddQuery", "sendDelQuery"}
    <3>1. LayerOf[t] # User /\ LayerOf[t] \in Layers
      BY <2>7, Peers DEF CallsOwn, addQueries, delQueries
    <3>2. ~EndpointConnected(LayerOf[t])
      BY <1>0, <2>7, <3>1 DEF EndpointConnected
    <3>. QED
      BY <2>7, <3>2 DEF addQueries, delQueries, Goto, TypeOK
  <2>8. ASSUME daemon = "down", NEW t \in Threads
        PROVE  op'[t] \notin {"sendAddQuery", "sendDelQuery"}
    BY <2>1, <2>7, <2>8, CallSteps
  <2>9. ASSUME daemon = "down", mishap' = {}, NEW q \in Queries, Home(q) = Kernel, q \in registered'
        PROVE  FALSE
    <3>1. q \notin registered
      BY <1>0, <2>1, <2>9
    <3>2. PICK t \in Threads : OwnerOf[q] = t /\ addQueries(t) /\ arg[t] = q
      BY <1>0, <2>9, <3>1, Registers
    <3>3. ~Full(LayerOf[t], q) /\ ~EndpointConnected(LayerOf[t])
      BY <1>0, <2>9, <3>1, <3>2 DEF addQueries, EndpointConnected, Home
    <3>. QED
      BY <2>9, <3>2, <3>3 DEF addQueries, Note
  <2>. QED
    BY <1>3, <2>1, <2>4, <2>6, <2>8, <2>9 DEF NobodyThere, Has
<1>. QED
  BY <1>1, <1>2, <1>3, DaemonSteps DEF Leaves

(* A tree that queries count on does not go, unless it is noted.           *)
LEMMA UsedStays ==
  ASSUME TypeOK, CallsOwn, HomeHas, UsedIsThere, GoneIsGone, Usual,
         None({"unregistered", "memory", "restart"})', NEW l \in Layers, NEW p \in Providers, InUse(p)
  PROVE  /\ \A t \in Threads : ~unregisterProvider(t, p)
         /\ ring[Peer(l)] # <<>> /\ ReceiveDel(l, Head(ring[Peer(l)])) => Head(ring[Peer(l)]).what # p
         /\ p \in dm[l] /\ p \notin dm'[l] => Leaves /\ l = User
<1>1. None({"unregistered", "memory", "restart"}) /\ "unregistered" \notin mishap' /\ Peer(l) \in Layers
  BY NextHistory, Peers DEF None
<1>2. p \in registered
  BY <1>1 DEF UsedIsThere, HomeHas, None
<1>3. ASSUME NEW t \in Threads, unregisterProvider(t, p)
      PROVE  FALSE
  BY <1>1, <1>3 DEF unregisterProvider, Note
<1>4. ASSUME ring[Peer(l)] # <<>>, ReceiveDel(l, Head(ring[Peer(l)])), Head(ring[Peer(l)]).what = p
      PROVE  FALSE
  BY <1>1, <1>2, <1>4, TheHead DEF ReceiveDel, GoneIsGone, None
<1>. QED
  BY <1>3, <1>4, TreeGoes

(* Neither does a query of the other layer go with its node.               *)
LEMMA QueryStays ==
  ASSUME TypeOK, CallsOwn, HomeHas, UsedIsThere, GoneIsGone, Usual, None({"unregistered", "memory", "restart"})',
         NEW l \in Layers, NEW q \in Queries, Home(q) # l, q \in slots[l], q \notin slots'[l]
  PROVE  \/ ring[Peer(l)] # <<>> /\ Head(ring[Peer(l)]).what = q /\ ReceiveQueryDel(l, Head(ring[Peer(l)]))
         \/ Leaves /\ l = User
<1>1. NodeOf[q] \in Providers /\ InUse(NodeOf[q])
  BY LinkAssumption DEF InUse, At
<1>2. ASSUME NEW t \in Threads, OwnerOf[q] = t, LayerOf[t] = l
      PROVE  FALSE
  BY <1>2 DEF Home
<1>. QED
  BY <1>1, <1>2, UsedStays, QueryGoes

(* A query is behind the news of its provider.                             *)
LEMMA NextNodeComesFirst ==
  ASSUME TypeOK, CallsOwn, RingOwn, HomeHas, UsedIsThere, GoneIsGone, NodeComesFirst, Usual
  PROVE  NodeComesFirst'
<1>. SUFFICES ASSUME None({"unregistered", "early", "partial", "memory", "restart"})', NEW l \in Layers,
                     NEW i \in DOMAIN ring'[l], ring'[l][i].type = "QUERY_ADD"
              PROVE  \/ NodeOf[ring'[l][i].what] \in dm'[Peer(l)]
                     \/ \E j \in 1 .. i - 1 : Adds(ring'[l][j], NodeOf[ring'[l][i].what])
  BY DEF NodeComesFirst
<1>. DEFINE s == ring[l]
            q == ring'[l][i].what
            p == NodeOf[q]
            There == p \in dm'[Peer(l)] \/ \E j \in 1 .. i - 1 : Adds(ring'[l][j], p)
<1>0. /\ s \in Seq(Message) /\ Len(s) \in Nat /\ DOMAIN s = 1 .. Len(s) /\ Peer(l) \in Layers
      /\ q \in Queries /\ p \in Providers /\ None({"unregistered", "early", "partial", "memory", "restart"})
      /\ None({"unregistered", "memory", "restart"})' /\ None({"unregistered", "memory", "restart"})
      /\ Kernel # User /\ Peer(Peer(l)) = l /\ Peer(User) = Kernel /\ Providers \cap Queries = {}
  <2>1. q \in Queries
    BY NextTypeOK, InTheRing, MessageFields DEF TypeOK
  <2>. QED
    BY <2>1, NextHistory, InTheRing, Peers, LinkAssumption DEF TypeOK, None
<1>1. ASSUME NEW n \in DOMAIN s, s[n] = ring'[l][i]
      PROVE  /\ InUse(p)
             /\ p \in dm[Peer(l)] \/ \E j \in 1 .. n - 1 : Adds(s[j], p)
  <2>1. InUse(p)
    BY <1>0, <1>1 DEF InUse, At
  <2>. QED
    BY <1>0, <1>1, <2>1 DEF NodeComesFirst
<1>2. ASSUME NEW n \in DOMAIN s, s[n] = ring'[l][i], p \in dm[Peer(l)]
      PROVE  p \in dm'[Peer(l)]
  <2>1. ASSUME Leaves, l = Kernel
        PROVE  FALSE
    BY <1>0, <1>2, <2>1, NoTrace DEF None
  <2>. QED
    BY <1>0, <1>1, <1>2, <2>1, UsedStays, Peers
<1>. HIDE DEF q, p
<1>3. CASE ring'[l] = s
  <2>1. p \in dm[Peer(l)] \/ \E j \in 1 .. i - 1 : Adds(s[j], p)
    BY <1>1, <1>3
  <2>. QED
    BY <1>2, <1>3, <2>1 DEF p, q
<1>4. ASSUME NEW m \in Message, ring'[l] = Append(s, m), Writes(l, m)
      PROVE  There
  <2>1. /\ i \in 1 .. Len(s) + 1
        /\ \A j \in 1 .. Len(s) : ring'[l][j] = s[j]
        /\ ring'[l][Len(s) + 1] = m
    <3>. HIDE DEF s
    <3>. QED BY <1>0, <1>4
  <2>2. CASE i \in 1 .. Len(s)
    <3>1. p \in dm[Peer(l)] \/ \E j \in 1 .. i - 1 : Adds(s[j], p)
      BY <1>0, <1>1, <2>1, <2>2
    <3>. QED
      BY <1>0, <1>2, <2>1, <2>2, <3>1
  <2>3. CASE i = Len(s) + 1
    <3>1. PICK t \in Threads : LayerOf[t] = l /\ SendQuery(t) /\ op[t] = "sendAddQuery" /\ arg[t] = q
      BY <2>1, <2>3, <1>4 DEF Writes, Is, q, SendDM
    <3>2. dm' = dm /\ Told(l, p) /\ InUse(p)
      BY <1>0, <3>1 DEF SendQuery, Note, None, sides, InUse, At, p
    <3>3. p \in dm[Peer(l)] \/ \E j \in 1 .. Len(s) : Adds(s[j], p)
      <4>1. CASE Home(p) # l
        <5>1. Home(p) = Peer(l)
          BY <1>0, <4>1, Peers DEF Items
        <5>. QED
          BY <1>0, <3>2, <5>1 DEF UsedIsThere
      <4>2. CASE Home(p) = l
        BY <1>0, <3>2, <4>2 DEF Told
      <4>. QED
        BY <4>1, <4>2
    <3>. QED
      BY <1>0, <2>1, <2>3, <3>2, <3>3
  <2>. QED
    BY <1>0, <2>1, <2>2, <2>3
<1>5. ASSUME s # <<>>, ring'[l] = Tail(s), Reads(Peer(l), Head(s))
      PROVE  There
  <2>1. /\ Len(s) > 0 /\ i \in 1 .. Len(s) - 1
        /\ \A j \in 1 .. Len(s) - 1 : ring'[l][j] = s[j + 1]
        /\ Head(s) = s[1] /\ 1 \in DOMAIN s
    <3>. HIDE DEF s
    <3>. QED BY <1>0, <1>5
  <2>2. PICK n \in DOMAIN s : n = i + 1 /\ s[n] = ring'[l][i]
    BY <1>0, <2>1
  <2>3. CASE p \in dm[Peer(l)]
    BY <1>2, <2>2, <2>3
  <2>4. ASSUME NEW j \in 1 .. n - 1, Adds(s[j], p), j # 1
        PROVE  There
    <3>1. j - 1 \in 1 .. i - 1 /\ ring'[l][j - 1] = s[j]
      BY <1>0, <2>1, <2>2, <2>4
    <3>. QED
      BY <2>4, <3>1
  <2>5. CASE Adds(Head(s), p)
    <3>. DEFINE m == Head(s)
    <3>1. \/ m.type = "DM_ADD" /\ m.what = p
          \/ m.type = "QUERY_ADD" /\ m.what = p
          \/ m.type = "DM_SNAPSHOT" /\ p \in m.what
      BY <2>5 DEF Adds
    <3>2. m.type = "QUERY_ADD" => m.what \in Queries
      BY <2>1, InRings
    <3>3. CASE m.type = "DM_ADD" /\ m.what = p
      <4>1. ReceiveAdd(Peer(l), m)
        BY <1>5, <3>3
        DEF Reads, ReceiveAdd, ReceiveDel, ReceiveQueryAdd, ReceiveQueryDel, ReceiveContinue,
            ReceiveRequest, ReceiveSnapshot, ReceiveEmpty
      <4>. QED
        BY <1>0, <3>3, <4>1 DEF ReceiveAdd, TypeOK
    <3>4. CASE m.type = "DM_SNAPSHOT" /\ p \in m.what
      <4>1. Peer(l) = Kernel => m.what = {}
        BY <1>0, <2>1, <3>4, Peers DEF RingOwn
      <4>2. ReceiveSnapshot(m) /\ Peer(l) = User
        BY <1>5, <3>4, <4>1
        DEF Reads, ReceiveAdd, ReceiveDel, ReceiveQueryAdd, ReceiveQueryDel, ReceiveContinue,
            ReceiveRequest, ReceiveSnapshot, ReceiveEmpty
      <4>3. m.what \subseteq dm'[User]
        BY <1>0, <4>2 DEF ReceiveSnapshot, Note, None
      <4>. QED
        BY <3>4, <4>2, <4>3
    <3>. QED
      BY <1>0, <3>1, <3>2, <3>3, <3>4
  <2>. QED
    BY <1>1, <2>1, <2>2, <2>3, <2>4, <2>5
<1>6. CASE ring'[l] = [n \in 1 .. Capacity |-> Msg("EMPTY", Nothing)]
  BY <1>6 DEF Msg
<1>7. There
  BY <1>3, <1>4, <1>5, <1>6, RingSteps DEF p, q
<1>. QED
  BY <1>7 DEF p, q

(* What happens that is fatal has its cause.                               *)
LEMMA NextFatalHasCause ==
  ASSUME TypeOK, CallsOwn, CheckedHasNode, NodeComesFirst, KernelCanForget, Usual
  PROVE  FatalHasCause'
<1>. USE DEF Fail
<1>. DEFINE Explained(l, what) ==
              /\ what = "NULL" => mishap' \cap {"unregistered", "early", "untimely", "partial", "memory", "restart"} # {}
              /\ what = "lock" => mishap' \cap {"refused", "unregistered", "memory", "restart"} # {}
<1>0. mishap \subseteq mishap' /\ fatal = {} /\ Peer(Kernel) = User
  BY NextHistory, Steps, Peers DEF TypeOK
<1>1. ASSUME NEW t \in Threads, NoNode(t), NEW l, NEW what, <<l, what>> \in fatal'
      PROVE  Explained(l, what)
  <2>1. what = "NULL" /\ op[t] \in {"checkedAdd", "checkedDel"} /\ NodeOf[arg[t]] \notin dm[LayerOf[t]]
    BY <1>0, <1>1 DEF NoNode
  <2>2. mishap \cap {"unregistered", "memory", "restart"} # {}
    BY <2>1 DEF CheckedHasNode, None
  <2>. QED
    BY <1>0, <2>1, <2>2
<1>2. ASSUME NEW k \in Layers, NEW m \in Message, ring[Peer(k)] # <<>>, m = Head(ring[Peer(k)]),
             Handle(k, m), NEW l, NEW what, <<l, what>> \in fatal'
      PROVE  Explained(l, what)
  <2>0. /\ m = ring[Peer(k)][1] /\ 1 \in DOMAIN ring[Peer(k)] /\ Peer(k) \in Layers /\ Peer(Peer(k)) = k
        /\ \A j \in 1 .. 1 - 1 : FALSE
    BY <1>2, TheHead, Peers
  <2>1. CASE ReceiveQueryAdd(k, m)
    <3>1. what = "NULL" /\ NodeOf[m.what] \notin dm[k] /\ m.type = "QUERY_ADD"
      BY <1>0, <1>2, <2>1 DEF ReceiveQueryAdd
    <3>2. mishap \cap {"unregistered", "early", "partial", "memory", "restart"} # {}
      BY <2>0, <3>1 DEF NodeComesFirst, None
    <3>. QED
      BY <1>0, <3>1, <3>2
  <2>2. CASE ReceiveQueryDel(k, m)
    <3>1. what = "lock" /\ k = Kernel /\ m.what \notin slots[k] /\ m.type = "QUERY_DEL"
      BY <1>0, <1>2, <2>2 DEF ReceiveQueryDel
    <3>2. ~KernelHas(m.what, 1 - 1)
      BY <2>0, <3>1 DEF KernelHas
    <3>3. mishap \cap {"refused", "unregistered", "memory", "restart"} # {}
      BY <1>0, <2>0, <3>1, <3>2 DEF KernelCanForget, None
    <3>. QED
      BY <1>0, <3>1, <3>3
  <2>3. CASE Untimely(m)
    BY <1>0, <1>2, <2>3 DEF Untimely, Note
  <2>4. CASE ~ReceiveQueryAdd(k, m) /\ ~ReceiveQueryDel(k, m) /\ ~Untimely(m)
    BY <1>0, <1>2, <2>4
    DEF Handle, ReceiveAdd, ReceiveDel, ReceiveContinue, ReceiveRequest, ReceiveSnapshot, ReceiveEmpty
  <2>. QED
    BY <2>1, <2>2, <2>3, <2>4
<1>3. ASSUME NEW t, NEW x,
             \/ registerProvider(t, x) \/ unregisterProvider(t, x) \/ CheckAdd(t, x) \/ CheckDel(t, x)
             \/ addQueries(t) \/ delQueries(t) \/ SendDM(t) \/ SendQuery(t)
      PROVE  fatal' = {}
  BY <1>0, <1>3
  DEF registerProvider, unregisterProvider, CheckAdd, CheckDel, Check, addQueries, delQueries,
      SendDM, SendQuery
<1>4. ASSUME NEW l, NEW q, sendQueryContinue(l, q)
      PROVE  fatal' = {}
  BY <1>0, <1>4 DEF sendQueryContinue
<1>5. ASSUME InitLayer \/ RequestSnapshot \/ InitSLC \/ DestroySLC \/ ExitLayer \/ Unmap
      PROVE  fatal' = {}
  BY <1>0, <1>5 DEF InitLayer, RequestSnapshot, InitSLC, DestroySLC, ExitLayer, Unmap, Gone
<1>. HIDE DEF Explained
<1>6. \A l \in Layers : \A what \in {"NULL", "lock"} : <<l, what>> \in fatal' => Explained(l, what)
  BY <1>1, <1>2, <1>3, <1>4, <1>5, Steps DEF TypeOK
<1>. QED
  BY <1>6 DEF Explained, FatalHasCause

(* A ring and what it was before: the message at i was at i + d, where d is*)
(* the number of messages read, or is written by this step.                *)
LEMMA RingShift ==
  ASSUME TypeOK, CallsOwn, Usual, NEW l \in Layers, ~ExitLayer \/ l # Kernel
  PROVE  \E d \in {0, 1} :
           /\ \A i \in DOMAIN ring'[l] :
                \/ i + d \in DOMAIN ring[l] /\ ring'[l][i] = ring[l][i + d]
                \/ d = 0 /\ i = Len(ring[l]) + 1 /\ Writes(l, ring'[l][i])
           /\ \A j \in DOMAIN ring[l] : j > d => j - d \in DOMAIN ring'[l] /\ ring'[l][j - d] = ring[l][j]
           /\ Len(ring'[l]) >= Len(ring[l]) - d
           /\ d = 1 => ring[l] # <<>> /\ Reads(Peer(l), ring[l][1])
<1>. DEFINE s == ring[l]
            r == ring'[l]
<1>1. s \in Seq(Message)
  BY DEF TypeOK
<1>2. CASE r = s
  <2>. HIDE DEF s, r
  <2>1. \A i \in DOMAIN s : i + 0 = i /\ i - 0 = i /\ i \in Nat
    BY <1>1
  <2>2. Len(r) >= Len(s) - 0
    BY <1>1, <1>2
  <2>. QED
    BY <1>2, <2>1, <2>2 DEF s, r
<1>3. ASSUME NEW m \in Message, r = Append(s, m), Writes(l, m)
      PROVE  /\ \A i \in DOMAIN r : \/ i + 0 \in DOMAIN s /\ r[i] = s[i + 0]
                                    \/ i = Len(s) + 1 /\ Writes(l, r[i])
             /\ \A j \in DOMAIN s : j - 0 \in DOMAIN r /\ r[j - 0] = s[j]
             /\ Len(r) >= Len(s) - 0
  <2>. HIDE DEF s, r
  <2>1. /\ Len(s) \in Nat /\ DOMAIN s = 1 .. Len(s) /\ DOMAIN r = 1 .. Len(s) + 1
        /\ Len(r) = Len(s) + 1 /\ r[Len(s) + 1] = m
        /\ \A i \in 1 .. Len(s) : r[i] = s[i]
    BY <1>1, <1>3
  <2>. QED
    BY <1>3, <2>1
<1>4. ASSUME s # <<>>, r = Tail(s), Reads(Peer(l), Head(s))
      PROVE  /\ \A i \in DOMAIN r : i + 1 \in DOMAIN s /\ r[i] = s[i + 1]
             /\ \A j \in DOMAIN s : j > 1 => j - 1 \in DOMAIN r /\ r[j - 1] = s[j]
             /\ Len(r) >= Len(s) - 1
             /\ Reads(Peer(l), s[1])
  <2>. HIDE DEF s, r
  <2>1. /\ Len(s) \in Nat /\ DOMAIN s = 1 .. Len(s) /\ DOMAIN r = 1 .. Len(s) - 1
        /\ Len(r) = Len(s) - 1 /\ Head(s) = s[1]
        /\ \A i \in 1 .. Len(s) - 1 : r[i] = s[i + 1]
    BY <1>1, <1>4
  <2>. QED
    BY <1>4, <2>1
<1>. QED
  BY <1>2, <1>3, <1>4, RingSteps

(* What the kernel is told to forget it has, or will have by then.         *)
LEMMA NextKernelCanForget ==
  ASSUME TypeOK, CallsOwn, CallsKnow, RingOwn, HomeHas, UsedIsThere, GoneIsGone, KernelCanForget, Usual
  PROVE  KernelCanForget'
<1>. SUFFICES ASSUME None({"refused", "unregistered", "memory", "restart"})', fatal' = {}
              PROVE  KernelCanForget'
  BY DEF KernelCanForget
<1>. DEFINE s == ring[User]
            r == ring'[User]
            Adds0(j, q) == s[j].type = "QUERY_ADD" /\ s[j].what = q
            Dels0(j, q) == s[j].type = "QUERY_DEL" /\ s[j].what = q
            Adds1(j, q) == r[j].type = "QUERY_ADD" /\ r[j].what = q
            Dels1(j, q) == r[j].type = "QUERY_DEL" /\ r[j].what = q
            Has0(q, n) == q \in slots[Kernel] \/ \E j \in 1 .. n : Adds0(j, q)
            Has1(q, n) == q \in slots'[Kernel] \/ \E j \in 1 .. n : Adds1(j, q)
            Needs0(q) == q \in registered \cap transferred \/ About(q) = "sendDelQuery"
            Needs1(q) == q \in registered' \cap transferred' \/ About(q)' = "sendDelQuery"
<1>0. /\ None({"refused", "unregistered", "memory", "restart"}) /\ fatal = {}
      /\ None({"unregistered", "memory", "restart"})' /\ None({"memory", "restart"})
      /\ Kernel # User /\ Kernel \in Layers /\ User \in Layers
      /\ Peer(User) = Kernel /\ Peer(Kernel) = User /\ Queries \subseteq Items
      /\ Providers \cap Queries = {} /\ Nothing \notin Queries
      /\ s \in Seq(Message) /\ Len(s) \in Nat /\ DOMAIN s = 1 .. Len(s)
      /\ r \in Seq(Message) /\ Len(r) \in Nat /\ DOMAIN r = 1 .. Len(r)
  <2>1. r \in Seq(Message)
    BY NextTypeOK, Peers DEF TypeOK
  <2>2. Len(r) \in Nat /\ DOMAIN r = 1 .. Len(r)
    <3>. HIDE DEF r
    <3>. QED BY <2>1
  <2>. QED
    BY <2>1, <2>2, NextHistory, Steps, InTheRing, Peers, LinkAssumption DEF TypeOK, None, Items
<1>1. /\ \A q \in Queries : Home(q) = User /\ Needs0(q) =>
           Has0(q, Len(s)) /\ \A i \in DOMAIN s : ~Dels0(i, q)
      /\ \A i \in DOMAIN s : s[i].type = "QUERY_DEL" =>
           Has0(s[i].what, i - 1) /\ \A j \in DOMAIN s : Dels0(j, s[i].what) => j = i
  BY <1>0 DEF KernelCanForget, KernelHas, ToKernel
<1>2. PICK d \in {0, 1} :
        /\ \A i \in DOMAIN r : \/ i + d \in DOMAIN s /\ r[i] = s[i + d]
                               \/ d = 0 /\ i = Len(s) + 1 /\ Writes(User, r[i])
        /\ \A j \in DOMAIN s : j > d => j - d \in DOMAIN r /\ r[j - d] = s[j]
        /\ Len(r) >= Len(s) - d
        /\ d = 1 => s # <<>> /\ Reads(Kernel, s[1])
  BY <1>0, RingShift
<1>3. ASSUME NEW q \in Queries, Home(q) = User, q \in slots[Kernel], q \notin slots'[Kernel]
      PROVE  d = 1 /\ Dels0(1, q)
  <2>1. s # <<>> /\ Head(s).what = q /\ ReceiveQueryDel(Kernel, Head(s))
    BY <1>0, <1>3, QueryStays
  <2>2. r = Tail(s) /\ Dels0(1, q)
    BY <1>0, <2>1, TheHead DEF ReceiveQueryDel, ReadEnd, TypeOK
  <2>3. Len(r) = Len(s) - 1
    <3>. HIDE DEF s, r
    <3>. QED BY <1>0, <2>1, <2>2
  <2>. QED
    BY <1>0, <1>2, <2>2, <2>3
<1>4. ASSUME NEW q \in Queries, Home(q) = User, NEW n \in 0 .. Len(s), Has0(q, n), d = 0 \/ ~Dels0(1, q)
      PROVE  Has1(q, n - d)
  <2>1. CASE q \in slots[Kernel]
    BY <1>3, <1>4, <2>1
  <2>2. ASSUME NEW j \in 1 .. n, Adds0(j, q)
        PROVE  Has1(q, n - d)
    <3>1. CASE j > d
      <4>1. j - d \in 1 .. n - d /\ Adds1(j - d, q)
        BY <1>0, <1>2, <2>2, <3>1
      <4>. QED
        BY <4>1
    <3>2. CASE ~(j > d)
      <4>1. j = 1 /\ d = 1
        BY <3>2
      <4>2. ReceiveQueryAdd(Kernel, s[1])
        BY <1>2, <2>2, <4>1
        DEF Reads, ReceiveAdd, ReceiveDel, ReceiveQueryAdd, ReceiveQueryDel, ReceiveContinue,
            ReceiveRequest, ReceiveSnapshot, ReceiveEmpty
      <4>3. NodeOf[q] \in dm[Kernel] /\ ~Full(Kernel, q)
        BY <1>0, <2>2, <4>1, <4>2 DEF ReceiveQueryAdd, Fail, Note, None
      <4>4. q \in slots'[Kernel]
        BY <1>0, <2>2, <4>1, <4>2, <4>3 DEF ReceiveQueryAdd, TypeOK
      <4>. QED
        BY <4>4
    <3>. QED
      BY <3>1, <3>2
  <2>. QED
    BY <1>4, <2>1, <2>2
<1>5. ASSUME NEW t \in Threads, SendQuery(t), NEW q \in Queries, arg[t] = q, op[t] # "sendAddQuery"
      PROVE  Needs0(q) /\ ~Needs1(q)
  <2>1. op[t] = "sendDelQuery" /\ OwnerOf[q] = t
    BY <1>5 DEF SendQuery, CallsOwn
  <2>2. q \notin registered /\ registered' = registered /\ arg'[t] = Nothing
    BY <1>5, <2>1 DEF SendQuery, Goto, CallsKnow, TypeOK
  <2>. QED
    BY <1>0, <1>5, <2>1, <2>2 DEF About
<1>6. ASSUME NEW i \in DOMAIN r, NEW q \in Queries, Dels1(i, q), ~(i + d \in DOMAIN s /\ r[i] = s[i + d])
      PROVE  d = 0 /\ i = Len(s) + 1 /\ Needs0(q) /\ ~Needs1(q)
  <2>1. d = 0 /\ i = Len(s) + 1 /\ Writes(User, r[i])
    BY <1>2, <1>6
  <2>2. PICK t \in Threads : SendQuery(t) /\ op[t] # "sendAddQuery" /\ arg[t] = q
    BY <1>6, <2>1 DEF Writes, Is
  <2>. QED
    BY <1>5, <2>1, <2>2
<1>7. ASSUME NEW q \in Queries, Home(q) = User, Needs1(q)
      PROVE  Has1(q, Len(r)) /\ \A i \in DOMAIN r : ~Dels1(i, q)
  <2>1. CASE Needs0(q)
    <3>1. Has0(q, Len(s)) /\ \A i \in DOMAIN s : ~Dels0(i, q)
      BY <1>1, <1>7, <2>1
    <3>2. d = 1 => 1 \in DOMAIN s
      BY <1>0, <1>2, TheHead
    <3>3. Has1(q, Len(s) - d)
      BY <1>0, <1>4, <1>7, <3>1, <3>2
    <3>4. Has1(q, Len(r))
      BY <1>0, <1>2, <3>3
    <3>5. \A i \in DOMAIN r : ~Dels1(i, q)
      BY <1>6, <1>7, <3>1
    <3>. QED
      BY <3>4, <3>5
  <2>2. CASE ~Needs0(q)
    <3>. DEFINE t == OwnerOf[q]
    <3>1. t \in Threads /\ LayerOf[t] = User /\ q \in Items
      BY <1>0, <1>7, Peers DEF Home
    <3>2. About(q)' # "sendDelQuery"
      <4>1. ASSUME arg'[t] = q, op'[t] = "sendDelQuery"
            PROVE  FALSE
        <5>1. delQueries(t) /\ arg[t] = q
          <6>1. CASE op'[t] = op[t] /\ arg'[t] = arg[t]
            BY <2>2, <4>1, <6>1 DEF About
          <6>2. CASE addQueries(t)
            BY <3>1, <4>1, <6>2 DEF addQueries, Goto, TypeOK
          <6>3. CASE delQueries(t)
            BY <1>0, <3>1, <4>1, <6>3 DEF delQueries, Goto, TypeOK
          <6>. QED
            BY <3>1, <4>1, <6>1, <6>2, <6>3, CallSteps
        <5>2. q \in transferred /\ q \in registered
          BY <3>1, <4>1, <5>1 DEF delQueries, Goto, CallsKnow, TypeOK
        <5>. QED
          BY <2>2, <5>2
      <4>. QED
        BY <4>1 DEF About
    <3>3. q \in registered' /\ q \in transferred'
      BY <1>7, <3>2
    <3>4. q \in registered /\ q \notin transferred
      <4>1. ASSUME q \notin registered
            PROVE  FALSE
        <5>1. addQueries(t) /\ arg[t] = q
          BY <1>0, <3>1, <3>3, <4>1, Registers
        <5>2. q \notin transferred /\ transferred' = transferred
          BY <3>1, <5>1 DEF addQueries, CallsKnow
        <5>. QED
          BY <3>3, <5>2
      <4>. QED
        BY <2>2, <4>1
    <3>5. SendQuery(t) /\ op[t] = "sendAddQuery" /\ arg[t] = q
      BY <3>3, <3>4, Transfers
    <3>6. r = Append(s, Msg("QUERY_ADD", q)) /\ Msg("QUERY_ADD", q) \in Message
      BY <1>0, <3>1, <3>5, MsgIsMessage DEF SendQuery, Write, TypeOK
    <3>7. /\ Len(r) = Len(s) + 1 /\ r[Len(r)] = Msg("QUERY_ADD", q)
          /\ \A i \in 1 .. Len(s) : r[i] = s[i]
      <4>. HIDE DEF s, r
      <4>. QED BY <1>0, <3>6
    <3>8. Adds1(Len(r), q) /\ ~Dels1(Len(r), q) /\ Len(r) \in 1 .. Len(r)
      BY <1>0, <3>7 DEF Msg
    <3>9. \A i \in 1 .. Len(s) : ~Dels1(i, q)
      BY <1>0, <3>4, <3>7 DEF GoneIsGone
    <3>. QED
      BY <1>0, <3>7, <3>8, <3>9
  <2>. QED
    BY <2>1, <2>2
<1>8. ASSUME NEW i \in DOMAIN r, r[i].type = "QUERY_DEL"
      PROVE  Has1(r[i].what, i - 1) /\ \A j \in DOMAIN r : Dels1(j, r[i].what) => j = i
  <2>. DEFINE q == r[i].what
  <2>1. q \in Queries /\ Home(q) = User /\ Dels1(i, q)
    <3>1. RingOwn'
      BY NextRingOwn
    <3>. QED
      BY <1>0, <1>8, <3>1, MessageFields DEF RingOwn
  <2>. HIDE DEF q
  <2>2. CASE i + d \in DOMAIN s /\ r[i] = s[i + d]
    <3>1. Dels0(i + d, q)
      BY <2>1, <2>2
    <3>2. /\ Has0(q, i + d - 1) /\ \A j \in DOMAIN s : Dels0(j, q) => j = i + d
          /\ i + d - 1 \in 0 .. Len(s) /\ i + d - 1 - d = i - 1
      BY <1>0, <1>1, <2>2, <3>1
    <3>3. d = 1 => ~Dels0(1, q)
      <4>1. d = 1 => 1 \in DOMAIN s /\ 1 # i + d
        <5>. HIDE DEF s, r
        <5>. QED BY <1>0, <1>8, <2>2
      <4>. QED
        BY <3>2, <4>1
    <3>4. Has1(q, i - 1)
      <4>1. d = 0 \/ ~Dels0(1, q)
        BY <3>3
      <4>. DEFINE n == i + d - 1
      <4>2. n \in 0 .. Len(s) /\ n - d = i - 1
        <5>. HIDE DEF s, r
        <5>. QED BY <1>0, <1>8, <2>2
      <4>3. Has0(q, n)
        BY <3>2
      <4>. HIDE DEF n, Has0, Has1, Dels0, s, r
      <4>4. Has1(q, n - d)
        BY <1>4, <2>1, <4>1, <4>2, <4>3
      <4>. QED
        BY <4>2, <4>4
    <3>5. ASSUME NEW j \in DOMAIN r, Dels1(j, q)
          PROVE  j = i
      <4>1. CASE j + d \in DOMAIN s /\ r[j] = s[j + d]
        BY <1>0, <3>2, <3>5, <4>1
      <4>2. CASE ~(j + d \in DOMAIN s /\ r[j] = s[j + d])
        BY <1>1, <1>6, <2>1, <2>2, <3>1, <3>5, <4>2
      <4>. QED
        BY <4>1, <4>2
    <3>. QED
      BY <3>4, <3>5 DEF q
  <2>3. CASE ~(i + d \in DOMAIN s /\ r[i] = s[i + d])
    <3>1. d = 0 /\ i = Len(s) + 1 /\ Needs0(q)
      BY <1>6, <2>1, <2>3
    <3>2. Has0(q, Len(s)) /\ \A j \in DOMAIN s : ~Dels0(j, q)
      BY <1>1, <2>1, <3>1
    <3>3. Has1(q, i - 1)
      <4>1. Has1(q, Len(s) - d)
        BY <1>0, <1>4, <2>1, <3>1, <3>2
      <4>. QED
        BY <1>0, <3>1, <4>1
    <3>4. ASSUME NEW j \in DOMAIN r, Dels1(j, q)
          PROVE  j = i
      BY <1>6, <2>1, <3>1, <3>2, <3>4
    <3>. QED
      BY <3>3, <3>4 DEF q
  <2>. QED
    BY <2>2, <2>3
<1>. QED
  BY <1>7, <1>8 DEF KernelCanForget, KernelHas, ToKernel

-----------------------------------------------------------------------------
(* What the messages in a ring make of the layer that reads them.          *)

(* It depends on whether the layer has the item, not on what else it has.  *)
LEMMA DeliversSame ==
  ASSUME NEW known, NEW after, NEW s, NEW n, NEW x, x \in after <=> x \in known
  PROVE  Delivers(after, s, n, x) <=> Delivers(known, s, n, x)
BY DEF Delivers

(* A message that is written has the last word.                            *)
LEMMA DeliversAppend ==
  ASSUME NEW known, NEW after, NEW s \in Seq(Message), NEW m \in Message, NEW x,
         x \in after <=> x \in known
  PROVE  Delivers(after, Append(s, m), Len(Append(s, m)), x)
         <=> Adds(m, x) \/ (~Removes(m, x) /\ Delivers(known, s, Len(s), x))
<1>. DEFINE r == Append(s, m)
            n == Len(s)
<1>0. n \in Nat /\ Len(r) = n + 1 /\ r[n + 1] = m /\ \A i \in 1 .. n : r[i] = s[i]
  OBVIOUS
<1>. HIDE DEF r, n
<1>1. 1 .. n + 1 = (1 .. n) \cup {n + 1} /\ \A i \in 1 .. n : i + 1 .. n + 1 = (i + 1 .. n) \cup {n + 1}
  BY <1>0
<1>2. (n + 1) + 1 .. n + 1 = {} /\ \A i \in 1 .. n : i + 1 .. n \subseteq 1 .. n
  BY <1>0
<1>3. (\A i \in 1 .. n + 1 : ~Removes(r[i], x)) <=> ~Removes(m, x) /\ \A i \in 1 .. n : ~Removes(s[i], x)
  BY <1>0, <1>1
<1>4. (\E i \in 1 .. n + 1 : Adds(r[i], x) /\ \A j \in i + 1 .. n + 1 : ~Removes(r[j], x))
      <=> \/ Adds(m, x)
          \/ ~Removes(m, x) /\ \E i \in 1 .. n : Adds(s[i], x) /\ \A j \in i + 1 .. n : ~Removes(s[j], x)
  <2>1. ASSUME NEW i \in 1 .. n
        PROVE  (Adds(r[i], x) /\ \A j \in i + 1 .. n + 1 : ~Removes(r[j], x))
               <=> Adds(s[i], x) /\ ~Removes(m, x) /\ \A j \in i + 1 .. n : ~Removes(s[j], x)
    BY <1>0, <1>1, <1>2
  <2>2. (Adds(r[n + 1], x) /\ \A j \in (n + 1) + 1 .. n + 1 : ~Removes(r[j], x)) <=> Adds(m, x)
    BY <1>0, <1>2
  <2>. QED
    BY <1>1, <2>1, <2>2
<1>5. Delivers(after, r, n + 1, x) <=> Adds(m, x) \/ (~Removes(m, x) /\ Delivers(known, s, n, x))
  BY <1>3, <1>4 DEF Delivers
<1>. QED
  BY <1>0, <1>5 DEF r, n

(* A message that is read moves from the ring to what the layer has.       *)
LEMMA DeliversTail ==
  ASSUME NEW known, NEW after, NEW s, NEW r, NEW x, NEW n \in Nat,
         x \in after <=> Adds(s[1], x) \/ (x \in known /\ ~Removes(s[1], x)),
         \A i \in 1 .. n : r[i] = s[i + 1]
  PROVE  Delivers(after, r, n, x) <=> Delivers(known, s, n + 1, x)
<1>1. /\ \A i \in 1 .. n + 1 : i # 1 => i - 1 \in 1 .. n /\ r[i - 1] = s[i]
      /\ \A i \in 1 .. n : i + 1 \in 1 .. n + 1 /\ i + 1 # 1
      /\ 1 \in 1 .. n + 1
  OBVIOUS
<1>2. (\A i \in 1 .. n + 1 : ~Removes(s[i], x)) <=> ~Removes(s[1], x) /\ \A i \in 1 .. n : ~Removes(r[i], x)
  BY <1>1
<1>3. (\A j \in 1 + 1 .. n + 1 : ~Removes(s[j], x)) <=> \A i \in 1 .. n : ~Removes(r[i], x)
  <2>1. ASSUME \A j \in 1 + 1 .. n + 1 : ~Removes(s[j], x), NEW i \in 1 .. n
        PROVE  ~Removes(r[i], x)
    <3>1. i + 1 \in 1 + 1 .. n + 1
      OBVIOUS
    <3>. QED
      BY <2>1, <3>1
  <2>2. ASSUME \A i \in 1 .. n : ~Removes(r[i], x), NEW j \in 1 + 1 .. n + 1
        PROVE  ~Removes(s[j], x)
    <3>1. j - 1 \in 1 .. n /\ r[j - 1] = s[j]
      BY <1>1
    <3>. QED
      BY <2>2, <3>1
  <2>. QED
    BY <2>1, <2>2
<1>4. ASSUME NEW i \in 1 .. n
      PROVE  (\A j \in (i + 1) + 1 .. n + 1 : ~Removes(s[j], x)) <=> \A j \in i + 1 .. n : ~Removes(r[j], x)
  <2>1. ASSUME \A j \in (i + 1) + 1 .. n + 1 : ~Removes(s[j], x), NEW j \in i + 1 .. n
        PROVE  ~Removes(r[j], x)
    <3>1. j + 1 \in (i + 1) + 1 .. n + 1 /\ j \in 1 .. n
      OBVIOUS
    <3>. QED
      BY <2>1, <3>1
  <2>2. ASSUME \A j \in i + 1 .. n : ~Removes(r[j], x), NEW j \in (i + 1) + 1 .. n + 1
        PROVE  ~Removes(s[j], x)
    <3>1. j - 1 \in i + 1 .. n /\ j \in 1 .. n + 1 /\ j # 1
      OBVIOUS
    <3>2. r[j - 1] = s[j]
      BY <1>1, <3>1
    <3>. QED
      BY <2>2, <3>1, <3>2
  <2>. QED
    BY <2>1, <2>2
<1>5. (\E i \in 1 .. n + 1 : Adds(s[i], x) /\ \A j \in i + 1 .. n + 1 : ~Removes(s[j], x))
      <=> \/ Adds(s[1], x) /\ \A i \in 1 .. n : ~Removes(r[i], x)
          \/ \E i \in 1 .. n : Adds(r[i], x) /\ \A j \in i + 1 .. n : ~Removes(r[j], x)
  <2>1. ASSUME NEW i \in 1 .. n + 1, i # 1, Adds(s[i], x), \A j \in i + 1 .. n + 1 : ~Removes(s[j], x)
        PROVE  \E k \in 1 .. n : Adds(r[k], x) /\ \A j \in k + 1 .. n : ~Removes(r[j], x)
    <3>. DEFINE k == i - 1
    <3>1. k \in 1 .. n /\ r[k] = s[i] /\ k + 1 = i
      BY <1>1, <2>1
    <3>. HIDE DEF k
    <3>2. \A j \in k + 1 .. n : ~Removes(r[j], x)
      BY <1>4, <2>1, <3>1
    <3>. QED
      BY <2>1, <3>1, <3>2
  <2>2. ASSUME NEW i \in 1 .. n, Adds(r[i], x), \A j \in i + 1 .. n : ~Removes(r[j], x)
        PROVE  \E k \in 1 .. n + 1 : Adds(s[k], x) /\ \A j \in k + 1 .. n + 1 : ~Removes(s[j], x)
    <3>1. i + 1 \in 1 .. n + 1 /\ Adds(s[i + 1], x)
      BY <1>1, <2>2
    <3>2. \A j \in (i + 1) + 1 .. n + 1 : ~Removes(s[j], x)
      BY <1>4, <2>2
    <3>. QED
      BY <3>1, <3>2
  <2>. QED
    BY <1>1, <1>3, <2>1, <2>2
<1>. QED
  BY <1>2, <1>5 DEF Delivers

(* An item is had by its own layer if and only if it is registered, as long*)
(* as no provider goes while queries count on it and no daemon comes again.*)
LEMMA HasIsRegistered ==
  ASSUME TypeOK, HomeHas, None({"unregistered", "memory", "restart"}), NEW x \in Items
  PROVE  x \in Has(Home(x)) <=> x \in registered
<1>1. None({"memory", "restart"}) /\ Home(x) \in Layers /\ (x \in Providers <=> x \notin Queries)
  BY Peers, LinkAssumption DEF None, Items
<1>2. dm[Home(x)] \subseteq Providers /\ slots[Home(x)] \subseteq Queries
  BY <1>1 DEF TypeOK
<1>. QED
  BY <1>1, <1>2 DEF HomeHas, Has

(* What the other layer has of an item changes only with a message it      *)
(* reads.                                                                  *)
LEMMA OthersKnow ==
  ASSUME TypeOK, CallsOwn, HomeHas, UsedIsThere, GoneIsGone, Usual, ~Leaves,
         None({"unregistered", "memory", "restart"})', NEW x \in Items, NEW k \in Layers, Home(x) # k,
         ~(x \in Has(k)' <=> x \in Has(k))
  PROVE  ring[Peer(k)] # <<>> /\ ring'[Peer(k)] = Tail(ring[Peer(k)])
<1>. DEFINE m == Head(ring[Peer(k)])
<1>0. Peer(k) \in Layers /\ SidesType /\ ring \in [Layers -> Seq(Message)]
  BY Peers, TypeParts DEF TypeOK
<1>1. ASSUME NEW t \in Threads, OwnerOf[x] = t, LayerOf[t] = k
      PROVE  FALSE
  BY <1>1 DEF Home
<1>2. ASSUME ring[Peer(k)] # <<>>,
             \/ ReceiveAdd(k, m) \/ (k = User /\ ReceiveSnapshot(m)) \/ ReceiveDel(k, m)
             \/ ReceiveQueryAdd(k, m) \/ ReceiveQueryDel(k, m)
      PROVE  ring[Peer(k)] # <<>> /\ ring'[Peer(k)] = Tail(ring[Peer(k)])
  BY <1>0, <1>2
  DEF ReceiveAdd, ReceiveSnapshot, ReceiveDel, ReceiveQueryAdd, ReceiveQueryDel, ReadEnd
<1>3. CASE x \in dm'[k] /\ x \notin dm[k]
  <2>1. \/ \E t \in Threads : OwnerOf[x] = t /\ LayerOf[t] = k
        \/ ring[Peer(k)] # <<>> /\ (ReceiveAdd(k, m) \/ (k = User /\ ReceiveSnapshot(m)))
    BY <1>3, TreeComes
  <2>. QED
    BY <1>1, <1>2, <2>1
<1>4. CASE x \in dm[k] /\ x \notin dm'[k]
  BY <1>1, <1>2, <1>4, TreeGoes
<1>5. CASE x \in slots'[k] /\ x \notin slots[k]
  BY <1>1, <1>2, <1>5, QueryComes
<1>6. CASE x \in slots[k] /\ x \notin slots'[k]
  <2>1. x \in Queries
    BY <1>0, <1>6 DEF SidesType
  <2>. QED
    BY <1>2, <1>6, <2>1, QueryStays
<1>. QED
  BY <1>3, <1>4, <1>5, <1>6 DEF Has

(* A layer that handles a message has made of itself what the message says,*)
(* unless something is noted.                                              *)
LEMMA ReadsKnow ==
  ASSUME TypeOK, CallsOwn, RingOwn, HomeHas, UsedIsThere, GoneIsGone, Usual, Sound', fatal' = {},
         NEW x \in Items, NEW k \in Layers, Home(x) # k, ring[Peer(k)] # <<>>,
         Reads(k, Head(ring[Peer(k)]))
  PROVE  x \in Has(k)' <=> \/ Adds(Head(ring[Peer(k)]), x)
                           \/ x \in Has(k) /\ ~Removes(Head(ring[Peer(k)]), x)
<1>. DEFINE m == Head(ring[Peer(k)])
<1>0. /\ Peer(k) \in Layers /\ SidesType /\ m \in Message /\ SidesType
      /\ None({"unregistered", "memory", "restart", "refused", "partial"})' /\ ~Leaves
      /\ Providers \cap Queries = {}
  <2>1. ~Leaves
    BY DEF Leaves, DestroySLC, Unmap, Gone, Reads, Alive, ReceiveAdd, ReceiveDel, ReceiveQueryAdd, ReceiveQueryDel,
           ReceiveContinue, ReceiveRequest, ReceiveSnapshot, ReceiveEmpty, daemonVars
  <2>. QED
    BY <2>1, Peers, TypeParts, TheHead, LinkAssumption DEF Sound, None
<1>. HIDE DEF m
<1>1. CASE ReceiveAdd(k, m)
  <2>1. dm'[k] = dm[k] \cup {m.what} /\ slots'[k] = slots[k] /\ m.type = "DM_ADD"
    BY <1>0, <1>1 DEF ReceiveAdd, SidesType
  <2>. QED
    BY <2>1 DEF Has, Adds, Removes, m
<1>2. CASE ReceiveDel(k, m)
  <2>1. dm'[k] = dm[k] \ {m.what} /\ slots'[k] = slots[k] \ At(m.what) /\ m.type = "DM_DEL"
    BY <1>0, <1>2 DEF ReceiveDel, Without, SidesType
  <2>2. m.what \in Providers
    BY <1>0, <2>1, MessageFields
  <2>3. ASSUME x \in slots[k], x \in At(m.what)
        PROVE  FALSE
    <3>1. x \in Queries /\ x \notin slots'[k]
      BY <1>0, <2>1, <2>3 DEF SidesType
    <3>2. ~ReceiveQueryDel(k, m)
      BY <2>1 DEF ReceiveQueryDel
    <3>. QED
      BY <1>0, <2>3, <3>1, <3>2, QueryStays DEF m, None
  <2>4. x \in slots[k] => x \in Queries
    BY <1>0 DEF SidesType
  <2>. QED
    BY <1>0, <2>1, <2>2, <2>3, <2>4 DEF Has, Adds, Removes, m
<1>3. CASE ReceiveQueryAdd(k, m)
  <2>1. NodeOf[m.what] \in dm[k] /\ ~Full(k, m.what)
    BY <1>0, <1>3 DEF ReceiveQueryAdd, Fail, Note, None
  <2>2. dm'[k] = dm[k] /\ slots'[k] = slots[k] \cup {m.what} /\ m.type = "QUERY_ADD"
    BY <1>0, <1>3, <2>1 DEF ReceiveQueryAdd, SidesType
  <2>. QED
    BY <2>2 DEF Has, Adds, Removes, m
<1>4. CASE ReceiveQueryDel(k, m)
  <2>1. dm'[k] = dm[k] /\ slots'[k] = slots[k] \ {m.what} /\ m.type = "QUERY_DEL"
    BY <1>0, <1>4 DEF ReceiveQueryDel, SidesType
  <2>2. m.what \in Queries /\ dm[k] \subseteq Providers
    BY <1>0, <2>1, MessageFields DEF SidesType
  <2>. QED
    BY <1>0, <2>1, <2>2 DEF Has, Adds, Removes, m
<1>5. CASE ReceiveContinue(k, m) \/ ReceiveEmpty(k, m)
  <2>1. dm' = dm /\ slots' = slots /\ m.type \in {"QUERY_CONTINUE", "EMPTY"}
    BY <1>5 DEF ReceiveContinue, ReceiveEmpty, sides
  <2>. QED
    BY <2>1 DEF Has, Adds, Removes, m
<1>6. CASE k = Kernel /\ ReceiveRequest(m)
  <2>1. dm' = dm /\ slots' = slots /\ m.type = "DM_SNAPSHOT"
    BY <1>6 DEF ReceiveRequest, sides
  <2>2. m.what = {}
    BY <1>6, <2>1, TheHead, Peers DEF RingOwn, m
  <2>. QED
    BY <2>1, <2>2 DEF Has, Adds, Removes, m
<1>7. CASE k = User /\ ReceiveSnapshot(m)
  <2>1. PICK merged \in SUBSET m.what :
          dm' = [dm EXCEPT ![User] = @ \cup merged] /\ Note("partial", ~(m.what \subseteq dm'[User]))
    BY <1>7 DEF ReceiveSnapshot
  <2>2. m.what \subseteq dm'[User]
    BY <1>0, <2>1 DEF Note, None
  <2>3. dm'[k] = dm[k] \cup m.what /\ slots' = slots /\ m.type = "DM_SNAPSHOT"
    BY <1>0, <1>7, <2>1, <2>2 DEF ReceiveSnapshot, SidesType
  <2>. QED
    BY <2>3 DEF Has, Adds, Removes, m
<1>. QED
  BY <1>1, <1>2, <1>3, <1>4, <1>5, <1>6, <1>7 DEF Reads, m

(* What the other layer will have of an item when all in the ring is       *)
(* delivered: it changes with the message that is written.                 *)
Delivered(x) == Delivers(Has(Peer(Home(x))), ring[Home(x)], Len(ring[Home(x)]), x)

LEMMA DeliveredSteps ==
  ASSUME TypeOK, CallsOwn, RingOwn, HomeHas, UsedIsThere, GoneIsGone, Usual, Sound', fatal' = {},
         NEW x \in Items, ~Leaves, ~ExitLayer \/ Home(x) = User
  PROVE  \/ /\ Delivered(x)' <=> Delivered(x)
            /\ ring'[Home(x)] = ring[Home(x)] \/ Len(ring'[Home(x)]) < Len(ring[Home(x)])
         \/ \E m \in Message :
              /\ ring'[Home(x)] = Append(ring[Home(x)], m) /\ Writes(Home(x), m)
              /\ Delivered(x)' <=> Adds(m, x) \/ (~Removes(m, x) /\ Delivered(x))
<1>. DEFINE l == Home(x)
            k == Peer(Home(x))
            s == ring[l]
            r == ring'[l]
<1>0. /\ l \in Layers /\ k \in Layers /\ l # k /\ Peer(k) = l /\ Kernel # User
      /\ None({"unregistered", "memory", "restart"})'
      /\ s \in Seq(Message) /\ Len(s) \in Nat /\ DOMAIN s = 1 .. Len(s)
  BY Peers, InTheRing, LinkAssumption DEF TypeOK, Sound, None
<1>1. ASSUME s # <<>>
      PROVE  /\ Len(Tail(s)) = Len(s) - 1 /\ Len(s) - 1 \in Nat /\ (Len(s) - 1) + 1 = Len(s)
             /\ \A i \in 1 .. Len(s) - 1 : Tail(s)[i] = s[i + 1]
             /\ Head(s) = s[1] /\ Len(s) - 1 < Len(s) /\ Len(s) - 1 # Len(s) /\ Len(s) - 1 # Len(s) + 1
  <2>1. s \in Seq(Message) /\ s # <<>>
    BY <1>0, <1>1
  <2>. HIDE DEF s
  <2>2. /\ Len(s) \in Nat \ {0} /\ Len(Tail(s)) = Len(s) - 1 /\ Head(s) = s[1]
        /\ \A i \in 1 .. Len(s) - 1 : Tail(s)[i] = s[i + 1]
    BY <2>1
  <2>3. \A n \in Nat \ {0} : n - 1 \in Nat /\ (n - 1) + 1 = n /\ n - 1 < n /\ n - 1 # n /\ n - 1 # n + 1
    OBVIOUS
  <2>. QED
    BY <2>2, <2>3
<1>2. \A m \in Message : Len(Append(s, m)) = Len(s) + 1
  <2>. HIDE DEF s
  <2>. QED BY <1>0
<1>3. (x \in Has(k)' <=> x \in Has(k)) \/ (s # <<>> /\ r = Tail(s))
  BY <1>0, OthersKnow
<1>4. /\ Delivered(x) <=> Delivers(Has(k), s, Len(s), x)
      /\ Delivered(x)' <=> Delivers(Has(k)', r, Len(r), x)
  BY DEF Delivered
<1>5. CASE r = s
  <2>1. x \in Has(k)' <=> x \in Has(k)
    BY <1>1, <1>3, <1>5
  <2>. HIDE DEF s, r, k
  <2>2. Delivers(Has(k)', s, Len(s), x) <=> Delivers(Has(k), s, Len(s), x)
    BY <2>1, DeliversSame
  <2>. QED
    BY <1>4, <1>5, <2>2 DEF s, r
<1>6. ASSUME NEW m \in Message, r = Append(s, m), Writes(l, m)
      PROVE  Delivered(x)' <=> Adds(m, x) \/ (~Removes(m, x) /\ Delivered(x))
  <2>1. x \in Has(k)' <=> x \in Has(k)
    BY <1>1, <1>2, <1>3, <1>6
  <2>. HIDE DEF s, r, k
  <2>2. Delivers(Has(k)', r, Len(r), x)
        <=> Adds(m, x) \/ (~Removes(m, x) /\ Delivers(Has(k), s, Len(s), x))
    BY <1>0, <1>6, <2>1, DeliversAppend
  <2>. QED
    BY <1>4, <2>2
<1>7. CASE s # <<>> /\ r = Tail(s) /\ Reads(k, Head(s))
  <2>1. x \in Has(k)' <=> Adds(s[1], x) \/ (x \in Has(k) /\ ~Removes(s[1], x))
    BY <1>0, <1>1, <1>7, ReadsKnow
  <2>. DEFINE n == Len(s) - 1
  <2>2. Len(r) = n /\ n + 1 = Len(s) /\ n \in Nat /\ (\A i \in 1 .. n : r[i] = s[i + 1]) /\ Len(r) < Len(s)
    BY <1>1, <1>7
  <2>. HIDE DEF s, r, k, n
  <2>3. Delivers(Has(k)', r, n, x) <=> Delivers(Has(k), s, n + 1, x)
    BY <2>1, <2>2, DeliversTail
  <2>4. Delivered(x)' <=> Delivered(x)
    BY <1>4, <2>2, <2>3
  <2>. QED
    BY <2>2, <2>4 DEF s, r
<1>8. \/ r = s \/ (\E m \in Message : r = Append(s, m) /\ Writes(l, m))
      \/ (s # <<>> /\ r = Tail(s) /\ Reads(k, Head(s)))
  BY <1>0, RingSteps
<1>. QED
  BY <1>5, <1>6, <1>7, <1>8

(* The answer of the kernel to the daemon names all that the kernel has.   *)
Answers(x) ==
  /\ Home(x) = Kernel /\ x \in dm[Kernel] /\ EndpointConnected(Kernel)
  /\ ring[User] # <<>> /\ ReceiveRequest(Head(ring[User]))

(* Whoever sends a message about an item is its owner, or answers.         *)
LEMMA WritesAbout ==
  ASSUME TypeOK, CallsOwn, NEW x \in Items, NEW m \in Message, Writes(Home(x), m),
         Adds(m, x) \/ Removes(m, x)
  PROVE  \/ /\ (SendDM(OwnerOf[x]) /\ EndpointConnected(Home(x))) \/ SendQuery(OwnerOf[x])
            /\ arg[OwnerOf[x]] = x
            /\ Adds(m, x) <=> op[OwnerOf[x]] \in {"sendDMAdd", "sendAddQuery"}
            /\ Removes(m, x) <=> op[OwnerOf[x]] \in {"sendDMDel", "sendDelQuery"}
         \/ Answers(x)
<1>1. ASSUME NEW t \in Threads, SendDM(t), EndpointConnected(Home(x)),
             Is(m, IF op[t] = "sendDMAdd" THEN "DM_ADD" ELSE "DM_DEL", arg[t])
      PROVE  /\ OwnerOf[x] = t /\ arg[t] = x
             /\ Adds(m, x) <=> op[t] \in {"sendDMAdd", "sendAddQuery"}
             /\ Removes(m, x) <=> op[t] \in {"sendDMDel", "sendDelQuery"}
  BY <1>1 DEF Is, Adds, Removes, SendDM, CallsOwn
<1>2. ASSUME NEW t \in Threads, SendQuery(t),
             Is(m, IF op[t] = "sendAddQuery" THEN "QUERY_ADD" ELSE "QUERY_DEL", arg[t])
      PROVE  /\ OwnerOf[x] = t /\ arg[t] = x
             /\ Adds(m, x) <=> op[t] \in {"sendDMAdd", "sendAddQuery"}
             /\ Removes(m, x) <=> op[t] \in {"sendDMDel", "sendDelQuery"}
  BY <1>2 DEF Is, Adds, Removes, SendQuery, CallsOwn
<1>3. ASSUME NEW q, Is(m, "QUERY_CONTINUE", q)
      PROVE  FALSE
  BY <1>3 DEF Is, Adds, Removes
<1>4. ASSUME Is(m, "DM_SNAPSHOT", {})
      PROVE  FALSE
  BY <1>4 DEF Is, Adds, Removes
<1>5. ASSUME Home(x) = Kernel, ring[User] # <<>>, ReceiveRequest(Head(ring[User])),
             EndpointConnected(Kernel), Is(m, "DM_SNAPSHOT", dm[Kernel])
      PROVE  Answers(x)
  BY <1>5 DEF Is, Adds, Removes, Answers
<1>. QED
  BY <1>1, <1>2, <1>3, <1>4, <1>5 DEF Writes

(* What will be delivered stays, unless the owner of the item sends        *)
(* something or the kernel answers.                                        *)
LEMMA DeliveredStays ==
  ASSUME TypeOK, CallsOwn, RingOwn, HomeHas, UsedIsThere, GoneIsGone, Usual, Sound', fatal' = {},
         NEW x \in Items, ~Leaves, ~ExitLayer \/ Home(x) = User,
         ~(arg[OwnerOf[x]] = x /\ (SendDM(OwnerOf[x]) \/ SendQuery(OwnerOf[x])))
  PROVE  Delivered(x)' <=> Delivered(x) \/ Answers(x)
<1>. DEFINE l == Home(x)
            s == ring[l]
<1>0. /\ l \in Layers /\ Kernel # User /\ Kernel \in Layers /\ User \in Layers
      /\ s \in Seq(Message) /\ Len(s) \in Nat /\ dm[Kernel] \in SUBSET Providers
  BY Peers, InTheRing, LinkAssumption DEF TypeOK
<1>1. ASSUME Answers(x)
      PROVE  ring'[l] = Append(s, Msg("DM_SNAPSHOT", dm[Kernel]))
             /\ Adds(Msg("DM_SNAPSHOT", dm[Kernel]), x)
  BY <1>0, <1>1 DEF Answers, ReceiveRequest, EndpointConnected, Adds, Msg, TypeOK
<1>2. Msg("DM_SNAPSHOT", dm[Kernel]) \in Message
  BY <1>0, MsgIsMessage
<1>3. \A m, n \in Message : /\ Len(Append(s, m)) = Len(s) + 1 /\ Append(s, m) # s
                            /\ ~(Len(Append(s, m)) < Len(s))
                            /\ Append(s, m) = Append(s, n) => m = n
  <2>. HIDE DEF s
  <2>1. \A m \in Message : Len(Append(s, m)) = Len(s) + 1 /\ Append(s, m)[Len(s) + 1] = m
    BY <1>0
  <2>. QED
    BY <1>0, <2>1
<1>4. CASE (Delivered(x)' <=> Delivered(x)) /\ (ring'[l] = s \/ Len(ring'[l]) < Len(s))
  BY <1>1, <1>2, <1>3, <1>4
<1>5. ASSUME NEW m \in Message, ring'[l] = Append(s, m), Writes(l, m),
             Delivered(x)' <=> Adds(m, x) \/ (~Removes(m, x) /\ Delivered(x))
      PROVE  Delivered(x)' <=> Delivered(x) \/ Answers(x)
  <2>1. CASE Answers(x)
    BY <1>1, <1>2, <1>3, <1>5, <2>1
  <2>2. CASE ~Answers(x)
    BY <1>5, <2>2, WritesAbout
  <2>. QED
    BY <2>1, <2>2
<1>. QED
  BY <1>4, <1>5, DeliveredSteps

(* The message of the owner has the last word.                             *)
LEMMA OwnerSends ==
  ASSUME TypeOK, CallsOwn, RingOwn, HomeHas, UsedIsThere, GoneIsGone, Usual, Sound', fatal' = {},
         NEW x \in Items, ~Leaves, ~ExitLayer \/ Home(x) = User, arg[OwnerOf[x]] = x,
         SendDM(OwnerOf[x]) \/ SendQuery(OwnerOf[x])
  PROVE  /\ SendQuery(OwnerOf[x]) \/ EndpointConnected(Home(x)) =>
              (Delivered(x)' <=> op[OwnerOf[x]] \in {"sendDMAdd", "sendAddQuery"})
         /\ ~SendQuery(OwnerOf[x]) /\ ~EndpointConnected(Home(x)) => (Delivered(x)' <=> Delivered(x))
<1>. DEFINE t == OwnerOf[x]
            l == Home(x)
            s == ring[l]
            type == CASE op[t] = "sendDMAdd" -> "DM_ADD" [] op[t] = "sendDMDel" -> "DM_DEL"
                      [] op[t] = "sendAddQuery" -> "QUERY_ADD" [] op[t] = "sendDelQuery" -> "QUERY_DEL"
            sent == Msg(type, x)
<1>0. /\ t \in Threads /\ LayerOf[t] = l /\ l \in Layers /\ s \in Seq(Message) /\ Len(s) \in Nat
  BY Peers, InTheRing DEF TypeOK, Home
<1>1. op[t] \in {"sendDMAdd", "sendDMDel", "sendAddQuery", "sendDelQuery"}
  BY DEF SendDM, SendQuery
<1>2. \A m, n \in Message : /\ Append(s, m) # s /\ ~(Len(Append(s, m)) < Len(s))
                            /\ Append(s, m) = Append(s, n) => m = n
  <2>. HIDE DEF s
  <2>1. \A m \in Message : Len(Append(s, m)) = Len(s) + 1 /\ Append(s, m)[Len(s) + 1] = m
    BY <1>0
  <2>. QED
    BY <1>0, <2>1
<1>3. /\ sent \in Message
      /\ Adds(sent, x) <=> op[t] \in {"sendDMAdd", "sendAddQuery"}
      /\ Removes(sent, x) <=> op[t] \in {"sendDMDel", "sendDelQuery"}
  <2>1. CASE op[t] = "sendDMAdd"
    BY <1>0, <2>1, MsgIsMessage DEF CallsOwn, Msg, Adds, Removes
  <2>2. CASE op[t] = "sendDMDel"
    BY <1>0, <2>2, MsgIsMessage DEF CallsOwn, Msg, Adds, Removes
  <2>3. CASE op[t] = "sendAddQuery"
    BY <1>0, <2>3, MsgIsMessage DEF CallsOwn, Msg, Adds, Removes
  <2>4. CASE op[t] = "sendDelQuery"
    BY <1>0, <2>4, MsgIsMessage DEF CallsOwn, Msg, Adds, Removes
  <2>. QED
    BY <1>1, <2>1, <2>2, <2>3, <2>4
<1>4. CASE SendQuery(t) \/ EndpointConnected(l)
  <2>1. ring'[l] = Append(s, sent)
    <3>1. CASE SendQuery(t)
      BY <1>0, <3>1 DEF SendQuery, Write, TypeOK
    <3>2. CASE SendDM(t) /\ EndpointConnected(l)
      BY <1>0, <3>2 DEF SendDM, Write, TypeOK
    <3>. QED
      BY <1>4, <3>1, <3>2
  <2>. HIDE DEF sent
  <2>2. Delivered(x)' <=> Adds(sent, x) \/ (~Removes(sent, x) /\ Delivered(x))
    BY <1>2, <1>3, <2>1, DeliveredSteps
  <2>. QED
    BY <1>1, <1>3, <1>4, <2>2
<1>5. CASE ~SendQuery(t) /\ ~EndpointConnected(l)
  <2>1. ring'[l] = s
    BY <1>0, <1>5 DEF SendDM
  <2>. QED
    BY <1>2, <1>5, <2>1, DeliveredSteps
<1>. QED
  BY <1>4, <1>5

(* What the owner is about to do with an item, by what it is doing.        *)
LEMMA Abouts ==
  ASSUME TypeOK, NEW x \in Items
  PROVE  /\ OwnerOf[x] \in Threads /\ x # Nothing
         /\ arg[OwnerOf[x]] = x => About(x) = op[OwnerOf[x]]
         /\ arg[OwnerOf[x]] # x => About(x) = "idle"
         /\ arg'[OwnerOf[x]] = x => About(x)' = op'[OwnerOf[x]]
         /\ arg'[OwnerOf[x]] # x => About(x)' = "idle"
BY Peers, LinkAssumption DEF About

(* What the other layer will have of an item changes as what its own layer *)
(* has of it does, unless nobody is there to be told.                      *)
LEMMA WillHaveSteps ==
  ASSUME TypeOK, CallsOwn, CallsKnow, RingOwn, HomeHas, UsedIsThere, GoneIsGone, RegisteredIsSent,
         NobodyThere, Usual, Sound', fatal' = {}, NEW x \in Items, ~Leaves, ~ExitLayer \/ Home(x) = User,
         x \in Queries /\ Home(x) = Kernel => mishap' = {}
  PROVE  \/ /\ WillHave(x)' <=> WillHave(x) \/ Answers(x)
            /\ x \in registered' <=> x \in registered
         \/ x \in registered' /\ WillHave(x)'
         \/ x \notin registered' /\ ~WillHave(x)'
         \/ /\ ~EndpointConnected(Home(x)) /\ (WillHave(x)' => Delivered(x))
            /\ x \in registered' <=> x \in registered
<1>. DEFINE t == OwnerOf[x]
<1>0. /\ t \in Threads /\ LayerOf[t] = Home(x) /\ x # Nothing
      /\ x \in Providers <=> x \notin Queries
  BY Peers, LinkAssumption DEF Home, Items
<1>1. /\ WillHave(x) <=> \/ About(x) \in {"sendDMAdd", "sendAddQuery"}
                         \/ About(x) \notin {"sendDMDel", "sendDelQuery"} /\ Delivered(x)
      /\ WillHave(x)' <=> \/ About(x)' \in {"sendDMAdd", "sendAddQuery"}
                          \/ About(x)' \notin {"sendDMDel", "sendDelQuery"} /\ Delivered(x)'
  BY DEF WillHave, Delivered
<1>2. /\ arg[t] = x => About(x) = op[t]
      /\ arg[t] # x => About(x) = "idle"
      /\ arg'[t] = x => About(x)' = op'[t]
      /\ arg'[t] # x => About(x)' = "idle"
  BY Abouts
<1>3. ~(arg[t] = x /\ (SendDM(t) \/ SendQuery(t))) => (Delivered(x)' <=> Delivered(x) \/ Answers(x))
  BY DeliveredStays
<1>4. Answers(x) => x \in registered /\ op' = op /\ arg' = arg /\ registered' = registered
  <2>1. ASSUME Answers(x)
        PROVE  x \in registered
    BY <1>0, <2>1, HasIsRegistered, NextHistory, Peers DEF Answers, Has, Sound, None
  <2>2. ASSUME Answers(x)
        PROVE  op' = op /\ arg' = arg /\ registered' = registered
    BY <2>2 DEF Answers, ReceiveRequest, calls
  <2>. QED
    BY <2>1, <2>2
<1>5. About(x) \in {"sendDMDel", "sendDelQuery"} => x \notin registered
  BY <1>0, <1>2 DEF CallsKnow
<1>6. ASSUME About(x)' = About(x), ~(arg[t] = x /\ (SendDM(t) \/ SendQuery(t)))
      PROVE  WillHave(x)' <=> WillHave(x) \/ Answers(x)
  BY <1>1, <1>3, <1>4, <1>5, <1>6
<1>. DEFINE Goal == \/ /\ WillHave(x)' <=> WillHave(x) \/ Answers(x)
                       /\ x \in registered' <=> x \in registered
                    \/ x \in registered' /\ WillHave(x)'
                    \/ x \notin registered' /\ ~WillHave(x)'
                    \/ /\ ~EndpointConnected(Home(x)) /\ (WillHave(x)' => Delivered(x))
                       /\ x \in registered' <=> x \in registered
<1>7. ASSUME op'[t] = op[t], arg'[t] = arg[t]
      PROVE  Goal
  <2>1. ~SendDM(t) /\ ~SendQuery(t)
    BY <1>0, <1>7 DEF SendDM, SendQuery, Goto, TypeOK
  <2>2. About(x)' = About(x)
    BY <1>2, <1>7
  <2>3. ~(addQueries(t) \/ delQueries(t))
    BY <1>0, <1>7 DEF addQueries, delQueries, Goto, TypeOK
  <2>4. registerProvider(t, x) \/ unregisterProvider(t, x) => registered' = registered
    BY <1>0, <1>7 DEF registerProvider, unregisterProvider, Goto, TypeOK
  <2>5. x \in registered' <=> x \in registered
    BY <1>0, <2>3, <2>4, Registers
  <2>. QED
    BY <1>6, <2>1, <2>2, <2>5
<1>8. ASSUME NEW p \in Providers, registerProvider(t, p), op'[t] = "sendDMAdd", arg'[t] = p
      PROVE  Goal
  <2>1. op[t] = "idle" /\ arg[t] = Nothing /\ registered' = registered \cup {p}
    BY <1>0, <1>8 DEF registerProvider, CallsOwn
  <2>2. CASE x = p
    BY <1>1, <1>2, <1>8, <2>1, <2>2
  <2>3. CASE x # p
    BY <1>0, <1>2, <1>6, <1>8, <2>1, <2>3
  <2>. QED
    BY <2>2, <2>3
<1>9. ASSUME NEW p \in Providers, unregisterProvider(t, p), op'[t] = "sendDMDel", arg'[t] = p
      PROVE  Goal
  <2>1. op[t] = "idle" /\ arg[t] = Nothing /\ registered' = registered \ {p}
    BY <1>0, <1>9 DEF unregisterProvider, CallsOwn
  <2>2. CASE x = p
    BY <1>1, <1>2, <1>9, <2>1, <2>2
  <2>3. CASE x # p
    BY <1>0, <1>2, <1>6, <1>9, <2>1, <2>3
  <2>. QED
    BY <2>2, <2>3
<1>10. ASSUME NEW q \in Queries, CheckAdd(t, q) \/ CheckDel(t, q),
              op[t] = "idle", op'[t] \in {"checkedAdd", "checkedDel"}, arg'[t] = q
       PROVE  Goal
  <2>1. arg[t] = Nothing /\ registered' = registered
    BY <1>0, <1>10 DEF CheckAdd, CheckDel, Check, CallsOwn
  <2>2. Delivered(x)' <=> Delivered(x) \/ Answers(x)
    BY <1>0, <1>3, <2>1
  <2>3. /\ About(x) = "idle"
        /\ About(x)' \notin {"sendDMAdd", "sendAddQuery", "sendDMDel", "sendDelQuery"}
    BY <1>0, <1>2, <1>10, <2>1
  <2>. QED
    BY <1>1, <2>1, <2>2, <2>3
<1>11. ASSUME addQueries(t)
       PROVE  Goal
  <2>. DEFINE q == arg[t]
  <2>1. /\ op[t] = "checkedAdd" /\ q \in Queries /\ OwnerOf[q] = t
        /\ ~SendDM(t) /\ ~SendQuery(t)
    BY <1>0, <1>11 DEF addQueries, CallsOwn, SendDM, SendQuery
  <2>2. Delivered(x)' <=> Delivered(x) \/ Answers(x)
    BY <1>3, <2>1
  <2>3. About(x) \notin {"sendDMAdd", "sendAddQuery", "sendDMDel", "sendDelQuery"}
    BY <1>2, <2>1
  <2>4. CASE x # q
    <3>1. arg'[t] = q \/ arg'[t] = Nothing
      BY <1>0, <1>11 DEF addQueries, Goto, TypeOK
    <3>2. About(x)' = "idle"
      BY <1>0, <1>2, <2>4, <3>1
    <3>3. x \in registered' <=> x \in registered
      BY <1>11, <2>4 DEF addQueries
    <3>. QED
      BY <1>1, <2>2, <2>3, <3>2, <3>3
  <2>5. CASE x = q /\ Full(Home(x), x)
    <3>1. registered' = registered /\ arg'[t] = Nothing
      BY <1>0, <1>11, <2>5 DEF addQueries, Goto, TypeOK
    <3>. QED
      BY <1>0, <1>1, <1>2, <2>2, <2>3, <3>1
  <2>6. CASE x = q /\ ~Full(Home(x), x)
    <3>1. EndpointConnected(Home(x))
      <4>1. ASSUME ~EndpointConnected(Home(x))
            PROVE  FALSE
        <5>1. "unsent" \in mishap'
          BY <1>0, <1>11, <2>6, <4>1 DEF addQueries, Note
        <5>2. Home(x) = Kernel
          BY <4>1 DEF EndpointConnected
        <5>. QED
          BY <2>1, <2>6, <5>1, <5>2
      <4>. QED
        BY <4>1
    <3>2. x \in registered' /\ op'[t] = "sendAddQuery" /\ arg'[t] = x
      BY <1>0, <1>11, <2>6, <3>1 DEF addQueries, ShouldTransfer, Goto, TypeOK
    <3>. QED
      BY <1>1, <1>2, <3>2
  <2>. QED
    BY <2>4, <2>5, <2>6
<1>12. ASSUME SendDM(t) \/ SendQuery(t), op'[t] = "idle", arg'[t] = Nothing
       PROVE  Goal
  <2>1. registered' = registered /\ About(x)' = "idle"
    BY <1>0, <1>2, <1>12 DEF SendDM, SendQuery
  <2>2. CASE arg[t] # x
    BY <1>2, <1>6, <2>1, <2>2
  <2>3. CASE arg[t] = x
    <3>1. ~Answers(x) /\ op[t] \in {"sendDMAdd", "sendDMDel", "sendAddQuery", "sendDelQuery"}
      BY <1>4, <1>12, <2>3 DEF SendDM, SendQuery
    <3>2. CASE SendQuery(t) \/ (SendDM(t) /\ EndpointConnected(Home(x)))
      <4>1. Delivered(x)' <=> op[t] \in {"sendDMAdd", "sendAddQuery"}
        BY <2>3, <3>2, OwnerSends
      <4>. QED
        BY <1>1, <1>2, <2>1, <2>3, <3>1, <4>1
    <3>3. CASE SendDM(t) /\ ~EndpointConnected(Home(x))
      <4>1. ~SendQuery(t)
        BY <3>3 DEF SendDM, SendQuery
      <4>2. Delivered(x)' <=> Delivered(x)
        BY <2>3, <3>3, <4>1, OwnerSends
      <4>. QED
        BY <1>1, <2>1, <3>3, <4>2
    <3>. QED
      BY <1>12, <3>2, <3>3
  <2>. QED
    BY <2>2, <2>3
<1>13. ASSUME delQueries(t)
       PROVE  Goal
  <2>. DEFINE q == arg[t]
  <2>1. /\ op[t] = "checkedDel" /\ q \in Queries /\ OwnerOf[q] = t /\ q \in registered
        /\ ~SendDM(t) /\ ~SendQuery(t)
    BY <1>0, <1>13 DEF delQueries, CallsOwn, CallsKnow, SendDM, SendQuery
  <2>2. Delivered(x)' <=> Delivered(x) \/ Answers(x)
    BY <1>3, <2>1
  <2>3. About(x) \notin {"sendDMAdd", "sendAddQuery", "sendDMDel", "sendDelQuery"}
    BY <1>2, <2>1
  <2>4. CASE x # q
    <3>1. arg'[t] = q \/ arg'[t] = Nothing
      BY <1>0, <1>13 DEF delQueries, Goto, TypeOK
    <3>2. About(x)' = "idle"
      BY <1>0, <1>2, <2>4, <3>1
    <3>3. x \in registered' <=> x \in registered
      BY <1>13, <2>4 DEF delQueries
    <3>. QED
      BY <1>1, <2>2, <2>3, <3>2, <3>3
  <2>5. CASE x = q
    <3>1. x \notin registered'
      BY <1>13, <2>5 DEF delQueries
    <3>2. Home(x) = User \/ (Home(x) = Kernel /\ mishap = {})
      BY <2>1, <2>5, NextHistory, Peers DEF Layers
    <3>5. x \in transferred
      BY <2>1, <2>3, <2>5, <3>2, NextHistory DEF RegisteredIsSent, Sound
    <3>3. CASE EndpointConnected(Home(x))
      <4>1. op'[t] = "sendDelQuery" /\ arg'[t] = x
        BY <1>0, <1>13, <2>5, <3>5, <3>3 DEF delQueries, Goto, TypeOK
      <4>. QED
        BY <1>1, <1>2, <3>1, <4>1
    <3>4. CASE ~EndpointConnected(Home(x))
      <4>1. daemon = "down" /\ Home(x) = Kernel /\ mishap = {} /\ Sound
        BY <3>2, <3>4, LinkAssumption DEF EndpointConnected, Sound
      <4>2. x \notin registered
        BY <2>1, <2>5, <4>1 DEF NobodyThere
      <4>. QED
        BY <2>1, <2>5, <4>2
    <3>. QED
      BY <3>3, <3>4
  <2>. QED
    BY <2>4, <2>5
<1>14. ~Leaves
  OBVIOUS
<1>. QED
  BY <1>0, <1>7, <1>8, <1>9, <1>10, <1>11, <1>12, <1>13, CallSteps DEF Leaves

(* Empty messages add nothing.                                             *)
LEMMA NothingComes ==
  ASSUME NEW known, NEW s, NEW x, x \notin known, \A i \in 1 .. Len(s) : s[i].type = "EMPTY"
  PROVE  ~Delivers(known, s, Len(s), x)
BY DEF Delivers, Adds

(* The request of the daemon is gone once the kernel has handled it.       *)
LEMMA AskedBegins ==
  ASSUME TypeOK, CallsOwn, Usual, ~Leaves, Asked', ~Asked
  PROVE  ring[User] # <<>> /\ ReceiveRequest(Head(ring[User])) /\ EndpointConnected(Kernel)
<1>. DEFINE s == ring[User]
            r == ring'[User]
<1>0. /\ Kernel # User /\ User \in Layers /\ Peer(User) = Kernel
      /\ s \in Seq(Message) /\ DOMAIN s = 1 .. Len(s) /\ Len(s) \in Nat
  BY Peers, InTheRing, LinkAssumption DEF TypeOK
<1>1. CASE daemon' = daemon
  <2>1. PICK i \in DOMAIN s : s[i].type = "DM_SNAPSHOT"
    BY <1>1 DEF Asked
  <2>2. \A j \in DOMAIN r : r[j].type # "DM_SNAPSHOT"
    BY DEF Asked
  <2>3. PICK d \in {0, 1} : /\ \A j \in DOMAIN s : j > d => j - d \in DOMAIN r /\ r[j - d] = s[j]
                            /\ d = 1 => s # <<>> /\ Reads(Kernel, s[1])
    BY <1>0, RingShift
  <2>4. ~(i > d)
    BY <2>1, <2>2, <2>3
  <2>5. i = 1 /\ d = 1
    BY <1>0, <2>4
  <2>6. s # <<>> /\ Reads(Kernel, s[1]) /\ Head(s) = s[1]
    BY <1>0, <2>3, <2>5, InTheRing DEF TypeOK
  <2>7. ReceiveRequest(s[1])
    BY <1>0, <2>1, <2>5, <2>6
    DEF Reads, ReceiveAdd, ReceiveDel, ReceiveQueryAdd, ReceiveQueryDel, ReceiveContinue, ReceiveEmpty
  <2>. QED
    BY <1>1, <2>6, <2>7 DEF Asked, EndpointConnected
<1>2. CASE RequestSnapshot
  <2>1. r = Append(s, Msg("DM_SNAPSHOT", {})) /\ Msg("DM_SNAPSHOT", {}) \in Message
    BY <1>0, <1>2, MsgIsMessage DEF RequestSnapshot, Write, TypeOK
  <2>2. Len(s) + 1 \in DOMAIN r /\ r[Len(s) + 1].type = "DM_SNAPSHOT"
    <3>. HIDE DEF s, r
    <3>. QED BY <1>0, <2>1 DEF Msg
  <2>. QED
    BY <2>2 DEF Asked
<1>3. CASE InitSLC
  BY <1>3 DEF InitSLC, Asked
<1>. QED
  BY <1>1, <1>2, <1>3, DaemonSteps DEF Asked

(* The layers agree.                                                       *)
LEMMA NextAgreement ==
  ASSUME TypeOK, CallsOwn, CallsKnow, RingOwn, HomeHas, UsedIsThere, GoneIsGone, RequestFirst,
         RegisteredIsSent, NobodyThere, Agreement, HomeHas', Usual
  PROVE  Agreement'
<1>. SUFFICES ASSUME Sound', fatal' = {}
              PROVE  Agreement'
  BY DEF Agreement
<1>0. /\ Sound /\ fatal = {} /\ mishap \subseteq mishap' /\ TypeOK'
      /\ None({"unregistered", "memory", "restart"}) /\ None({"unregistered", "memory", "restart"})' /\ "restart" \notin mishap'
      /\ Kernel # User /\ Kernel \in Layers /\ User \in Layers
      /\ Peer(Kernel) = User /\ Peer(User) = Kernel /\ Providers \cap Queries = {}
  BY NextHistory, NextTypeOK, Steps, Peers, LinkAssumption DEF TypeOK, Sound, None
<1>1. ASSUME NEW x \in Items
      PROVE  /\ x \in Has(Home(x)) <=> x \in registered
             /\ x \in Has(Home(x))' <=> x \in registered'
  <2>1. x \in Has(Home(x)) <=> x \in registered
    BY <1>0, HasIsRegistered
  <2>2. Home(x) \in Layers /\ (x \in Providers <=> x \notin Queries)
    BY Peers, LinkAssumption DEF Items
  <2>3. dm'[Home(x)] \subseteq Providers /\ slots'[Home(x)] \subseteq Queries
    BY <1>0, <2>2 DEF TypeOK
  <2>4. x \in Has(Home(x))' <=> x \in registered'
    BY <1>0, <2>2, <2>3 DEF HomeHas, Has, None
  <2>. QED
    BY <2>1, <2>4
<1>2. ASSUME NEW x \in Items
      PROVE  /\ Home(x) = User => (WillHave(x) <=> x \in registered)
             /\ Home(x) = Kernel /\ daemon # "flushed" =>
                  /\ x \in Providers /\ WillHave(x) => x \in registered
                  /\ x \in Providers /\ x \in registered /\ Asked => WillHave(x)
                  /\ x \in Queries /\ mishap = {} => (WillHave(x) <=> x \in registered)
  BY <1>0, <1>1, <1>2 DEF Agreement
<1>3. SUFFICES ASSUME NEW x \in Items
               PROVE  /\ Home(x) = User => (WillHave(x)' <=> x \in registered')
                      /\ Home(x) = Kernel /\ daemon' # "flushed" =>
                           /\ x \in Providers /\ WillHave(x)' => x \in registered'
                           /\ x \in Providers /\ x \in registered' /\ Asked' => WillHave(x)'
                           /\ x \in Queries /\ mishap' = {} => (WillHave(x)' <=> x \in registered')
  BY <1>1 DEF Agreement
<1>4. CASE Leaves
  <2>1. /\ \A y \in Items : Home(y) = User => y \notin registered /\ y \notin dm[Kernel] \cup slots[Kernel]
        /\ transferred \cap registered = {} /\ ring[User] = <<>> /\ ring' = ring
        /\ \A i \in DOMAIN ring[Kernel] : ring[Kernel][i].type = "EMPTY"
        /\ \A t \in Threads : op[t] = "idle" /\ op'[t] = "idle"
    BY <1>0, <1>4, NoTrace
  <2>2. WillHave(x)' <=> Delivered(x)'
    BY <2>1, Abouts DEF WillHave, Delivered
  <2>3. dm'[User] = {} /\ slots'[User] = {} /\ dm'[Kernel] = dm[Kernel] /\ slots'[Kernel] = slots[Kernel]
    BY <1>0, <1>4 DEF Leaves, DestroySLC, Unmap, Gone, TypeOK
  <2>4. CASE Home(x) = User
    <3>1. x \notin Has(Kernel)' /\ x \notin registered'
      BY <1>4, <2>1, <2>3, <2>4 DEF Has, Leaves, DestroySLC, Unmap, Gone
    <3>2. ~Delivers(Has(Kernel)', <<>>, Len(<<>>), x)
      BY <3>1, NothingComes
    <3>3. ~Delivered(x)'
      BY <1>0, <2>1, <2>4, <3>2 DEF Delivered
    <3>. QED
      BY <1>0, <2>2, <2>4, <3>1, <3>3
  <2>5. CASE Home(x) = Kernel
    <3>1. x \notin Has(User)'
      BY <2>3 DEF Has
    <3>2. ~Delivers(Has(User)', ring[Kernel], Len(ring[Kernel]), x)
      BY <1>0, <2>1, <3>1, NothingComes, InTheRing DEF TypeOK
    <3>3. ~Delivered(x)'
      BY <1>0, <2>1, <2>5, <3>2 DEF Delivered
    <3>4. ~Asked'
      BY <1>4 DEF Leaves, DestroySLC, Unmap, Gone, Asked
    <3>5. ASSUME mishap' = {}, x \in Queries
          PROVE  x \notin registered'
      <4>1. About(x) = "idle"
        BY <2>1, Abouts
      <4>2. x \notin registered
        BY <1>0, <2>1, <3>5, <4>1 DEF RegisteredIsSent
      <4>. QED
        BY <1>4, <4>2 DEF Leaves, DestroySLC, Unmap, Gone
    <3>. QED
      BY <1>0, <2>2, <2>5, <3>3, <3>4, <3>5
  <2>. QED
    BY <2>4, <2>5, Peers DEF Layers
<1>5. CASE ExitLayer /\ Home(x) = Kernel
  BY <1>0, <1>5 DEF ExitLayer
<1>6. CASE ~Leaves /\ (~ExitLayer \/ Home(x) = User) /\ (x \in Queries /\ Home(x) = Kernel => mishap' = {})
  <2>1. /\ Answers(x) => x \in registered /\ x \in Providers /\ Home(x) = Kernel
        /\ x \in Providers <=> x \notin Queries
        /\ dm[Kernel] \subseteq Providers /\ slots[Kernel] \subseteq Queries
    <3>1. dm[Kernel] \subseteq Providers /\ slots[Kernel] \subseteq Queries
      BY <1>0 DEF TypeOK
    <3>. QED
      BY <1>0, <1>1, <3>1 DEF Answers, Has, Items
  <2>2. daemon' # "flushed" => daemon # "flushed" \/ ExitLayer
    BY <1>6, DaemonSteps DEF Leaves
  <2>3. CASE (WillHave(x)' <=> WillHave(x) \/ Answers(x)) /\ (x \in registered' <=> x \in registered)
    <3>1. ASSUME Home(x) = Kernel, x \in Providers, x \in registered, Asked', ~Asked
          PROVE  Answers(x)
      <4>1. x \in Has(Kernel)
        BY <1>1, <3>1
      <4>2. x \in dm[Kernel]
        BY <2>1, <3>1, <4>1 DEF Has
      <4>. QED
        BY <1>6, <3>1, <4>2, AskedBegins DEF Answers
    <3>2. CASE Home(x) = User
      BY <1>0, <1>2, <2>1, <2>3, <3>2
    <3>3. CASE Home(x) = Kernel /\ daemon' # "flushed"
      <4>1. daemon # "flushed" /\ (mishap' = {} => mishap = {})
        BY <1>0, <1>6, <2>2, <3>3
      <4>. QED
        BY <1>0, <1>2, <2>1, <2>3, <3>1, <3>3, <4>1
    <3>. QED
      BY <1>0, <3>2, <3>3
  <2>4. CASE /\ ~EndpointConnected(Home(x)) /\ (WillHave(x)' => Delivered(x))
             /\ x \in registered' <=> x \in registered
    <3>1. Home(x) = Kernel /\ daemon = "down"
      BY <2>4 DEF EndpointConnected
    <3>2. /\ \A i \in DOMAIN ring[Kernel] : ring[Kernel][i].type = "EMPTY"
          /\ x \notin Has(User)
          /\ mishap = {} /\ x \in Queries => x \notin registered
      BY <1>0, <3>1 DEF NobodyThere
    <3>3. ~Delivers(Has(User), ring[Kernel], Len(ring[Kernel]), x)
      BY <1>0, <3>2, NothingComes, InTheRing DEF TypeOK
    <3>4. ~WillHave(x)'
      BY <1>0, <2>4, <3>1, <3>3 DEF Delivered
    <3>5. ~Asked'
      BY <1>6, <3>1, DaemonSteps DEF Asked
    <3>. QED
      BY <1>0, <2>1, <2>4, <3>1, <3>2, <3>4, <3>5
  <2>5. CASE x \in registered' /\ WillHave(x)'
    BY <2>5
  <2>6. CASE x \notin registered' /\ ~WillHave(x)'
    BY <2>6
  <2>. QED
    BY <1>0, <1>6, <2>3, <2>4, <2>5, <2>6, WillHaveSteps
<1>7. CASE x \in Queries /\ Home(x) = Kernel /\ mishap' # {}
  BY <1>0, <1>7
<1>. QED
  BY <1>0, <1>4, <1>5, <1>6, <1>7, Peers DEF Layers

-----------------------------------------------------------------------------
(* The whole invariant.                                                    *)

(* Initially nobody has anything, and nothing is on its way.               *)
LEMMA InitInv == Init => IInv
<1>. SUFFICES ASSUME Init PROVE IInv
  OBVIOUS
<1>1. TypeOK
  BY InitTypeOK
<1>2. /\ \A l \in Layers : dm[l] = {} /\ slots[l] = {} /\ ring[l] = <<>> /\ DOMAIN ring[l] = {}
      /\ \A t \in Threads : op[t] = "idle" /\ arg[t] = Nothing
      /\ fresh = Items /\ registered = {} /\ transferred = {} /\ daemon = "down"
      /\ fatal = {} /\ mishap = {}
  BY DEF Init
<1>3. CallsOwn /\ CallsKnow /\ RingOwn /\ SlotsHaveNode /\ CheckedHasNode /\ GoneIsGone
  BY <1>2 DEF CallsOwn, CallsKnow, RingOwn, SlotsHaveNode, CheckedHasNode, GoneIsGone
<1>4. HomeHas /\ NodeComesFirst /\ RegisteredIsSent /\ FatalHasCause
  BY <1>2, Peers DEF HomeHas, NodeComesFirst, RegisteredIsSent, FatalHasCause, Items
<1>5. \A p \in Providers : ~InUse(p)
  BY <1>2, LinkAssumption DEF InUse, At, Items
<1>6. UsedIsThere
  BY <1>5 DEF UsedIsThere
<1>7. RequestFirst /\ NobodyThere
  BY <1>2, Peers DEF RequestFirst, NobodyThere, UserFree, Has
<1>8. \A x \in Items : About(x) = "idle"
  BY <1>1, <1>2, Abouts
<1>9. KernelCanForget
  BY <1>2, <1>8, Peers DEF KernelCanForget, Items
<1>10. ASSUME NEW x \in Items
       PROVE  ~WillHave(x) /\ x \notin Has(Home(x))
  <2>1. Home(x) \in Layers /\ Peer(Home(x)) \in Layers
    BY Peers
  <2>2. ~Delivers({}, <<>>, Len(<<>>), x)
    BY NothingComes
  <2>3. Has(Peer(Home(x))) = {} /\ Has(Home(x)) = {} /\ ring[Home(x)] = <<>>
    BY <1>2, <2>1 DEF Has
  <2>. QED
    BY <1>8, <2>2, <2>3 DEF WillHave
<1>11. Agreement
  <2>1. ~Asked
    BY <1>2 DEF Asked
  <2>2. \A x \in Items : Home(x) \in Layers
    BY Peers
  <2>. QED
    BY <1>10, <2>1, <2>2 DEF Agreement
<1>. QED
  BY <1>1, <1>3, <1>4, <1>6, <1>7, <1>9, <1>11 DEF IInv

(* What a step for which memory runs out notes, and who takes it.          *)
LEMMA LacksSteps ==
  ASSUME TypeOK, Lacks
  PROVE  /\ fatal = {} /\ mishap' = mishap \cup {"memory"}
         /\ UNCHANGED <<daemon, restarts, transferred>>
         /\ \/ \E t \in Threads : CallLacksMemory(t) /\ UNCHANGED ring /\ Alive(LayerOf[t])
            \/ \E l \in Layers, m \in Message :
                 /\ ring[Peer(l)] # <<>> /\ m = Head(ring[Peer(l)])
                 /\ ReceiveLacksMemory(l, m) /\ ReadEnd(l) /\ UNCHANGED calls
<1>1. ASSUME NEW t \in Threads, CallLacksMemory(t)
      PROVE  mishap' = mishap \cup {"memory"} /\ UNCHANGED <<ring, daemon, restarts, transferred>>
  BY <1>1 DEF CallLacksMemory, LacksMemory, Note, daemonVars
<1>2. ASSUME NEW l \in Layers, ring[Peer(l)] # <<>>, ReceiveLacksMemory(l, Head(ring[Peer(l)]))
      PROVE  /\ mishap' = mishap \cup {"memory"} /\ UNCHANGED <<daemon, restarts, transferred>>
             /\ ReadEnd(l) /\ UNCHANGED calls /\ Head(ring[Peer(l)]) \in Message
  BY <1>2, Peers, TheHead DEF ReceiveLacksMemory, LacksMemory, Note, daemonVars, calls
<1>. QED
  BY <1>1, <1>2 DEF Lacks

(* The types.                                                              *)
LEMMA LacksTypeOK == ASSUME TypeOK, CallsOwn, Lacks PROVE TypeOK'
<1>0. SidesType /\ RingType /\ CallsType /\ HistoryType /\ Nothing \notin Items
  BY TypeParts, LinkAssumption
<1>1. ASSUME NEW l \in Layers, Fail(l, "NULL") \/ Fail(l, "lock") \/ UNCHANGED fatal
      PROVE  fatal' \subseteq Layers \X {"NULL", "lock", "race"}
  BY <1>0, <1>1 DEF Fail, HistoryType
<1>2. ASSUME NEW t \in Threads, CallLacksMemory(t)
      PROVE  /\ SidesType' /\ CallsType' /\ fatal' \subseteq Layers \X {"NULL", "lock", "race"}
  <2>1. LayerOf[t] \in Layers
    BY Peers
  <2>2. op[t] \in {"checkedAdd", "checkedDel"} => arg[t] \in Queries
    BY DEF CallsOwn
  <2>3. UNCHANGED transferred
    BY <1>2 DEF CallLacksMemory
  <2>4. Fail(LayerOf[t], "NULL") \/ UNCHANGED fatal
    BY <1>2 DEF CallLacksMemory
  <2>5. SidesType'
    BY <1>0, <1>2, <2>1, <2>2 DEF CallLacksMemory, SidesType, sides, Without
  <2>6. CallsType'
    BY <1>0, <1>2, <2>2, <2>3 DEF CallLacksMemory, CallsType, Goto, Items
  <2>. QED
    BY <1>1, <2>1, <2>4, <2>5, <2>6
<1>3. ASSUME NEW l \in Layers, NEW m \in Message, ReceiveLacksMemory(l, m)
      PROVE  SidesType' /\ fatal' \subseteq Layers \X {"NULL", "lock", "race"}
  <2>1. /\ m.type \in {"DM_ADD", "DM_DEL"} => m.what \in Providers
        /\ m.type = "DM_SNAPSHOT" => m.what \in SUBSET Providers
    BY MessageFields
  <2>2. Fail(l, "NULL") \/ Fail(l, "lock") \/ UNCHANGED fatal
    BY <1>3 DEF ReceiveLacksMemory
  <2>3. SidesType'
    BY <1>0, <1>3, <2>1 DEF ReceiveLacksMemory, SidesType, sides, Without
  <2>. QED
    BY <1>1, <2>2, <2>3
<1>4. ASSUME NEW k \in Layers, ring[k] # <<>>, ring' = [ring EXCEPT ![k] = Tail(@)]
      PROVE  RingType'
  BY <1>0, <1>4, RingTail, LinkAssumption DEF RingType
<1>5. SidesType' /\ CallsType' /\ fatal' \subseteq Layers \X {"NULL", "lock", "race"}
  BY <1>0, <1>2, <1>3, LacksSteps DEF CallsType, calls
<1>6. RingType'
  BY <1>0, <1>4, LacksSteps, Peers DEF RingType, ReadEnd
<1>7. HistoryType'
  BY <1>0, <1>5, LacksSteps DEF HistoryType
<1>. QED
  BY <1>5, <1>6, <1>7 DEF TypeOK, SidesType, RingType, CallsType, HistoryType

(* The calls: a thread for which memory runs out is idle then, or stays    *)
(* where it was.                                                           *)
LEMMA LacksCalls == ASSUME TypeOK, CallsOwn, CallsKnow, HomeHas, Lacks PROVE CallsOwn' /\ CallsKnow'
<1>0. /\ CallsType /\ Nothing \notin Items /\ registered \cap fresh = {} /\ Providers \cap Queries = {}
      /\ \A t \in Threads : op[t] # "idle" => OwnerOf[arg[t]] = t /\ arg[t] \in Items
  BY TypeParts, LinkAssumption DEF HomeHas, CallsOwn, TypeOK
<1>1. ASSUME NEW t \in Threads, CallLacksMemory(t)
      PROVE  /\ \/ UNCHANGED <<op, arg>>
                \/ Goto(t, "idle", Nothing)
             /\ fresh' \subseteq fresh /\ registered' \cap fresh' = {}
             /\ \A x : x \in fresh /\ x \notin fresh' => op[t] = "idle" \/ x = arg[t]
             /\ \A x : x \in fresh /\ x \notin fresh' /\ op[t] = "idle" => x \in Providers
             /\ \A x : x \in registered /\ x \notin registered' =>
                  OwnerOf[x] = t /\ (op[t] = "idle" \/ Goto(t, "idle", Nothing))
             /\ \A x : x \in registered' /\ x \notin registered => x = arg[t] /\ Goto(t, "idle", Nothing)
  BY <1>0, <1>1 DEF CallLacksMemory
<1>2. ASSUME NEW t \in Threads, CallLacksMemory(t), UNCHANGED <<daemon, transferred>>
      PROVE  CallsOwn' /\ CallsKnow'
  <2>1. CallsOwn'
    BY <1>0, <1>1, <1>2 DEF CallsOwn, Goto, CallsType
  <2>2. \A k \in Threads \ {t} : op'[k] = op[k] /\ arg'[k] = arg[k]
    BY <1>0, <1>1, <1>2 DEF Goto, CallsType
  <2>3. \/ op'[t] = op[t] /\ arg'[t] = arg[t]
        \/ op'[t] = "idle"
    BY <1>0, <1>1, <1>2 DEF Goto, CallsType
  <2>4. ASSUME NEW k \in Threads \ {t}
        PROVE  /\ op'[k] = "checkedAdd" => arg'[k] \in fresh'
               /\ op'[k] \in {"checkedDel", "sendDMAdd", "sendAddQuery"} => arg'[k] \in registered'
               /\ op'[k] \in {"sendDMDel", "sendDelQuery"} => arg'[k] \notin registered' \cup fresh'
    <3>1. op[k] # "idle" => OwnerOf[arg[k]] # t /\ arg[k] # arg[t]
      BY <1>0 DEF CallsOwn
    <3>2. op[k] = "checkedAdd" => arg[k] \in Queries
      BY DEF CallsOwn
    <3>. QED
      BY <1>0, <1>1, <1>2, <2>2, <3>1, <3>2 DEF CallsKnow
  <2>5. /\ op'[t] = "checkedAdd" => arg'[t] \in fresh'
        /\ op'[t] \in {"checkedDel", "sendDMAdd", "sendAddQuery"} => arg'[t] \in registered'
        /\ op'[t] \in {"sendDMDel", "sendDelQuery"} => arg'[t] \notin registered' \cup fresh'
    BY <1>0, <1>2, <2>3 DEF CallLacksMemory, CallsKnow, Goto, CallsType
  <2>6. \A k \in Threads : op'[k] = "sendAddQuery" => arg'[k] \notin transferred'
    BY <1>2, <2>2, <2>3 DEF CallsKnow
  <2>7. transferred' \cap fresh' = {}
    BY <1>1, <1>2 DEF CallsKnow
  <2>. QED
    BY <2>1, <2>4, <2>5, <2>6, <2>7 DEF CallsKnow
<1>3. ASSUME UNCHANGED <<calls, daemon>>
      PROVE  CallsOwn' /\ CallsKnow'
  BY <1>3 DEF calls, CallsOwn, CallsKnow
<1>. QED
  BY <1>2, <1>3, LacksSteps

(* What is known of the items and of their nodes without a condition.      *)
LEMMA LacksKnows ==
  ASSUME TypeOK, CallsOwn, CallsKnow, RingOwn, HomeHas, SlotsHaveNode, Lacks
  PROVE  RingOwn' /\ HomeHas' /\ SlotsHaveNode'
<1>0. /\ SidesType /\ Providers \cap Queries = {} /\ Providers \subseteq Items /\ Queries \subseteq Items
      /\ \A x \in Items : Home(x) \in Layers
  BY TypeParts, LinkAssumption, Peers DEF Items
<1>1. RingOwn'
  <2>1. ASSUME NEW k \in Layers, ring[k] # <<>>, ring' = [ring EXCEPT ![k] = Tail(@)]
        PROVE  RingOwn'
    BY <2>1, RingTail DEF RingOwn, TypeOK
  <2>2. CASE UNCHANGED ring
    BY <2>2 DEF RingOwn
  <2>. QED
    BY <2>1, <2>2, LacksSteps, Peers DEF ReadEnd
<1>. DEFINE Known ==
              /\ \A x \in registered' : x \notin fresh'
              /\ \A p \in Providers \cap registered' : p \in dm'[Home(p)]
              /\ \A q \in Queries : q \in slots'[Home(q)] => q \in registered'
<1>2. ASSUME NEW t \in Threads, CallLacksMemory(t)
      PROVE  Known /\ SlotsHaveNode'
  <2>. DEFINE l == LayerOf[t]
  <2>0. l \in Layers /\ \A p \in Providers : OwnerOf[p] = t => Home(p) = l
    BY Peers DEF Home
  <2>1. CASE UNCHANGED sides /\ fresh' \subseteq fresh /\ registered' = registered
    BY <2>1 DEF HomeHas, SlotsHaveNode, sides
  <2>2. ASSUME NEW p \in Providers, OwnerOf[p] = t, p \in fresh, fresh' = fresh \ {p},
               dm' \in {dm, [dm EXCEPT ![l] = @ \cup {p}]}, UNCHANGED <<slots, registered>>
        PROVE  Known /\ SlotsHaveNode'
    BY <1>0, <2>0, <2>2 DEF HomeHas, SlotsHaveNode, SidesType
  <2>3. ASSUME NEW p \in Providers, OwnerOf[p] = t, registered' = registered \ {p},
               Without(l, p) \/ UNCHANGED sides, UNCHANGED fresh
        PROVE  Known /\ SlotsHaveNode'
    BY <1>0, <2>0, <2>3 DEF HomeHas, SlotsHaveNode, SidesType, Without, At, sides
  <2>4. ASSUME op[t] = "checkedAdd", NodeOf[arg[t]] \in dm[l], fresh' = fresh \ {arg[t]},
               registered' = registered \cup {arg[t]},
               slots' = [slots EXCEPT ![l] = @ \cup {arg[t]}], UNCHANGED dm
        PROVE  Known /\ SlotsHaveNode'
    <3>1. arg[t] \in Queries
      BY <2>4 DEF CallsOwn
    <3>. QED
      BY <1>0, <2>0, <2>4, <3>1 DEF HomeHas, SlotsHaveNode, SidesType
  <2>5. ASSUME op[t] = "checkedDel", registered' = registered \ {arg[t]},
               slots' = [slots EXCEPT ![l] = @ \ {arg[t]}], UNCHANGED <<dm, fresh>>
        PROVE  Known /\ SlotsHaveNode'
    <3>1. arg[t] \in Queries /\ Home(arg[t]) = l
      BY <2>5 DEF CallsOwn, Home
    <3>. QED
      BY <1>0, <2>0, <2>5, <3>1 DEF HomeHas, SlotsHaveNode, SidesType
  <2>. HIDE DEF Known, l
  <2>. QED
    BY <1>2, <2>1, <2>2, <2>3, <2>4, <2>5 DEF CallLacksMemory, l
<1>3. ASSUME NEW l \in Layers, NEW m \in Message, ring[Peer(l)] # <<>>, m = Head(ring[Peer(l)]),
             ReceiveLacksMemory(l, m), UNCHANGED calls
      PROVE  Known /\ SlotsHaveNode'
  <2>1. /\ m.type \in {"DM_ADD", "DM_DEL"} => m.what \in Providers
        /\ m.type = "DM_SNAPSHOT" => m.what \in SUBSET Providers
        /\ m.type = "DM_DEL" => Home(m.what) # l
        /\ fresh' = fresh /\ registered' = registered
    <3>1. m.type = "DM_DEL" => Home(m.what) = Peer(l) /\ Peer(l) # l
      BY <1>3, TheHead, Peers DEF RingOwn
    <3>. QED
      BY <1>3, <3>1, MessageFields DEF calls
  <2>2. CASE UNCHANGED sides
    BY <2>1, <2>2 DEF HomeHas, SlotsHaveNode, sides
  <2>3. ASSUME NEW S \in SUBSET Providers, dm' = [dm EXCEPT ![l] = @ \cup S], UNCHANGED slots
        PROVE  Known /\ SlotsHaveNode'
    BY <1>0, <2>1, <2>3 DEF HomeHas, SlotsHaveNode, SidesType
  <2>4. ASSUME m.type = "DM_DEL", Without(l, m.what)
        PROVE  Known /\ SlotsHaveNode'
    BY <1>0, <2>1, <2>4 DEF HomeHas, SlotsHaveNode, SidesType, Without, At
  <2>5. CASE m.type = "DM_ADD" /\ dm' \in {dm, [dm EXCEPT ![l] = @ \cup {m.what}]} /\ UNCHANGED slots
    <3>1. CASE dm' = dm
      BY <2>2, <2>5, <3>1 DEF sides
    <3>2. CASE dm' = [dm EXCEPT ![l] = @ \cup {m.what}]
      <4>. DEFINE S == {m.what}
      <4>1. S \in SUBSET Providers /\ dm' = [dm EXCEPT ![l] = @ \cup S]
        BY <2>1, <2>5, <3>2
      <4>. HIDE DEF S
      <4>. QED
        BY <2>3, <2>5, <4>1
    <3>. QED
      BY <2>5, <3>1, <3>2
  <2>6. CASE /\ m.type = "DM_SNAPSHOT" /\ UNCHANGED slots
             /\ \E merged \in SUBSET m.what : dm' = [dm EXCEPT ![l] = @ \cup merged]
    BY <2>1, <2>3, <2>6
  <2>. HIDE DEF Known
  <2>. QED
    BY <1>3, <2>2, <2>4, <2>5, <2>6 DEF ReceiveLacksMemory
<1>4. Known /\ SlotsHaveNode'
  BY <1>2, <1>3, LacksSteps
<1>5. HomeHas'
  BY <1>4, LacksSteps DEF HomeHas, None
<1>. QED
  BY <1>1, <1>4, <1>5

(* A step for which memory runs out keeps the invariant: the rest of it has*)
(* the condition that there was memory.                                    *)
LEMMA LacksInv == ASSUME IInv, Lacks PROVE IInv'
<1>1. "memory" \in mishap' /\ fatal = {} /\ ~Sound'
  BY LacksSteps DEF IInv, Sound
<1>2. TypeOK' /\ CallsOwn' /\ CallsKnow' /\ RingOwn' /\ HomeHas' /\ SlotsHaveNode'
  BY LacksTypeOK, LacksCalls, LacksKnows DEF IInv
<1>3. /\ UsedIsThere' /\ CheckedHasNode' /\ GoneIsGone' /\ RequestFirst' /\ NodeComesFirst'
      /\ KernelCanForget' /\ RegisteredIsSent' /\ NobodyThere' /\ Agreement' /\ FatalHasCause'
  BY <1>1 DEF UsedIsThere, CheckedHasNode, GoneIsGone, RequestFirst, NodeComesFirst,
     KernelCanForget, RegisteredIsSent, NobodyThere, Agreement, FatalHasCause, None
<1>. QED
  BY <1>2, <1>3 DEF IInv

(* Where two writers of userspace meet the model ends.                     *)
LEMMA OverlapInv == ASSUME IInv, fatal = {}, Overlap PROVE IInv'
<1>0. fatal' = {<<User, "race">>} /\ UNCHANGED <<sides, ring, calls, daemonVars, mishap>>
  BY DEF Overlap, Fail
<1>. USE DEF sides, calls, daemonVars
<1>1. TypeOK' /\ CallsOwn' /\ CallsKnow' /\ RingOwn' /\ HomeHas' /\ SlotsHaveNode'
  BY <1>0, Peers DEF IInv, TypeOK, CallsOwn, CallsKnow, RingOwn, HomeHas, SlotsHaveNode, None
<1>2. UsedIsThere' /\ CheckedHasNode' /\ GoneIsGone' /\ RequestFirst' /\ NodeComesFirst'
  BY <1>0 DEF IInv, UsedIsThere, CheckedHasNode, GoneIsGone, RequestFirst, NodeComesFirst, None,
     InUse, UserFree
<1>3. RegisteredIsSent' /\ NobodyThere'
  BY <1>0 DEF IInv, RegisteredIsSent, NobodyThere, About, Sound, Has
<1>4. KernelCanForget' /\ Agreement' /\ FatalHasCause'
  BY <1>0 DEF KernelCanForget, Agreement, FatalHasCause
<1>. QED
  BY <1>1, <1>2, <1>3, <1>4 DEF IInv

(* A step that changes nothing keeps it.                                   *)
LEMMA StutterInv == ASSUME IInv, UNCHANGED vars PROVE IInv'
<1>1. /\ TypeOK' /\ CallsOwn' /\ CallsKnow' /\ RingOwn' /\ HomeHas' /\ SlotsHaveNode'
  BY DEF IInv, vars, sides, calls, daemonVars, TypeOK, CallsOwn, CallsKnow, RingOwn, HomeHas,
         SlotsHaveNode, None
<1>2. UsedIsThere' /\ CheckedHasNode' /\ GoneIsGone' /\ RequestFirst' /\ NodeComesFirst'
  BY DEF IInv, vars, sides, calls, daemonVars, UsedIsThere, CheckedHasNode, GoneIsGone, RequestFirst,
         NodeComesFirst, None, InUse, UserFree
<1>3. KernelCanForget' /\ RegisteredIsSent' /\ NobodyThere' /\ FatalHasCause'
  BY DEF IInv, vars, sides, calls, daemonVars, KernelCanForget, RegisteredIsSent, NobodyThere,
         FatalHasCause, None, KernelHas, ToKernel, About, Sound, Has
<1>4. Agreement'
  BY DEF IInv, vars, sides, calls, daemonVars, Agreement, WillHave, About, Has, Asked, Sound
<1>. QED
  BY <1>1, <1>2, <1>3, <1>4 DEF IInv

(* Every step keeps it.                                                    *)
LEMMA NextInv == IInv /\ [Next]_vars => IInv'
<1>1. ASSUME IInv, Usual
      PROVE  IInv'
  <2>. USE <1>1 DEF IInv
  <2>1. TypeOK' /\ CallsOwn' /\ CallsKnow' /\ RingOwn' /\ SlotsHaveNode'
    BY NextTypeOK, NextCallsOwn, NextCallsKnow, NextRingOwn, NextSlotsHaveNode
  <2>2. HomeHas' /\ UsedIsThere' /\ CheckedHasNode' /\ GoneIsGone' /\ RequestFirst'
    BY NextHomeHas, NextUsedIsThere, NextCheckedHasNode, NextGoneIsGone, NextRequestFirst
  <2>3. NodeComesFirst' /\ KernelCanForget' /\ RegisteredIsSent' /\ NobodyThere' /\ FatalHasCause'
    BY NextNodeComesFirst, NextKernelCanForget, NextRegisteredIsSent, NextNobodyThere,
       NextFatalHasCause
  <2>4. Agreement'
    BY <2>2, NextAgreement
  <2>. QED
    BY <2>1, <2>2, <2>3, <2>4
<1>. QED
  BY <1>1, StutterInv, LacksInv, OverlapInv, NextIs

(* The inductive invariant holds.                                          *)
THEOREM Invariant == Spec => []IInv
BY InitInv, NextInv, PTL DEF Spec

(* The variables keep to their types; rings keep to their capacity.        *)
THEOREM TypeCorrect == Spec => []TypeOK
<1>1. IInv => TypeOK
  BY DEF IInv
<1>. QED
  BY <1>1, Invariant, PTL

(* A NULL dereference and a broken lock have their causes: commThreadWork, *)
(* addQueries, delQueries.                                                 *)
THEOREM FatalNeedsCause == Spec => []FatalHasCause
<1>1. IInv => FatalHasCause
  BY DEF IInv
<1>. QED
  BY <1>1, Invariant, PTL

(* What registerProvider, registerQuery and their counterparts did at one  *)
(* layer, and what the messages on their way make of the other, agree.     *)
THEOREM LayersWillAgree == Spec => []LayersAgree
<1>1. ASSUME IInv, Synchronised, Sound, fatal = {}, NEW x \in Items, x \in Queries => mishap = {}
      PROVE  WillHave(x) <=> x \in Has(Home(x))
  <2>1. Asked /\ daemon # "flushed"
    BY <1>1 DEF Synchronised, Asked
  <2>2. Home(x) = User \/ Home(x) = Kernel
    BY Peers DEF Layers
  <2>. QED
    BY <1>1, <2>1, <2>2 DEF IInv, Agreement, Items
<1>2. IInv => LayersAgree
  BY <1>1 DEF LayersAgree
<1>. QED
  BY <1>2, Invariant, PTL

===============================================================================
