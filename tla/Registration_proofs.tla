------------------------- MODULE Registration_proofs --------------------------
(***************************************************************************)
(* Registration at a node for any queries, any number of slots, handlers   *)
(* and types of events: a query keeps its slot until it is unregistered,   *)
(* and nothing refers to it afterwards.                                    *)
(***************************************************************************)
EXTENDS Registration, FiniteSetTheorems, TLAPS

(* Each place in K of the list s is taken over by one place of w.          *)
TakesOver(w, s, K) ==
  \E f \in Bijection(1 .. Len(w), K) : \A n \in 1 .. Len(w) : w[n] = s[f[n]]

(* A purge leaves a list of the same jobs, none of them among the purged   *)
(* ones, as many as there were to keep.                                    *)
LEMMA WithoutTheorem ==
  ASSUME NEW S, NEW s \in Seq(S), NEW D, NEW w, w = Without(s, D),
         NEW K, K = {i \in 1 .. Len(s) : s[i] \notin D}
  PROVE  /\ w \in Seq(S) /\ Len(w) = Cardinality(K) /\ Len(w) <= Len(s)
         /\ TakesOver(w, s, K)
  <1>. DEFINE c == Cardinality(K)
              Upto(i) == {j \in K : j <= i}
              rank == [i \in K |-> Cardinality(Upto(i))]
              Place(n) == CHOOSE i \in K : Cardinality(Upto(i)) = n
              f == [n \in 1 .. c |-> Place(n)]
  <1>1. IsFiniteSet(1 .. Len(s)) /\ Cardinality(1 .. Len(s)) = Len(s)
    <2>1. Len(s) \in Nat
      OBVIOUS
    <2>2. /\ IsFiniteSet(1 .. Len(s))
          /\ Cardinality(1 .. Len(s)) = IF 1 > Len(s) THEN 0 ELSE Len(s) - 1 + 1
      BY <2>1, FS_Interval
    <2>. QED BY <2>1, <2>2
  <1>2. IsFiniteSet(K) /\ c \in Nat /\ c <= Len(s)
    <2>1. K \subseteq 1 .. Len(s) /\ Len(s) \in Nat
      OBVIOUS
    <2>2. /\ IsFiniteSet(K) /\ Cardinality(K) \in Nat
          /\ Cardinality(K) <= Cardinality(1 .. Len(s))
      BY <1>1, <2>1, FS_Subset, FS_CardinalityType
    <2>. QED BY <1>1, <2>2
  <1>3. ASSUME NEW i \in K PROVE IsFiniteSet(Upto(i)) /\ rank[i] \in 1 .. c
    <2>1. Upto(i) \subseteq K /\ i \in Upto(i)
      OBVIOUS
    <2>2. IsFiniteSet(Upto(i)) /\ Cardinality(Upto(i)) <= c
      BY <1>2, <2>1, FS_Subset
    <2>3. Cardinality(Upto(i)) \in Nat /\ Cardinality(Upto(i)) # 0
      BY <2>1, <2>2, FS_CardinalityType, FS_EmptySet
    <2>. QED BY <1>2, <2>2, <2>3
  <1>4. ASSUME NEW i \in K, NEW j \in K, rank[i] = rank[j] PROVE ~ (i < j)
    <2>1. SUFFICES ASSUME i < j PROVE FALSE
      OBVIOUS
    <2>2. Upto(i) \subseteq Upto(j) /\ j \in Upto(j) /\ j \notin Upto(i)
      BY <2>1
    <2>. QED BY <1>3, <1>4, <2>2, FS_Subset
  <1>5. rank \in Injection(K, 1 .. c)
    <2>1. ASSUME NEW i \in K, NEW j \in K, rank[i] = rank[j] PROVE i = j
      <3>1. ~ (i < j) /\ ~ (j < i)
        BY <1>4, <2>1
      <3>. QED BY <3>1
    <2>. QED BY <1>3, <2>1 DEF Injection, IsInjective
  <1>6. rank \in Surjection(K, 1 .. c)
    <2>1. IsFiniteSet(1 .. c) /\ Cardinality(1 .. c) = c
      BY <1>2, FS_Interval
    <2>. HIDE DEF rank, c
    <2>. QED BY <1>5, <2>1, FS_Injection DEF c
  <1>7. ASSUME NEW n \in 1 .. c PROVE f[n] \in K /\ rank[f[n]] = n
    <2>1. \E i \in K : Cardinality(Upto(i)) = n
      BY <1>6 DEF Surjection
    <2>2. Place(n) \in K /\ Cardinality(Upto(Place(n))) = n
      <3>. HIDE DEF Upto
      <3>. QED BY <2>1, Zenon
    <2>. QED BY <2>2
  <1>8. \A i \in K : rank[i] \in 1 .. c /\ f[rank[i]] = i
    <2>1. ASSUME NEW i \in K PROVE rank[i] \in 1 .. c /\ f[rank[i]] = i
      <3>1. rank[i] \in 1 .. c
        BY <1>3
      <3>2. f[rank[i]] \in K /\ rank[f[rank[i]]] = rank[i]
        BY <1>7, <3>1
      <3>. HIDE DEF rank, f
      <3>. QED BY <1>5, <3>1, <3>2 DEF Injection, IsInjective
    <2>. QED BY <2>1
  <1>9. DOMAIN s = 1 .. Len(s)
    OBVIOUS
  <1>10. w = [n \in 1 .. c |-> s[Place(n)]]
    <2>. DEFINE Kept == [L \in SUBSET DOMAIN s |->
                           [n \in 1 .. Cardinality(L) |->
                              s[CHOOSE i \in L : Cardinality({j \in L : j <= i}) = n]]]
    <2>1. K = {i \in DOMAIN s : s[i] \notin D} /\ K \in SUBSET DOMAIN s
      BY <1>9
    <2>2. w = Kept[K]
      BY <2>1, Zenon DEF Without
    <2>3. Kept[K] = [n \in 1 .. c |-> s[Place(n)]]
      BY <2>1, Zenon
    <2>. QED BY <2>2, <2>3
  <1>11. w = [n \in 1 .. c |-> s[f[n]]]
    BY <1>10
  <1>. HIDE DEF f, rank
  <1>12. w \in Seq(S) /\ Len(w) = c
    <2>1. \A n \in 1 .. c : s[f[n]] \in S
      BY <1>7
    <2>. QED BY <1>2, <1>11, <2>1
  <1>13. f \in Bijection(1 .. c, K)
    <2>1. f \in [1 .. c -> K]
      BY <1>7 DEF f
    <2>2. \A m, n \in 1 .. c : f[m] = f[n] => m = n
      BY <1>7
    <2>3. \A i \in K : \E n \in 1 .. c : f[n] = i
      BY <1>8
    <2>. QED BY <2>1, <2>2, <2>3 DEF Bijection, Injection, Surjection, IsInjective
  <1>. QED BY <1>2, <1>11, <1>12, <1>13 DEF TakesOver

(* As many jobs are left as there were to keep.                            *)
LEMMA PurgedLength ==
  ASSUME NEW S, NEW s \in Seq(S), NEW D
  PROVE  Len(Without(s, D)) = Cardinality({i \in 1 .. Len(s) : s[i] \notin D})
  <1>. DEFINE w == Without(s, D)
              K == {i \in 1 .. Len(s) : s[i] \notin D}
  <1>1. /\ w \in Seq(S) /\ Len(w) = Cardinality(K) /\ Len(w) <= Len(s)
        /\ TakesOver(w, s, K)
    BY WithoutTheorem, Zenon
  <1>. QED BY <1>1

(* Each job that is left was in the list and is not a purged one.          *)
LEMMA PurgedTheorem ==
  ASSUME NEW S, NEW s \in Seq(S), NEW D
  PROVE  /\ Without(s, D) \in Seq(S)
         /\ Len(Without(s, D)) <= Len(s)
         /\ \A k \in 1 .. Len(Without(s, D)) :
              /\ Without(s, D)[k] \notin D
              /\ \E j \in 1 .. Len(s) : Without(s, D)[k] = s[j]
  <1>. DEFINE w == Without(s, D)
              K == {i \in 1 .. Len(s) : s[i] \notin D}
  <1>1. /\ w \in Seq(S) /\ Len(w) = Cardinality(K) /\ Len(w) <= Len(s)
        /\ TakesOver(w, s, K)
    BY WithoutTheorem, Zenon
  <1>. HIDE DEF w, K
  <1>2. PICK f \in Bijection(1 .. Len(w), K) : \A n \in 1 .. Len(w) : w[n] = s[f[n]]
    BY <1>1 DEF TakesOver
  <1>3. f \in [1 .. Len(w) -> K]
    BY <1>2 DEF Bijection, Injection
  <1>4. \A k \in 1 .. Len(w) : w[k] = s[f[k]] /\ f[k] \in 1 .. Len(s) /\ s[f[k]] \notin D
    BY <1>2, <1>3 DEF K
  <1>. QED BY <1>1, <1>4 DEF w

Jobs == [query : Queries, tuple : BOOLEAN]

(* A filled slot and its query point to each other.                        *)
SlotsAgree ==
  \A i \in 1 .. Slots : queries[i] # NoQuery => idx[queries[i]] = i

(* Handlers and timers only know queries between activate and deactivate.  *)
ArmedRegistered ==
  /\ \A q \in armed : phase[q] \in {"activated", "registered", "deactivate"}
  /\ \A h \in Handlers : todo[h] \subseteq armed
  /\ IsSource => ListLockFree

(* Only status queries have a status thread.                               *)
StatusThreads == \A q \in status : StatusQuery(q)

IInv ==
  /\ TypeOK /\ OwnSlot /\ NoStaleSlot /\ SlotsAgree
  /\ ArmedRegistered /\ StatusThreads /\ NoJobOfFreedQuery

Live(q) == phase[q] # "unregistered" \/ StatusQuery(q)

-------------------------------------------------------------------------------
LEMMA InitInv == Init => IInv
  <1>. SUFFICES ASSUME Init PROVE IInv
    OBVIOUS
  <1>1. TypeOK
    <2>1. dataModelType \in NodeTypes /\ objectEvents \in Wishes /\ numQueries \in Int
      BY DEF Init
    <2>2. queries \in [1 .. Slots -> Queries \cup {NoQuery}] /\ idx \in [Queries -> 1 .. Slots]
      BY RegistrationAssumption DEF Init
    <2>3. phase \in [Queries -> {"unregistered", "registered"} \cup Windows]
      BY DEF Init
    <2>4. armed \subseteq Queries /\ status \subseteq Queries /\ todo \in [Handlers -> SUBSET Queries]
      BY DEF Init
    <2>5. list \in Seq([query : Queries, tuple : BOOLEAN]) /\ cur \in Queries \cup {NoQuery}
      BY DEF Init
    <2>. QED BY <2>1, <2>2, <2>3, <2>4, <2>5 DEF TypeOK
  <1>2. OwnSlot /\ NoStaleSlot /\ SlotsAgree
    BY DEF Init, OwnSlot, NoStaleSlot, SlotsAgree
  <1>3. ArmedRegistered /\ StatusThreads
    BY DEF Init, ArmedRegistered, StatusThreads, ListLockFree
  <1>4. NoJobOfFreedQuery
    BY RegistrationAssumption DEF Init, NoJobOfFreedQuery
  <1>. QED BY <1>1, <1>2, <1>3, <1>4 DEF IInv

(* The type of the node and the wishes of the queries never change.        *)
LEMMA Fixed ==
  ASSUME UNCHANGED fixed, NEW q, NEW e
  PROVE  /\ IsSource' <=> IsSource
         /\ StatusQuery(q)' <=> StatusQuery(q)
         /\ Matches(q, e)' <=> Matches(q, e)
  BY DEF fixed, IsSource, StatusQuery, Matches

(* When the queue, the handlers and the phases only lose queries, nothing  *)
(* new refers to a freed one.                                              *)
LEMMA QueueUntouched ==
  ASSUME NoJobOfFreedQuery, UNCHANGED <<fixed, todo, queue>>,
         \A q \in Queries : phase'[q] = "unregistered" => phase[q] = "unregistered"
  PROVE  NoJobOfFreedQuery'
  BY Fixed DEF NoJobOfFreedQuery, queue

-------------------------------------------------------------------------------
(* A query takes a slot that is free, so it takes no other query's.        *)
LEMMA AddInv ==
  ASSUME IInv, NEW q \in Queries, NEW next \in {"registered", "activate"}, Add(q, next)
  PROVE  /\ OwnSlot' /\ NoStaleSlot' /\ SlotsAgree' /\ NoJobOfFreedQuery'
         /\ queries' \in [1 .. Slots -> Queries \cup {NoQuery}]
         /\ phase' \in [Queries -> {"unregistered", "registered"} \cup Windows]
         /\ idx' \in [Queries -> 1 .. Slots]
         /\ q \notin armed
  <1>. USE DEF IInv
  <1>1. PICK i \in FreeSlot :
          idx' = [idx EXCEPT ![q] = i] /\ queries' = [queries EXCEPT ![i] = q]
    BY DEF Add
  <1>2. i \in 1 .. Slots /\ queries[i] = NoQuery
    BY DEF FreeSlot
  <1>3. /\ phase[q] = "unregistered" /\ phase' = [phase EXCEPT ![q] = next]
        /\ UNCHANGED <<fixed, todo, queue>>
    BY DEF Add
  <1>4. /\ queries \in [1 .. Slots -> Queries \cup {NoQuery}]
        /\ phase \in [Queries -> {"unregistered", "registered"} \cup Windows]
        /\ idx \in [Queries -> 1 .. Slots]
    BY DEF TypeOK
  <1>5. /\ queries' \in [1 .. Slots -> Queries \cup {NoQuery}]
        /\ phase' \in [Queries -> {"unregistered", "registered"} \cup Windows]
        /\ idx' \in [Queries -> 1 .. Slots]
    BY <1>1, <1>2, <1>3, <1>4 DEF Windows
  <1>6. \A j \in 1 .. Slots : queries[j] # q
    BY <1>3, RegistrationAssumption DEF NoStaleSlot
  <1>7. OwnSlot'
    BY <1>1, <1>2, <1>3, <1>4, RegistrationAssumption DEF OwnSlot
  <1>8. NoStaleSlot' /\ SlotsAgree'
    BY <1>1, <1>2, <1>3, <1>4, <1>6 DEF NoStaleSlot, SlotsAgree
  <1>9. NoJobOfFreedQuery'
    BY <1>3, <1>4, QueueUntouched
  <1>10. q \notin armed
    BY <1>3 DEF ArmedRegistered
  <1>. QED BY <1>5, <1>7, <1>8, <1>9, <1>10

LEMMA RegisterInv ==
  ASSUME IInv, NEW q \in Queries, Register(q)
  PROVE  IInv'
  <1>. USE DEF IInv
  <1>1. CASE AddSource(q)
    <2>1. Add(q, "registered") /\ numQueries' = numQueries + 1
          /\ armed' = armed \cup {q} /\ status' = status /\ IsSource
      BY <1>1 DEF AddSource
    <2>2. UNCHANGED <<fixed, todo, queue>> /\ phase' = [phase EXCEPT ![q] = "registered"]
      BY <2>1 DEF Add
    <2>3. TypeOK'
      BY <2>1, <2>2, AddInv DEF TypeOK, fixed, queue
    <2>4. ArmedRegistered'
      BY <2>1, <2>2, Fixed DEF ArmedRegistered, ListLockFree, TypeOK
    <2>5. StatusThreads'
      BY <2>1, <2>2, Fixed DEF StatusThreads
    <2>. QED BY <2>1, <2>3, <2>4, <2>5, AddInv
  <1>2. CASE AddStatus(q)
    <2>1. Add(q, "registered") /\ UNCHANGED <<numQueries, armed>>
          /\ status' \in {status, status \cup {q}} /\ StatusQuery(q)
      BY <1>2 DEF AddStatus
    <2>2. UNCHANGED <<fixed, todo, queue>> /\ phase' = [phase EXCEPT ![q] = "registered"]
      BY <2>1 DEF Add
    <2>3. TypeOK'
      BY <2>1, <2>2, AddInv DEF TypeOK, fixed, queue
    <2>4. ArmedRegistered'
      BY <2>1, <2>2, Fixed DEF ArmedRegistered, ListLockFree, TypeOK
    <2>5. StatusThreads'
      BY <2>1, <2>2, Fixed DEF StatusThreads
    <2>. QED BY <2>1, <2>3, <2>4, <2>5, AddInv
  <1>3. CASE AddBegin(q)
    <2>1. Add(q, "activate") /\ UNCHANGED <<numQueries, armed, status>>
      BY <1>3 DEF AddBegin
    <2>2. UNCHANGED <<fixed, todo, queue>> /\ phase' = [phase EXCEPT ![q] = "activate"]
      BY <2>1 DEF Add
    <2>3. TypeOK'
      BY <2>1, <2>2, AddInv DEF TypeOK, fixed, queue
    <2>4. ArmedRegistered'
      BY <2>1, <2>2, Fixed, AddInv DEF ArmedRegistered, ListLockFree, TypeOK
    <2>5. StatusThreads'
      BY <2>1, <2>2, Fixed DEF StatusThreads
    <2>. QED BY <2>1, <2>3, <2>4, <2>5, AddInv
  <1>4. CASE Activate(q)
    <2>1. /\ phase[q] = "activate" /\ phase' = [phase EXCEPT ![q] = "activated"]
          /\ armed' = armed \cup {q} /\ UNCHANGED <<fixed, queries, numQueries, idx, todo, status, list, cur>>
      BY <1>4 DEF Activate, node, queue
    <2>2. TypeOK'
      BY <2>1 DEF TypeOK, fixed, Windows
    <2>3. OwnSlot' /\ NoStaleSlot' /\ SlotsAgree'
      BY <2>1, RegistrationAssumption DEF OwnSlot, NoStaleSlot, SlotsAgree, TypeOK
    <2>4. ArmedRegistered' /\ StatusThreads'
      BY <2>1, Fixed DEF ArmedRegistered, StatusThreads, ListLockFree, TypeOK
    <2>5. NoJobOfFreedQuery'
      BY <2>1, QueueUntouched DEF queue, TypeOK
    <2>. QED BY <2>2, <2>3, <2>4, <2>5
  <1>5. CASE AddEnd(q)
    <2>1. /\ phase[q] = "activated" /\ phase' = [phase EXCEPT ![q] = "registered"]
          /\ numQueries' = numQueries + 1 /\ UNCHANGED <<fixed, queries, idx, armed, todo, status, list, cur>>
      BY <1>5 DEF AddEnd, queue
    <2>2. TypeOK'
      BY <2>1 DEF TypeOK, fixed, Windows
    <2>3. OwnSlot' /\ NoStaleSlot' /\ SlotsAgree'
      BY <2>1, RegistrationAssumption DEF OwnSlot, NoStaleSlot, SlotsAgree, TypeOK
    <2>4. ArmedRegistered' /\ StatusThreads'
      BY <2>1, Fixed DEF ArmedRegistered, StatusThreads, ListLockFree, TypeOK
    <2>5. NoJobOfFreedQuery'
      BY <2>1, QueueUntouched DEF queue, TypeOK
    <2>. QED BY <2>2, <2>3, <2>4, <2>5
  <1>. QED BY <1>1, <1>2, <1>3, <1>4, <1>5 DEF Register

-------------------------------------------------------------------------------
(* The query leaves its own slot, and the queue no job of it.              *)
LEMMA RemoveInv ==
  ASSUME IInv, NEW q \in Queries, phase[q] # "unregistered", CanWrite,
         \A h \in Handlers : q \notin todo[h], Remove(q)
  PROVE  /\ OwnSlot' /\ NoStaleSlot' /\ SlotsAgree' /\ NoJobOfFreedQuery'
         /\ queries' \in [1 .. Slots -> Queries \cup {NoQuery}]
         /\ phase' \in [Queries -> {"unregistered", "registered"} \cup Windows]
         /\ list' \in Seq(Jobs)
  <1>. USE DEF IInv
  <1>1. queries[idx[q]] = q /\ idx[q] \in 1 .. Slots
    BY DEF OwnSlot, TypeOK
  <1>2. /\ list' = Without(list, [query : {q}, tuple : BOOLEAN])
        /\ queries' = [queries EXCEPT ![idx[q]] = NoQuery]
        /\ phase' = [phase EXCEPT ![q] = "unregistered"]
        /\ UNCHANGED <<fixed, idx, todo, status, cur>>
    BY <1>1 DEF Remove, Purged
  <1>3. /\ queries \in [1 .. Slots -> Queries \cup {NoQuery}]
        /\ phase \in [Queries -> {"unregistered", "registered"} \cup Windows]
        /\ list \in Seq(Jobs)
    BY DEF TypeOK, Jobs
  <1>4. OwnSlot'
    BY <1>1, <1>2, <1>3 DEF OwnSlot
  <1>5. NoStaleSlot' /\ SlotsAgree'
    BY <1>1, <1>2, <1>3 DEF NoStaleSlot, SlotsAgree
  <1>6. list' \in Seq(Jobs)
    BY <1>2, <1>3, PurgedTheorem
  <1>7. ASSUME NEW k \in DOMAIN list' PROVE list'[k].query # q /\ \E j \in DOMAIN list : list'[k] = list[j]
    <2>1. k \in 1 .. Len(list') /\ list'[k] \in Jobs
      BY <1>6
    <2>. DEFINE D == [query : {q}, tuple : BOOLEAN]
    <2>2. list'[k] \notin D /\ \E j \in 1 .. Len(list) : list'[k] = list[j]
      <3>. HIDE DEF D
      <3>1. list' = Without(list, D)
        BY <1>2 DEF D
      <3>. QED BY <1>3, <2>1, <3>1, PurgedTheorem
    <2>3. list'[k].query # q
      BY <2>1, <2>2 DEF Jobs
    <2>. QED BY <1>3, <2>2, <2>3
  <1>8. NoJobOfFreedQuery'
    <2>1. SUFFICES ASSUME NEW r \in Queries, phase'[r] = "unregistered", ~StatusQuery(r)'
                   PROVE  /\ cur' # r
                          /\ \A k \in DOMAIN list' : list'[k].query # r
                          /\ \A h \in Handlers : r \notin todo'[h]
      BY DEF NoJobOfFreedQuery
    <2>2. CASE r = q
      BY <1>2, <1>7, <2>2, RegistrationAssumption DEF CanWrite
    <2>3. CASE r # q
      <3>1. phase[r] = "unregistered" /\ ~StatusQuery(r)
        BY <1>2, <1>3, <2>1, <2>3, Fixed
      <3>. QED BY <1>2, <1>7, <3>1 DEF NoJobOfFreedQuery
    <2>. QED BY <2>2, <2>3
  <1>. QED BY <1>2, <1>3, <1>4, <1>5, <1>6, <1>8

LEMMA UnregisterInv ==
  ASSUME IInv, NEW q \in Queries, Unregister(q)
  PROVE  IInv'
  <1>. USE DEF IInv
  <1>1. CASE DelSource(q)
    <2>1. /\ IsSource /\ phase[q] = "registered" /\ CanWrite /\ Remove(q)
          /\ armed' = armed \ {q} /\ numQueries' = numQueries - 1
      BY <1>1 DEF DelSource
    <2>2. \A h \in Handlers : todo[h] = {}
      BY <2>1 DEF ArmedRegistered, ListLockFree
    <2>3. UNCHANGED <<fixed, idx, todo, status, cur>> /\ phase' = [phase EXCEPT ![q] = "unregistered"]
      BY <2>1 DEF Remove
    <2>4. TypeOK'
      BY <2>1, <2>2, <2>3, RemoveInv DEF TypeOK, fixed, Jobs
    <2>5. ArmedRegistered' /\ StatusThreads'
      BY <2>1, <2>2, <2>3, Fixed DEF ArmedRegistered, StatusThreads, ListLockFree, TypeOK
    <2>. QED BY <2>1, <2>2, <2>4, <2>5, RemoveInv
  <1>2. CASE DelBegin(q)
    <2>1. /\ phase[q] = "registered" /\ phase' = [phase EXCEPT ![q] = "deactivate"]
          /\ numQueries' = numQueries - 1 /\ UNCHANGED <<fixed, queries, idx, armed, todo, status, list, cur>>
      BY <1>2 DEF DelBegin, queue
    <2>2. TypeOK'
      BY <2>1 DEF TypeOK, fixed, Windows
    <2>3. OwnSlot' /\ NoStaleSlot' /\ SlotsAgree'
      BY <2>1, RegistrationAssumption DEF OwnSlot, NoStaleSlot, SlotsAgree, TypeOK
    <2>4. ArmedRegistered' /\ StatusThreads'
      BY <2>1, Fixed DEF ArmedRegistered, StatusThreads, ListLockFree, TypeOK
    <2>5. NoJobOfFreedQuery'
      BY <2>1, QueueUntouched DEF queue, TypeOK
    <2>. QED BY <2>2, <2>3, <2>4, <2>5
  <1>3. CASE Deactivate(q)
    <2>1. /\ phase[q] = "deactivate" /\ phase' = [phase EXCEPT ![q] = "deactivated"]
          /\ armed' = armed \ {q} /\ ListLockFree
          /\ UNCHANGED <<fixed, queries, numQueries, idx, todo, status, list, cur>>
      BY <1>3 DEF Deactivate, node, queue
    <2>2. TypeOK'
      BY <2>1 DEF TypeOK, fixed, Windows
    <2>3. OwnSlot' /\ NoStaleSlot' /\ SlotsAgree'
      BY <2>1, RegistrationAssumption DEF OwnSlot, NoStaleSlot, SlotsAgree, TypeOK
    <2>4. ArmedRegistered' /\ StatusThreads'
      BY <2>1, Fixed DEF ArmedRegistered, StatusThreads, ListLockFree, TypeOK
    <2>5. NoJobOfFreedQuery'
      BY <2>1, QueueUntouched DEF queue, TypeOK
    <2>. QED BY <2>2, <2>3, <2>4, <2>5
  <1>4. CASE DelEnd(q)
    <2>1. /\ phase[q] = "deactivated" /\ CanWrite /\ Remove(q) /\ UNCHANGED <<numQueries, armed>>
      BY <1>4 DEF DelEnd
    <2>2. q \notin armed /\ \A h \in Handlers : q \notin todo[h]
      BY <2>1 DEF ArmedRegistered
    <2>3. UNCHANGED <<fixed, idx, todo, status, cur>> /\ phase' = [phase EXCEPT ![q] = "unregistered"]
      BY <2>1 DEF Remove
    <2>4. TypeOK'
      BY <2>1, <2>2, <2>3, RemoveInv DEF TypeOK, fixed, Jobs
    <2>5. ArmedRegistered' /\ StatusThreads'
      BY <2>1, <2>2, <2>3, Fixed DEF ArmedRegistered, StatusThreads, ListLockFree, TypeOK
    <2>. QED BY <2>1, <2>2, <2>4, <2>5, RemoveInv
  <1>. QED BY <1>1, <1>2, <1>3, <1>4 DEF Unregister

-------------------------------------------------------------------------------
(* Jobs of queries that are not freed keep the queue free of freed ones.   *)
LEMMA DeliverInv ==
  ASSUME IInv, NEW jobs \in Seq(Jobs), Deliver(jobs), status' = status,
         \A h \in Handlers : todo'[h] \subseteq todo[h],
         todo' \in [Handlers -> SUBSET Queries],
         \A k \in 1 .. Len(jobs) : Live(jobs[k].query)
  PROVE  IInv'
  <1>. USE DEF IInv
  <1>1. /\ list' = list \o jobs
        /\ UNCHANGED <<fixed, queries, numQueries, phase, idx, armed, cur>>
    BY DEF Deliver, node
  <1>2. list \in Seq(Jobs) /\ list' \in Seq(Jobs)
    BY <1>1 DEF TypeOK, Jobs
  <1>3. TypeOK'
    BY <1>1, <1>2 DEF TypeOK, fixed, Jobs
  <1>4. OwnSlot' /\ NoStaleSlot' /\ SlotsAgree'
    BY <1>1 DEF OwnSlot, NoStaleSlot, SlotsAgree
  <1>5. ArmedRegistered' /\ StatusThreads'
    BY <1>1, Fixed DEF ArmedRegistered, StatusThreads, ListLockFree
  <1>6. NoJobOfFreedQuery'
    <2>1. SUFFICES ASSUME NEW r \in Queries, phase'[r] = "unregistered", ~StatusQuery(r)'
                   PROVE  /\ cur' # r
                          /\ \A k \in DOMAIN list' : list'[k].query # r
                          /\ \A h \in Handlers : r \notin todo'[h]
      BY DEF NoJobOfFreedQuery
    <2>2. phase[r] = "unregistered" /\ ~StatusQuery(r)
      BY <1>1, <2>1, Fixed
    <2>3. \A k \in 1 .. Len(list) : list[k].query # r
      BY <1>2, <2>2 DEF NoJobOfFreedQuery
    <2>4. \A k \in 1 .. Len(jobs) : jobs[k].query # r
      BY <2>2 DEF Live
    <2>5. ASSUME NEW k \in DOMAIN list' PROVE list'[k].query # r
      <3>1. k \in 1 .. Len(list) + Len(jobs)
        BY <1>1, <1>2
      <3>2. CASE k <= Len(list)
        BY <1>1, <1>2, <2>3, <3>1, <3>2
      <3>3. CASE k > Len(list)
        <4>1. k - Len(list) \in 1 .. Len(jobs) /\ list'[k] = jobs[k - Len(list)]
          BY <1>1, <1>2, <3>1, <3>3
        <4>. QED BY <2>4, <4>1
      <3>. QED BY <1>2, <3>1, <3>2, <3>3
    <2>. QED BY <1>1, <2>2, <2>5 DEF NoJobOfFreedQuery
  <1>. QED BY <1>3, <1>4, <1>5, <1>6

(* A broadcast serves the queries in the slots, and those are not freed.   *)
LEMMA MatchingType ==
  ASSUME IInv, NEW e
  PROVE  /\ Matching(e) \in Seq(Queries)
         /\ \A k \in 1 .. Len(Matching(e)) : phase[Matching(e)[k]] # "unregistered"
  <1>. DEFINE D == {NoQuery} \cup {q \in Queries : ~Matches(q, e)}
              to == Matching(e)
  <1>1. queries \in Seq(Queries \cup {NoQuery}) /\ Len(queries) = Slots
    BY RegistrationAssumption DEF IInv, TypeOK
  <1>2. to = Without(queries, D)
    BY DEF Matching
  <1>. HIDE DEF D, to
  <1>3. /\ to \in Seq(Queries \cup {NoQuery})
        /\ \A k \in 1 .. Len(to) : to[k] \notin D /\ \E j \in 1 .. Len(queries) : to[k] = queries[j]
    <2>1. /\ Without(queries, D) \in Seq(Queries \cup {NoQuery})
          /\ \A k \in 1 .. Len(Without(queries, D)) :
               /\ Without(queries, D)[k] \notin D
               /\ \E j \in 1 .. Len(queries) : Without(queries, D)[k] = queries[j]
      BY <1>1, PurgedTheorem
    <2>. QED BY <1>2, <2>1
  <1>4. ASSUME NEW k \in 1 .. Len(to) PROVE to[k] \in Queries /\ phase[to[k]] # "unregistered"
    <2>1. to[k] \in Queries \cup {NoQuery} /\ to[k] # NoQuery
      BY <1>3 DEF D
    <2>2. PICK j \in 1 .. Slots : to[k] = queries[j]
      BY <1>1, <1>3
    <2>. QED BY <2>1, <2>2 DEF IInv, NoStaleSlot
  <1>5. to \in Seq(Queries)
    BY <1>3, <1>4
  <1>. QED BY <1>4, <1>5 DEF to

JobsFor(to) == [k \in 1 .. Len(to) |-> Job(to[k], k = 1 \/ k - 1 <= Copies)]

LEMMA JobsForType ==
  ASSUME NEW to \in Seq(Queries)
  PROVE  JobsFor(to) \in Seq(Jobs) /\ Len(JobsFor(to)) = Len(to)
  <1>1. Len(to) \in Nat /\ \A k \in 1 .. Len(to) : JobsFor(to)[k] \in Jobs
    BY DEF JobsFor, Job, Jobs
  <1>. QED BY <1>1 DEF JobsFor

LEMMA BroadcastInv ==
  ASSUME IInv, NEW e \in Events, Broadcast(e)
  PROVE  IInv'
  <1>. DEFINE jobs == JobsFor(Matching(e))
  <1>1. jobs \in Seq(Jobs) /\ Len(jobs) = Len(Matching(e))
    BY MatchingType, JobsForType
  <1>2. \A k \in 1 .. Len(jobs) : Live(jobs[k].query)
    <2>1. \A k \in 1 .. Len(jobs) : jobs[k].query = Matching(e)[k]
      BY <1>1 DEF JobsFor, Job
    <2>. QED BY <1>1, <2>1, MatchingType DEF Live
  <1>3. Deliver(jobs) /\ UNCHANGED <<todo, status>>
    BY DEF Broadcast, JobsFor
  <1>4. todo \in [Handlers -> SUBSET Queries]
    BY DEF IInv, TypeOK
  <1>. HIDE DEF jobs
  <1>. QED BY <1>1, <1>2, <1>3, <1>4, DeliverInv

(* One job of one query: probe handlers, timers and status threads.        *)
LEMMA SingleInv ==
  ASSUME IInv, NEW q \in Queries, Live(q), Deliver(<<Job(q, TRUE)>>), status' = status,
         \A h \in Handlers : todo'[h] \subseteq todo[h],
         todo' \in [Handlers -> SUBSET Queries]
  PROVE  IInv'
  <1>. DEFINE jobs == <<Job(q, TRUE)>>
  <1>1. Job(q, TRUE) \in Jobs /\ Job(q, TRUE).query = q
    BY DEF Job, Jobs
  <1>2. ASSUME NEW r \in Jobs PROVE <<r>> \in Seq(Jobs) /\ Len(<<r>>) = 1 /\ <<r>>[1] = r
    OBVIOUS
  <1>3. jobs \in Seq(Jobs) /\ Len(jobs) = 1 /\ jobs[1] = Job(q, TRUE)
    BY <1>1, <1>2
  <1>4. Deliver(jobs)
    OBVIOUS
  <1>. HIDE DEF jobs
  <1>5. ASSUME NEW k \in 1 .. Len(jobs) PROVE Live(jobs[k].query)
    <2>1. k = 1
      BY <1>3
    <2>. QED BY <1>1, <1>3, <2>1
  <1>. QED BY <1>3, <1>4, <1>5, DeliverInv

LEMMA UnicastInv ==
  ASSUME IInv, NEW q \in Queries,
         \/ \E h \in Handlers : HandlerEnqueue(h, q)
         \/ Timer(q) \/ StatusTuple(q)
  PROVE  IInv'
  <1>1. todo \in [Handlers -> SUBSET Queries]
    BY DEF IInv, TypeOK
  <1>2. ASSUME NEW h \in Handlers, HandlerEnqueue(h, q) PROVE IInv'
    <2>1. phase[q] # "unregistered"
      BY <1>2 DEF HandlerEnqueue, IInv, ArmedRegistered
    <2>2. todo' = [todo EXCEPT ![h] = @ \ {q}] /\ status' = status /\ Deliver(<<Job(q, TRUE)>>)
      BY <1>2 DEF HandlerEnqueue
    <2>3. (\A g \in Handlers : todo'[g] \subseteq todo[g]) /\ todo' \in [Handlers -> SUBSET Queries]
      BY <1>1, <2>2
    <2>. QED BY <2>1, <2>2, <2>3, SingleInv DEF Live
  <1>3. CASE Timer(q)
    <2>1. phase[q] # "unregistered"
      BY <1>3 DEF Timer, IInv, ArmedRegistered
    <2>. QED BY <1>1, <1>3, <2>1, SingleInv DEF Timer, Live
  <1>4. CASE StatusTuple(q)
    <2>1. StatusQuery(q)
      BY <1>4 DEF StatusTuple, IInv, StatusThreads
    <2>. QED BY <1>1, <1>4, <2>1, SingleInv DEF StatusTuple, Live
  <1>. QED BY <1>2, <1>3, <1>4

LEMMA OtherInv ==
  ASSUME IInv,
         \/ \E q \in Queries : StatusEnd(q)
         \/ \E h \in Handlers, e \in Events : HandlerBegin(h, e)
         \/ Dequeue \/ Executed
  PROVE  IInv'
  <1>. USE DEF IInv
  <1>1. ASSUME NEW q \in Queries, StatusEnd(q) PROVE IInv'
    <2>1. status' = status \ {q} /\ UNCHANGED <<fixed, queries, numQueries, phase, idx, armed, todo, list, cur>>
      BY <1>1 DEF StatusEnd, node, queue
    <2>2. TypeOK' /\ OwnSlot' /\ NoStaleSlot' /\ SlotsAgree'
      BY <2>1 DEF TypeOK, OwnSlot, NoStaleSlot, SlotsAgree, fixed
    <2>3. ArmedRegistered' /\ StatusThreads'
      BY <2>1, Fixed DEF ArmedRegistered, StatusThreads, ListLockFree
    <2>4. NoJobOfFreedQuery'
      BY <2>1, QueueUntouched DEF queue
    <2>. QED BY <2>2, <2>3, <2>4
  <1>2. ASSUME NEW h \in Handlers, NEW e \in Events, HandlerBegin(h, e) PROVE IInv'
    <2>1. /\ ~IsSource /\ todo' = [todo EXCEPT ![h] = {q \in armed : Matches(q, e)}]
          /\ UNCHANGED <<fixed, queries, numQueries, phase, idx, armed, status, list, cur>>
      BY <1>2 DEF HandlerBegin, node, queue
    <2>2. TypeOK' /\ OwnSlot' /\ NoStaleSlot' /\ SlotsAgree'
      BY <2>1 DEF TypeOK, OwnSlot, NoStaleSlot, SlotsAgree, fixed
    <2>3. ArmedRegistered' /\ StatusThreads'
      BY <2>1, Fixed DEF ArmedRegistered, StatusThreads, TypeOK
    <2>4. \A r \in Queries : phase[r] = "unregistered" => \A g \in Handlers : r \notin todo'[g]
      BY <2>1, <2>3 DEF ArmedRegistered
    <2>5. NoJobOfFreedQuery'
      BY <2>1, <2>4, Fixed DEF NoJobOfFreedQuery
    <2>. QED BY <2>2, <2>3, <2>5
  <1>3. CASE Dequeue
    <2>1. /\ list # <<>> /\ cur' = list[1].query /\ list' = Tail(list)
          /\ UNCHANGED <<fixed, queries, numQueries, phase, idx, armed, todo, status>>
      BY <1>3 DEF Dequeue, node, TypeOK
    <2>2. list \in Seq(Jobs) /\ 1 \in DOMAIN list /\ list[1].query \in Queries
      <3>1. list \in Seq(Jobs)
        BY DEF TypeOK, Jobs
      <3>2. 1 \in DOMAIN list /\ list[1] \in Jobs
        BY <2>1, <3>1
      <3>. QED BY <3>1, <3>2 DEF Jobs
    <2>3. list' \in Seq(Jobs) /\ \A k \in DOMAIN list' : k + 1 \in DOMAIN list /\ list'[k] = list[k + 1]
      <3>1. Len(list) \in Nat /\ Len(list) # 0 /\ Tail(list) \in Seq(Jobs) /\ Len(Tail(list)) = Len(list) - 1
        BY <2>1, <2>2
      <3>2. ASSUME NEW k \in 1 .. Len(Tail(list)) PROVE Tail(list)[k] = list[k + 1] /\ k + 1 \in 1 .. Len(list)
        BY <2>2, <3>1
      <3>. QED BY <2>1, <2>2, <3>1, <3>2
    <2>4. TypeOK'
      BY <2>1, <2>2, <2>3 DEF TypeOK, fixed, Jobs
    <2>5. OwnSlot' /\ NoStaleSlot' /\ SlotsAgree'
      BY <2>1 DEF OwnSlot, NoStaleSlot, SlotsAgree
    <2>6. ArmedRegistered' /\ StatusThreads'
      BY <2>1, Fixed DEF ArmedRegistered, StatusThreads, ListLockFree
    <2>7. NoJobOfFreedQuery'
      BY <2>1, <2>2, <2>3, Fixed DEF NoJobOfFreedQuery
    <2>. QED BY <2>4, <2>5, <2>6, <2>7
  <1>4. CASE Executed
    <2>1. cur' = NoQuery /\ UNCHANGED <<fixed, queries, numQueries, phase, idx, armed, todo, status, list>>
      BY <1>4 DEF Executed, node
    <2>2. TypeOK' /\ OwnSlot' /\ NoStaleSlot' /\ SlotsAgree'
      BY <2>1 DEF TypeOK, OwnSlot, NoStaleSlot, SlotsAgree, fixed
    <2>3. ArmedRegistered' /\ StatusThreads'
      BY <2>1, Fixed DEF ArmedRegistered, StatusThreads, ListLockFree
    <2>4. NoJobOfFreedQuery'
      BY <2>1, Fixed, RegistrationAssumption DEF NoJobOfFreedQuery
    <2>. QED BY <2>2, <2>3, <2>4
  <1>. QED BY <1>1, <1>2, <1>3, <1>4

LEMMA StutterInv ==
  ASSUME IInv, UNCHANGED vars
  PROVE  IInv'
  <1>. USE DEF IInv, vars
  <1>1. TypeOK' /\ OwnSlot' /\ NoStaleSlot' /\ SlotsAgree'
    BY DEF TypeOK, OwnSlot, NoStaleSlot, SlotsAgree, fixed
  <1>2. ArmedRegistered' /\ StatusThreads'
    BY Fixed DEF ArmedRegistered, StatusThreads, ListLockFree
  <1>3. NoJobOfFreedQuery'
    BY QueueUntouched DEF queue
  <1>. QED BY <1>1, <1>2, <1>3

LEMMA NextInv ==
  ASSUME IInv, [Next]_vars
  PROVE  IInv'
  BY StutterInv, RegisterInv, UnregisterInv, BroadcastInv, UnicastInv, OtherInv DEF Next

-------------------------------------------------------------------------------
(* Registration and unregistration, in their halves and interleaved with   *)
(* every kind of delivery, keep the node in order.                         *)
THEOREM InductiveInvariant == Spec => []IInv
  BY InitInv, NextInv, PTL DEF Spec

(* The variables of a node stay in their types.                            *)
THEOREM TypeCorrect == Spec => []TypeOK
  <1>1. IInv => TypeOK
    BY DEF IInv
  <1>. QED BY <1>1, InductiveInvariant, PTL

(* query->idx is right until delQueries uses it to clear the slot.         *)
THEOREM SlotSafe == Spec => []OwnSlot
  <1>1. IInv => OwnSlot
    BY DEF IInv
  <1>. QED BY <1>1, InductiveInvariant, PTL

(* A broadcast meets no query in a slot that was unregistered and freed.   *)
THEOREM NodeSafe == Spec => []NoStaleSlot
  <1>1. IInv => NoStaleSlot
    BY DEF IInv
  <1>. QED BY <1>1, InductiveInvariant, PTL

(* After unregisterQuery neither the queue nor the executor nor a probe    *)
(* handler refers to the query, although the handlers of the kernel work   *)
(* without slcLock: waiting for the lock of the list is enough.            *)
THEOREM FreedSafe == Spec => []NoJobOfFreedQuery
  <1>1. IInv => NoJobOfFreedQuery
    BY DEF IInv
  <1>. QED BY <1>1, InductiveInvariant, PTL

-------------------------------------------------------------------------------
(* numQueries and the broadcast.                                           *)

Plain == \A q \in Queries : ~StatusQuery(q)

(* Slots whose query is registered, and not in a window.                   *)
Filled == {i \in 1 .. Slots : queries[i] # NoQuery /\ phase[queries[i]] = "registered"}

(* Without status queries, numQueries counts them.                         *)
Counted == Plain => numQueries = Cardinality(Filled)

LEMMA FilledFinite == IsFiniteSet(Filled) /\ Cardinality(Filled) \in Nat
  <1>1. IsFiniteSet(1 .. Slots)
    BY FS_Interval, RegistrationAssumption
  <1>2. Filled \in SUBSET (1 .. Slots)
    BY DEF Filled
  <1>. QED BY <1>1, <1>2, FS_Subset, FS_CardinalityType

LEMMA PlainFixed == UNCHANGED fixed => (Plain' <=> Plain)
  BY Fixed DEF Plain

LEMMA InitCounted == Init => Counted
  <1>1. Init => Filled = {} /\ numQueries = 0
    BY DEF Init, Filled
  <1>. QED BY <1>1, FS_EmptySet DEF Counted

(* A step that leaves numQueries and the filled slots alone.               *)
LEMMA CountedSame ==
  ASSUME Counted, UNCHANGED <<fixed, numQueries>>, Filled' = Filled
  PROVE  Counted'
  BY PlainFixed DEF Counted

(* A query is registered: its slot is filled.                              *)
LEMMA CountedUp ==
  ASSUME Counted, UNCHANGED fixed, numQueries' = numQueries + 1,
         NEW i, i \notin Filled, Filled' = Filled \cup {i}
  PROVE  Counted'
  BY PlainFixed, FilledFinite, FS_AddElement DEF Counted

(* It is about to be unregistered: its slot is not filled any more.        *)
LEMMA CountedDown ==
  ASSUME Counted, UNCHANGED fixed, numQueries' = numQueries - 1,
         NEW i, i \in Filled, Filled' = Filled \ {i}
  PROVE  Counted'
  BY PlainFixed, FilledFinite, FS_RemoveElement DEF Counted

LEMMA RegisterCounted ==
  ASSUME IInv, Counted, NEW q \in Queries, Register(q)
  PROVE  Counted'
  <1>. USE RegistrationAssumption DEF IInv
  <1>1. ASSUME NEW next \in {"registered", "activate"}, Add(q, next)
        PROVE  \E i \in 1 .. Slots :
                 /\ i \notin Filled /\ UNCHANGED fixed
                 /\ Filled' = IF next = "registered" THEN Filled \cup {i} ELSE Filled
    <2>1. PICK i \in FreeSlot :
            idx' = [idx EXCEPT ![q] = i] /\ queries' = [queries EXCEPT ![i] = q]
      BY <1>1 DEF Add
    <2>2. i \in 1 .. Slots /\ queries[i] = NoQuery /\ phase[q] = "unregistered"
          /\ phase' = [phase EXCEPT ![q] = next] /\ UNCHANGED fixed
      BY <1>1 DEF FreeSlot, Add
    <2>3. \A j \in 1 .. Slots : queries[j] # q
      BY <2>2 DEF NoStaleSlot
    <2>4. i \notin Filled
      BY <2>2 DEF Filled
    <2>5. Filled' = IF next = "registered" THEN Filled \cup {i} ELSE Filled
      BY <2>1, <2>2, <2>3 DEF Filled, TypeOK
    <2>. QED BY <2>2, <2>4, <2>5
  <1>2. CASE AddSource(q)
    BY <1>1, <1>2, CountedUp DEF AddSource
  <1>3. CASE AddStatus(q)
    <2>1. ~Plain /\ UNCHANGED fixed
      BY <1>3 DEF AddStatus, Plain, Add
    <2>. QED BY <2>1, PlainFixed DEF Counted
  <1>4. CASE AddBegin(q)
    BY <1>1, <1>4, CountedSame DEF AddBegin
  <1>5. CASE Activate(q)
    <2>1. Filled' = Filled
      BY <1>5 DEF Activate, node, Filled, TypeOK
    <2>. QED BY <1>5, <2>1, CountedSame DEF Activate, node
  <1>6. CASE AddEnd(q)
    <2>1. queries[idx[q]] = q /\ idx[q] \in 1 .. Slots /\ phase[q] = "activated"
      BY <1>6 DEF AddEnd, OwnSlot, TypeOK
    <2>2. idx[q] \notin Filled
      BY <2>1 DEF Filled
    <2>3. Filled' = Filled \cup {idx[q]}
      BY <1>6, <2>1 DEF AddEnd, Filled, SlotsAgree, TypeOK
    <2>. QED BY <1>6, <2>2, <2>3, CountedUp DEF AddEnd
  <1>. QED BY <1>2, <1>3, <1>4, <1>5, <1>6 DEF Register

LEMMA UnregisterCounted ==
  ASSUME IInv, Counted, NEW q \in Queries, Unregister(q)
  PROVE  Counted'
  <1>. USE RegistrationAssumption DEF IInv
  <1>1. phase[q] # "unregistered" => queries[idx[q]] = q /\ idx[q] \in 1 .. Slots
    BY DEF OwnSlot, TypeOK
  <1>2. phase[q] = "registered" => idx[q] \in Filled
    BY <1>1 DEF Filled
  <1>3. Remove(q) /\ phase[q] # "unregistered" => Filled' = Filled \ {idx[q]} /\ UNCHANGED fixed
    BY <1>1 DEF Remove, Filled, SlotsAgree, TypeOK
  <1>4. CASE DelSource(q)
    BY <1>2, <1>3, <1>4, CountedDown DEF DelSource
  <1>5. CASE DelBegin(q)
    <2>1. Filled' = Filled \ {idx[q]}
      BY <1>1, <1>5 DEF DelBegin, Filled, SlotsAgree, TypeOK
    <2>. QED BY <1>2, <1>5, <2>1, CountedDown DEF DelBegin
  <1>6. CASE Deactivate(q)
    <2>1. Filled' = Filled
      BY <1>6 DEF Deactivate, node, Filled, TypeOK
    <2>. QED BY <1>6, <2>1, CountedSame DEF Deactivate, node
  <1>7. CASE DelEnd(q)
    <2>1. idx[q] \notin Filled
      BY <1>1, <1>7 DEF DelEnd, Filled
    <2>2. Filled' = Filled /\ UNCHANGED <<fixed, numQueries>>
      BY <1>3, <1>7, <2>1 DEF DelEnd
    <2>. QED BY <2>2, CountedSame
  <1>. QED BY <1>4, <1>5, <1>6, <1>7 DEF Unregister

(* Delivery and execution do not change which slots are filled.            *)
LEMMA OtherCounted ==
  ASSUME Counted, UNCHANGED <<fixed, node, phase>>
  PROVE  Counted'
  <1>1. Filled' = Filled
    BY DEF node, Filled
  <1>. QED BY <1>1, CountedSame DEF node

LEMMA NextCounted ==
  ASSUME IInv, Counted, [Next]_vars
  PROVE  Counted'
  <1>1. ASSUME NEW q \in Queries, Register(q) \/ Unregister(q) PROVE Counted'
    BY <1>1, RegisterCounted, UnregisterCounted
  <1>2. ASSUME \/ \E q \in Queries : Timer(q) \/ StatusTuple(q) \/ StatusEnd(q)
               \/ \E e \in Events : Broadcast(e) \/ \E h \in Handlers : HandlerBegin(h, e)
               \/ \E h \in Handlers, q \in Queries : HandlerEnqueue(h, q)
               \/ Dequeue \/ Executed
        PROVE  Counted'
    BY <1>2, OtherCounted DEF Timer, StatusTuple, StatusEnd, Broadcast, HandlerBegin,
       HandlerEnqueue, Dequeue, Executed, Deliver
  <1>3. CASE UNCHANGED vars
    BY <1>3, OtherCounted DEF vars, node
  <1>. QED BY <1>1, <1>2, <1>3 DEF Next

(* Jobs with tuples, appended to the list.                                 *)
LEMMA DeliverTuples ==
  ASSUME IInv, NEW jobs \in Seq(Jobs), Deliver(jobs), \A k \in 1 .. Len(jobs) : jobs[k].tuple
  PROVE  \A k \in Len(list) + 1 .. Len(list') : list'[k].tuple
  <1>1. list' = list \o jobs /\ list \in Seq(Jobs) /\ Len(list) \in Nat /\ Len(jobs) \in Nat
    BY DEF Deliver, IInv, TypeOK, Jobs
  <1>2. Len(list') = Len(list) + Len(jobs)
    BY <1>1
  <1>3. ASSUME NEW k \in Len(list) + 1 .. Len(list') PROVE list'[k].tuple
    <2>1. k \in 1 .. Len(list) + Len(jobs) /\ k > Len(list)
      BY <1>1, <1>2
    <2>2. k - Len(list) \in 1 .. Len(jobs) /\ list'[k] = jobs[k - Len(list)]
      BY <1>1, <2>1
    <2>. QED BY <2>2
  <1>. QED BY <1>3

(* A broadcast has no more addressees than there are filled slots, so      *)
(* numQueries copies are enough.                                           *)
LEMMA AddresseesCounted ==
  ASSUME IInv, Counted, Settled, NEW e
  PROVE  Len(Matching(e)) <= numQueries
  <1>. DEFINE D == {NoQuery} \cup {q \in Queries : ~Matches(q, e)}
              K == {j \in 1 .. Len(queries) : queries[j] \notin D}
  <1>1. queries \in Seq(Queries \cup {NoQuery}) /\ Len(queries) = Slots
    BY RegistrationAssumption DEF IInv, TypeOK
  <1>2. numQueries = Cardinality(Filled)
    BY DEF Counted, Settled, Plain
  <1>3. ASSUME NEW j \in 1 .. Slots, queries[j] # NoQuery PROVE phase[queries[j]] = "registered"
    <2>1. queries[j] \in Queries /\ phase[queries[j]] # "unregistered"
      BY <1>3 DEF IInv, TypeOK, NoStaleSlot
    <2>2. phase[queries[j]] \in {"unregistered", "registered"} \cup Windows
      BY <2>1 DEF IInv, TypeOK
    <2>3. phase[queries[j]] \notin Windows
      BY <2>1 DEF Settled
    <2>. QED BY <2>1, <2>2, <2>3
  <1>4. K \in SUBSET Filled
    BY <1>1, <1>3 DEF Filled
  <1>5. Len(Matching(e)) = Cardinality(K)
    <2>1. Matching(e) = Without(queries, D)
      BY DEF Matching
    <2>. HIDE DEF D
    <2>. QED BY <1>1, <2>1, PurgedLength
  <1>. HIDE DEF K
  <1>. QED BY <1>2, <1>4, <1>5, FilledFinite, FS_Subset

LEMMA BroadcastTuples ==
  ASSUME IInv, Counted, Settled, NEW e \in Events, Broadcast(e)
  PROVE  \A k \in Len(list) + 1 .. Len(list') : list'[k].tuple
  <1>. DEFINE jobs == JobsFor(Matching(e))
  <1>1. jobs \in Seq(Jobs) /\ Len(jobs) = Len(Matching(e)) /\ Len(jobs) \in Nat
    BY MatchingType, JobsForType
  <1>2. numQueries \in Int
    BY DEF IInv, TypeOK
  <1>3. ASSUME NEW k \in 1 .. Len(jobs) PROVE jobs[k].tuple
    <2>1. Len(jobs) <= numQueries
      BY <1>1, AddresseesCounted
    <2>2. k = 1 \/ k - 1 <= Copies
      BY <1>1, <1>2, <2>1 DEF Copies
    <2>3. jobs[k] = Job(Matching(e)[k], k = 1 \/ k - 1 <= Copies)
      BY <1>1 DEF JobsFor
    <2>4. (k = 1 \/ k - 1 <= Copies) = TRUE
      BY <2>2
    <2>5. jobs[k] = [query |-> Matching(e)[k], tuple |-> TRUE]
      BY <2>3, <2>4, Zenon DEF Job
    <2>. QED BY <2>5
  <1>4. Deliver(jobs)
    BY DEF Broadcast, JobsFor
  <1>. HIDE DEF jobs
  <1>. QED BY <1>1, <1>3, <1>4, DeliverTuples

(* Everything else that makes a job has the tuple in its hand, and the     *)
(* rest makes none.                                                        *)
LEMMA OneTuple ==
  ASSUME IInv, NEW q \in Queries, Deliver(<<Job(q, TRUE)>>)
  PROVE  \A k \in Len(list) + 1 .. Len(list') : list'[k].tuple
  <1>. DEFINE jobs == <<Job(q, TRUE)>>
  <1>1. Job(q, TRUE) \in Jobs /\ Job(q, TRUE).tuple
    BY DEF Job, Jobs
  <1>2. ASSUME NEW r \in Jobs PROVE <<r>> \in Seq(Jobs) /\ Len(<<r>>) = 1 /\ <<r>>[1] = r
    OBVIOUS
  <1>3. jobs \in Seq(Jobs) /\ Len(jobs) = 1 /\ jobs[1] = Job(q, TRUE)
    BY <1>1, <1>2
  <1>4. Deliver(jobs)
    OBVIOUS
  <1>. HIDE DEF jobs
  <1>5. ASSUME NEW k \in 1 .. Len(jobs) PROVE jobs[k].tuple
    <2>1. k = 1
      BY <1>3
    <2>. QED BY <1>1, <1>3, <2>1
  <1>. QED BY <1>3, <1>4, <1>5, DeliverTuples

LEMMA NoLonger ==
  ASSUME IInv,
         \/ \E q \in Queries : Register(q) \/ Unregister(q) \/ StatusEnd(q)
         \/ \E h \in Handlers, e \in Events : HandlerBegin(h, e)
         \/ Dequeue \/ Executed
  PROVE  Len(list') <= Len(list)
  <1>1. list \in Seq(Jobs) /\ Len(list) \in Nat
    BY DEF IInv, TypeOK, Jobs
  <1>2. ASSUME NEW q \in Queries, Register(q) PROVE Len(list') <= Len(list)
    BY <1>1, <1>2 DEF Register, AddSource, AddStatus, AddBegin, Add, Activate, AddEnd, queue
  <1>3. ASSUME NEW q \in Queries, DelBegin(q) \/ Deactivate(q) PROVE Len(list') <= Len(list)
    BY <1>1, <1>3 DEF DelBegin, Deactivate, queue
  <1>4. ASSUME NEW q \in Queries, DelSource(q) \/ DelEnd(q) PROVE Len(list') <= Len(list)
    <2>1. list' = Without(list, [query : {queries[idx[q]]}, tuple : BOOLEAN])
      BY <1>4 DEF DelSource, DelEnd, Remove, Purged
    <2>. QED BY <1>1, <2>1, PurgedTheorem
  <1>5. CASE Dequeue
    BY <1>1, <1>5 DEF Dequeue
  <1>6. ASSUME \/ \E q \in Queries : StatusEnd(q)
               \/ Executed \/ \E h \in Handlers, e \in Events : HandlerBegin(h, e)
        PROVE  Len(list') <= Len(list)
    BY <1>1, <1>6 DEF StatusEnd, Executed, HandlerBegin, queue
  <1>. QED BY <1>2, <1>3, <1>4, <1>5, <1>6 DEF Unregister

LEMMA NextTuples ==
  ASSUME IInv, Counted, Next, Settled
  PROVE  \A k \in Len(list) + 1 .. Len(list') : list'[k].tuple
  <1>. DEFINE Done == \A k \in Len(list) + 1 .. Len(list') : list'[k].tuple
  <1>1. ASSUME NEW e \in Events, Broadcast(e) PROVE Done
    BY <1>1, BroadcastTuples
  <1>2. ASSUME NEW q \in Queries,
               Timer(q) \/ StatusTuple(q) \/ \E h \in Handlers : HandlerEnqueue(h, q)
        PROVE  Done
    BY <1>2, OneTuple DEF Timer, StatusTuple, HandlerEnqueue
  <1>3. ASSUME Len(list') <= Len(list) PROVE Done
    <2>1. list \in Seq(Jobs) /\ Len(list) \in Nat
      BY DEF IInv, TypeOK, Jobs
    <2>2. list' \in Seq(Jobs) /\ Len(list') \in Nat
      BY NextInv DEF IInv, TypeOK, Jobs
    <2>. QED BY <1>3, <2>1, <2>2
  <1>. QED BY <1>1, <1>2, <1>3, NoLonger DEF Next

(* With no status query and no query in a window of addQueries or          *)
(* delQueries, the numQueries - 1 copies of a broadcast are enough: every  *)
(* job it makes has its tuple.                                             *)
THEOREM BroadcastComplete == Spec => SettledBroadcastHasTuples
  <1>1. IInv /\ Counted /\ [Next]_vars =>
          [Settled => \A k \in Len(list) + 1 .. Len(list') : list'[k].tuple]_list
    BY NextTuples DEF vars
  <1>2. IInv /\ Counted /\ [Next]_vars => Counted'
    BY NextCounted
  <1>. QED BY <1>1, <1>2, InitCounted, InductiveInvariant, PTL DEF Spec, SettledBroadcastHasTuples
===============================================================================
