--------------------------- MODULE Execution_proofs ---------------------------
(***************************************************************************)
(* The execution of a query, for any queries, streams and nodes: no tuple  *)
(* is used after it was freed, and none stays behind.  The lists of tuples *)
(* are described by the sequence of their addresses.                       *)
(***************************************************************************)
EXTENDS Execution, FiniteSetTheorems, WellFoundedInduction, TLAPS

-------------------------------------------------------------------------------
(* Numbers and lists.  The induction theorems of the library cannot be     *)
(* instantiated with a predicate by the provers, so induction is stated    *)
(* here for a set of numbers.                                              *)

(* Every nonempty set of natural numbers has a least element.              *)
LEMMA LeastNumber ==
  ASSUME NEW T \in SUBSET Nat, T # {}
  PROVE  \E x \in T : \A y \in T : x <= y
  <1>. DEFINE R == {ss \in Nat \X Nat : ss[1] < ss[2]}
  <1>1. R = OpToRel(<, Nat)
    BY Zenon DEF OpToRel
  <1>2. IsWellFoundedOn(R, Nat)
    BY <1>1, NatLessThanWellFounded, Zenon
  <1>3. PICK x \in T : \A y \in T : ~ (<<y, x>> \in R)
    BY <1>2, WFMin
  <1>4. ASSUME NEW y \in T, y < x PROVE <<y, x>> \in R
    <2>1. <<y, x>> \in Nat \X Nat
      OBVIOUS
    <2>2. <<y, x>>[1] < <<y, x>>[2]
      BY <1>4
    <2>. QED BY <2>1, <2>2, Zenon
  <1>. HIDE DEF R
  <1>5. ASSUME NEW y \in T PROVE x <= y
    <2>1. ~ (y < x)
      BY <1>3, <1>4
    <2>. QED BY <2>1
  <1>. QED BY <1>5

(* Induction: a set with 0 that is closed under + 1 has every number.      *)
LEMMA Induction ==
  ASSUME NEW T, 0 \in T, \A n \in Nat : n \in T => n + 1 \in T
  PROVE  \A n \in Nat : n \in T
  <1>1. SUFFICES ASSUME Nat \ T # {} PROVE FALSE
    OBVIOUS
  <1>2. PICK x \in Nat \ T : \A y \in Nat \ T : x <= y
    BY <1>1, LeastNumber
  <1>3. x # 0 /\ x - 1 \in Nat
    BY <1>2
  <1>4. x - 1 \in T
    BY <1>2, <1>3
  <1>. QED BY <1>2, <1>3, <1>4

(* Each place in K of the list s is taken over by one place of w.          *)
TakesOver(w, s, K) ==
  \E f \in Bijection(1 .. Len(w), K) : \A n \in 1 .. Len(w) : w[n] = s[f[n]]

(* A purge leaves a list of the same jobs, none of them among the purged   *)
(* ones, as many as there were to keep.                                    *)
LEMMA WithoutTheorem ==
  ASSUME NEW S, NEW s \in Seq(S), NEW D, NEW w, w = Without(s, D),
         NEW K, K = {i \in 1 .. Len(s) : s[i] \notin D}
  PROVE  /\ w \in Seq(S) /\ Len(w) = Cardinality(K) /\ Len(w) <= Len(s)
         /\ TakesOver(w, s, K)
  <1>. DEFINE c == Cardinality(K)
              Upto(i) == {j \in K : j <= i}
              rank == [i \in K |-> Cardinality(Upto(i))]
              Place(n) == CHOOSE i \in K : Cardinality(Upto(i)) = n
              f == [n \in 1 .. c |-> Place(n)]
  <1>1. IsFiniteSet(1 .. Len(s)) /\ Cardinality(1 .. Len(s)) = Len(s)
    <2>1. Len(s) \in Nat
      OBVIOUS
    <2>2. /\ IsFiniteSet(1 .. Len(s))
          /\ Cardinality(1 .. Len(s)) = IF 1 > Len(s) THEN 0 ELSE Len(s) - 1 + 1
      BY <2>1, FS_Interval
    <2>. QED BY <2>1, <2>2
  <1>2. IsFiniteSet(K) /\ c \in Nat /\ c <= Len(s)
    <2>1. K \subseteq 1 .. Len(s) /\ Len(s) \in Nat
      OBVIOUS
    <2>2. /\ IsFiniteSet(K) /\ Cardinality(K) \in Nat
          /\ Cardinality(K) <= Cardinality(1 .. Len(s))
      BY <1>1, <2>1, FS_Subset, FS_CardinalityType
    <2>. QED BY <1>1, <2>2
  <1>3. ASSUME NEW i \in K PROVE IsFiniteSet(Upto(i)) /\ rank[i] \in 1 .. c
    <2>1. Upto(i) \subseteq K /\ i \in Upto(i)
      OBVIOUS
    <2>2. IsFiniteSet(Upto(i)) /\ Cardinality(Upto(i)) <= c
      BY <1>2, <2>1, FS_Subset
    <2>3. Cardinality(Upto(i)) \in Nat /\ Cardinality(Upto(i)) # 0
      BY <2>1, <2>2, FS_CardinalityType, FS_EmptySet
    <2>. QED BY <1>2, <2>2, <2>3
  <1>4. ASSUME NEW i \in K, NEW j \in K, rank[i] = rank[j] PROVE ~ (i < j)
    <2>1. SUFFICES ASSUME i < j PROVE FALSE
      OBVIOUS
    <2>2. Upto(i) \subseteq Upto(j) /\ j \in Upto(j) /\ j \notin Upto(i)
      BY <2>1
    <2>. QED BY <1>3, <1>4, <2>2, FS_Subset
  <1>5. rank \in Injection(K, 1 .. c)
    <2>1. ASSUME NEW i \in K, NEW j \in K, rank[i] = rank[j] PROVE i = j
      <3>1. ~ (i < j) /\ ~ (j < i)
        BY <1>4, <2>1
      <3>. QED BY <3>1
    <2>. QED BY <1>3, <2>1 DEF Injection, IsInjective
  <1>6. rank \in Surjection(K, 1 .. c)
    <2>1. IsFiniteSet(1 .. c) /\ Cardinality(1 .. c) = c
      BY <1>2, FS_Interval
    <2>. HIDE DEF rank, c
    <2>. QED BY <1>5, <2>1, FS_Injection DEF c
  <1>7. ASSUME NEW n \in 1 .. c PROVE f[n] \in K /\ rank[f[n]] = n
    <2>1. \E i \in K : Cardinality(Upto(i)) = n
      BY <1>6 DEF Surjection
    <2>2. Place(n) \in K /\ Cardinality(Upto(Place(n))) = n
      <3>. HIDE DEF Upto
      <3>. QED BY <2>1, Zenon
    <2>. QED BY <2>2
  <1>8. \A i \in K : rank[i] \in 1 .. c /\ f[rank[i]] = i
    <2>1. ASSUME NEW i \in K PROVE rank[i] \in 1 .. c /\ f[rank[i]] = i
      <3>1. rank[i] \in 1 .. c
        BY <1>3
      <3>2. f[rank[i]] \in K /\ rank[f[rank[i]]] = rank[i]
        BY <1>7, <3>1
      <3>. HIDE DEF rank, f
      <3>. QED BY <1>5, <3>1, <3>2 DEF Injection, IsInjective
    <2>. QED BY <2>1
  <1>9. DOMAIN s = 1 .. Len(s)
    OBVIOUS
  <1>10. w = [n \in 1 .. c |-> s[Place(n)]]
    <2>. DEFINE Kept == [L \in SUBSET DOMAIN s |->
                           [n \in 1 .. Cardinality(L) |->
                              s[CHOOSE i \in L : Cardinality({j \in L : j <= i}) = n]]]
    <2>1. K = {i \in DOMAIN s : s[i] \notin D} /\ K \in SUBSET DOMAIN s
      BY <1>9
    <2>2. w = Kept[K]
      BY <2>1, Zenon DEF Without
    <2>3. Kept[K] = [n \in 1 .. c |-> s[Place(n)]]
      BY <2>1, Zenon
    <2>. QED BY <2>2, <2>3
  <1>11. w = [n \in 1 .. c |-> s[f[n]]]
    BY <1>10
  <1>. HIDE DEF f, rank
  <1>12. w \in Seq(S) /\ Len(w) = c
    <2>1. \A n \in 1 .. c : s[f[n]] \in S
      BY <1>7
    <2>. QED BY <1>2, <1>11, <2>1
  <1>13. f \in Bijection(1 .. c, K)
    <2>1. f \in [1 .. c -> K]
      BY <1>7 DEF f
    <2>2. \A m, n \in 1 .. c : f[m] = f[n] => m = n
      BY <1>7
    <2>3. \A i \in K : \E n \in 1 .. c : f[n] = i
      BY <1>8
    <2>. QED BY <2>1, <2>2, <2>3 DEF Bijection, Injection, Surjection, IsInjective
  <1>. QED BY <1>2, <1>11, <1>12, <1>13 DEF TakesOver

-------------------------------------------------------------------------------
(* Addresses.                                                              *)

(* A finite set of numbers has a bound.                                    *)
LEMMA FiniteBound ==
  ASSUME NEW S \in SUBSET Nat, IsFiniteSet(S)
  PROVE  \E b \in Nat : \A x \in S : x <= b
  <1>1. PICK n \in Nat : ExistsSurjection(1 .. n, S)
    BY FS_NatSurjection
  <1>2. PICK f \in [1 .. n -> S] : \A x \in S : \E i \in 1 .. n : f[i] = x
    BY <1>1 DEF ExistsSurjection, Surjection
  <1>. DEFINE T == {m \in Nat : \E b \in Nat : \A i \in 1 .. n : i <= m => f[i] <= b}
  <1>3. 0 \in T
    OBVIOUS
  <1>4. ASSUME NEW m \in Nat, m \in T PROVE m + 1 \in T
    <2>1. PICK b \in Nat : \A i \in 1 .. n : i <= m => f[i] <= b
      BY <1>4
    <2>2. CASE m + 1 \in 1 .. n
      <3>1. f[m + 1] \in Nat
        BY <2>2
      <3>2. b + f[m + 1] \in Nat /\ b <= b + f[m + 1] /\ f[m + 1] <= b + f[m + 1]
        BY <3>1
      <3>3. ASSUME NEW i \in 1 .. n, i <= m + 1 PROVE f[i] <= b + f[m + 1]
        <4>1. f[i] \in S /\ i \in Nat
          OBVIOUS
        <4>2. f[i] \in Nat
          BY <4>1
        <4>. HIDE DEF T
        <4>3. i <= m \/ i = m + 1
          BY <3>3, <4>1
        <4>4. CASE i <= m
          BY <2>1, <3>1, <4>2, <4>4
        <4>5. CASE i = m + 1
          BY <3>2, <4>5
        <4>. QED BY <4>4, <4>5, <4>3
      <3>4. \E c \in Nat : \A i \in 1 .. n : i <= m + 1 => f[i] <= c
        BY <3>2, <3>3, Zenon
      <3>. QED BY <3>4
    <2>3. CASE m + 1 \notin 1 .. n
      BY <2>1, <2>3
    <2>. QED BY <2>2, <2>3
  <1>5. n \in T
    <2>. HIDE DEF T
    <2>. QED BY <1>3, <1>4, Induction
  <1>6. PICK b \in Nat : \A i \in 1 .. n : i <= n => f[i] <= b
    BY <1>5
  <1>7. \A i \in 1 .. n : f[i] <= b
    BY <1>6
  <1>. QED BY <1>2, <1>7

(* A finite set of numbers has a largest one.                              *)
LEMMA MaxTheorem ==
  ASSUME NEW S \in SUBSET Nat, IsFiniteSet(S), S # {}
  PROVE  Max(S) \in S /\ \A x \in S : x <= Max(S)
  <1>. DEFINE B == {b \in Nat : \A x \in S : x <= b}
  <1>1. B # {}
    BY FiniteBound
  <1>2. PICK b \in B : \A c \in B : b <= c
    BY <1>1, LeastNumber
  <1>3. b \in S
    <2>1. SUFFICES ASSUME b \notin S PROVE FALSE
      OBVIOUS
    <2>2. \A x \in S : x <= b - 1 /\ b - 1 \in Nat
      BY <2>1
    <2>3. b - 1 \in B
      BY <2>2
    <2>. QED BY <1>2, <2>3
  <1>4. \A x \in S : b >= x
    OBVIOUS
  <1>5. Max(S) \in S /\ \A x \in S : Max(S) >= x
    BY <1>3, <1>4, Zenon DEF Max
  <1>. QED BY <1>5

(* And a set of numbers a smallest one.                                    *)
LEMMA MinTheorem ==
  ASSUME NEW S \in SUBSET Nat, S # {}
  PROVE  Min(S) \in S /\ \A x \in S : Min(S) <= x
  <1>1. \E x \in S : \A y \in S : x <= y
    BY LeastNumber
  <1>. QED BY <1>1, Zenon DEF Min

(* What is in the heap, and that it is finite.                             *)
Heap(h) == IsFiniteSet(DOMAIN h) /\ DOMAIN h \subseteq Nat \ {NULL}

(* The address of a new tuple is one that is not in use.                   *)
LEMMA FreshAddress ==
  ASSUME NEW h, Heap(h)
  PROVE  Fresh(h) \in Nat \ {NULL} /\ Fresh(h) \notin DOMAIN h
  <1>. DEFINE c == Cardinality(DOMAIN h)
              S == (1 .. c + 1) \ DOMAIN h
  <1>1. c \in Nat
    BY FS_CardinalityType DEF Heap
  <1>2. IsFiniteSet(1 .. c + 1) /\ Cardinality(1 .. c + 1) = c + 1
    BY <1>1, FS_Interval
  <1>3. S # {}
    <2>1. SUFFICES ASSUME S = {} PROVE FALSE
      OBVIOUS
    <2>2. 1 .. c + 1 \subseteq DOMAIN h
      BY <2>1
    <2>3. Cardinality(1 .. c + 1) <= c
      BY <2>2, FS_Subset DEF Heap
    <2>. QED BY <1>1, <1>2, <2>3
  <1>4. S \subseteq Nat
    BY <1>1
  <1>5. Fresh(h) = Min(S)
    BY DEF Fresh
  <1>6. Fresh(h) \in S
    <2>. HIDE DEF S
    <2>. QED BY <1>3, <1>4, <1>5, MinTheorem
  <1>. QED BY <1>1, <1>6 DEF NULL

(* A new list is put behind what is in the heap.                           *)
LEMMA BeyondAddress ==
  ASSUME NEW h, Heap(h)
  PROVE  Beyond(h) \in Nat \ {NULL} /\ \A t \in DOMAIN h : t < Beyond(h)
  <1>. DEFINE S == DOMAIN h \cup {0}
  <1>1. S \subseteq Nat /\ S # {} /\ 0 \in S
    BY DEF Heap
  <1>2. IsFiniteSet(S)
    BY FS_AddElement DEF Heap
  <1>3. Max(S) \in S /\ \A x \in S : x <= Max(S)
    BY <1>1, <1>2, MaxTheorem
  <1>4. Beyond(h) = Max(S) + 1
    BY DEF Beyond
  <1>5. DOMAIN h \subseteq S
    OBVIOUS
  <1>. HIDE DEF S
  <1>6. Max(S) \in Nat
    BY <1>1, <1>3
  <1>7. ASSUME NEW t \in DOMAIN h PROVE t < Beyond(h)
    <2>1. t \in Nat /\ t <= Max(S)
      BY <1>1, <1>3, <1>5
    <2>. QED BY <1>4, <1>6, <2>1
  <1>. QED BY <1>4, <1>6, <1>7 DEF NULL

-------------------------------------------------------------------------------
(* Lists.  A chain is the sequence q of the addresses of some tuples, each *)
(* linked to the next and the last of them to e.                           *)

FirstOr(q, e) == IF q = <<>> THEN e ELSE q[1]
Back(q) == IF q = <<>> THEN NULL ELSE q[Len(q)]
Behind(q, k, e) == IF k = Len(q) THEN e ELSE q[k + 1]
Distinct(q) == \A i, j \in 1 .. Len(q) : q[i] = q[j] => i = j

Chain(h, q, e) ==
  /\ q \in Seq(DOMAIN h) /\ Distinct(q)
  /\ \A k \in 1 .. Len(q) : h[q[k]].next = Behind(q, k, e)

(* The elements of a sequence.                                             *)
LEMMA SetOfSequence ==
  ASSUME NEW S, NEW q \in Seq(S)
  PROVE  /\ ToSet(q) = {q[i] : i \in 1 .. Len(q)}
         /\ ToSet(q) \subseteq S
         /\ ToSet(q) = {} <=> q = <<>>
         /\ q # <<>> => q[1] \in ToSet(q) /\ q[Len(q)] \in ToSet(q)
  <1>1. DOMAIN q = 1 .. Len(q)
    OBVIOUS
  <1>2. ToSet(q) = {q[i] : i \in 1 .. Len(q)}
    BY <1>1 DEF ToSet
  <1>3. q # <<>> => 1 \in 1 .. Len(q) /\ Len(q) \in 1 .. Len(q)
    OBVIOUS
  <1>. QED BY <1>2, <1>3

(* A sequence without elements.                                            *)
LEMMA EmptySequence ==
  ASSUME NEW S, NEW q \in Seq(S)
  PROVE  q = <<>> <=> Len(q) = 0
  OBVIOUS

(* A sequence with one more element.                                       *)
LEMMA Appended ==
  ASSUME NEW S, NEW q \in Seq(S), NEW x \in S, NEW a, a = Append(q, x)
  PROVE  /\ a \in Seq(S) /\ Len(a) = Len(q) + 1 /\ Len(q) \in Nat
         /\ a # <<>> /\ a[Len(q) + 1] = x
         /\ \A i \in 1 .. Len(q) : a[i] = q[i]
  OBVIOUS

(* The elements of it.                                                     *)
LEMMA SetOfAppended ==
  ASSUME NEW S, NEW q \in Seq(S), NEW a \in Seq(S), NEW x,
         Len(a) = Len(q) + 1, a[Len(q) + 1] = x, \A i \in 1 .. Len(q) : a[i] = q[i]
  PROVE  ToSet(a) \subseteq ToSet(q) \cup {x}
  <1>1. ToSet(a) = {a[i] : i \in 1 .. Len(a)}
    BY SetOfSequence
  <1>2. ToSet(q) = {q[i] : i \in 1 .. Len(q)}
    BY SetOfSequence
  <1>3. ASSUME NEW i \in 1 .. Len(a) PROVE a[i] \in ToSet(q) \cup {x}
    <2>1. Len(q) \in Nat
      OBVIOUS
    <2>. QED BY <1>2, <2>1
  <1>. QED BY <1>1, <1>3

(* Its first element stays, and it has a tail.                             *)
LEMMA KeptRight ==
  ASSUME NEW S, NEW r \in Seq(S), r # <<>>, NEW x, NEW d \in Seq(S),
         Len(d) = Len(r) + 1, d[Len(r) + 1] = x, \A i \in 1 .. Len(r) : d[i] = r[i]
  PROVE  /\ d # <<>> /\ d[1] = r[1] /\ Tail(d) # <<>>
         /\ ToSet(d) = ToSet(r) \cup {x}
  <1>1. Len(d) = Len(r) + 1 /\ d # <<>> /\ Len(r) \in Nat
    OBVIOUS
  <1>2. Len(r) # 0
    BY EmptySequence
  <1>3. Tail(d) \in Seq(S) /\ Len(Tail(d)) = Len(d) - 1
    BY <1>1
  <1>4. Tail(d) # <<>>
    BY <1>1, <1>2, <1>3, EmptySequence
  <1>5. ToSet(d) = {d[i] : i \in 1 .. Len(d)} /\ ToSet(r) = {r[i] : i \in 1 .. Len(r)}
    <2>1. ToSet(r) = {r[i] : i \in 1 .. Len(r)}
      BY SetOfSequence
    <2>2. ToSet(d) = {d[i] : i \in 1 .. Len(d)}
      BY <1>1, SetOfSequence
    <2>. QED BY <2>1, <2>2
  <1>6. \A i \in 1 .. Len(d) : i \in 1 .. Len(r) \/ i = Len(r) + 1
    BY <1>1
  <1>7. \A i \in 1 .. Len(r) + 1 : i \in 1 .. Len(d)
    BY <1>1
  <1>. QED BY <1>1, <1>2, <1>4, <1>5, <1>6, <1>7

(* A sequence behind another one.                                          *)
LEMMA Joint ==
  ASSUME NEW S, NEW a \in Seq(S), NEW b \in Seq(S)
  PROVE  /\ Len(a \o b) = Len(a) + Len(b) /\ DOMAIN (a \o b) = 1 .. Len(a) + Len(b)
         /\ \A k \in 1 .. Len(b) : (a \o b)[Len(a) + k] = b[k]
  OBVIOUS

LEMMA JointFirst ==
  ASSUME NEW S, NEW a \in Seq(S), NEW b \in Seq(S), Len(a) # 0
  PROVE  (a \o b)[1] = a[1]
  OBVIOUS

(* A chain stays one, perhaps with another end, if the steps to the next   *)
(* tuple stay.                                                             *)
LEMMA ChainKept ==
  ASSUME NEW h, NEW q, NEW e, Chain(h, q, e), NEW g, NEW d,
         ToSet(q) \subseteq DOMAIN g,
         \A t \in ToSet(q) : g[t].next = IF t = Back(q) THEN d ELSE h[t].next
  PROVE  Chain(g, q, d)
  <1>1. q \in Seq(DOMAIN h) /\ Distinct(q)
    BY DEF Chain
  <1>2. ToSet(q) = {q[i] : i \in 1 .. Len(q)}
    BY <1>1, SetOfSequence
  <1>3. q \in Seq(DOMAIN g)
    BY <1>1, <1>2
  <1>4. ASSUME NEW k \in 1 .. Len(q) PROVE g[q[k]].next = Behind(q, k, d)
    <2>1. q # <<>> /\ Len(q) \in 1 .. Len(q)
      BY <1>1
    <2>2. q[k] = q[Len(q)] <=> k = Len(q)
      BY <1>1, <2>1 DEF Distinct
    <2>3. q[k] \in ToSet(q)
      BY <1>2
    <2>4. h[q[k]].next = Behind(q, k, e)
      BY DEF Chain
    <2>5. Back(q) = q[Len(q)]
      BY <2>1 DEF Back
    <2>6. g[q[k]].next = IF q[k] = Back(q) THEN d ELSE h[q[k]].next
      BY <2>3
    <2>. QED BY <2>2, <2>4, <2>5, <2>6 DEF Behind
  <1>. QED BY <1>1, <1>3, <1>4 DEF Chain

(* A list without tuples.                                                  *)
LEMMA EmptyChain ==
  ASSUME NEW h, NEW e
  PROVE  Chain(h, <<>>, e) /\ ToSet(<<>>) = {}
  <1>1. <<>> \in Seq(DOMAIN h) /\ Distinct(<<>>)
    BY DEF Distinct
  <1>2. ToSet(<<>>) = {}
    BY DEF ToSet
  <1>. QED BY <1>1, <1>2 DEF Chain

(* Without its first tuple.                                                *)
LEMMA ChainTail ==
  ASSUME NEW h, NEW q, NEW e, Chain(h, q, e), q # <<>>
  PROVE  /\ Chain(h, Tail(q), e)
         /\ ToSet(Tail(q)) = ToSet(q) \ {q[1]}
         /\ q[1] \in ToSet(q) /\ q[1] \in DOMAIN h
         /\ h[q[1]].next = FirstOr(Tail(q), e)
         /\ Tail(q) # <<>> => Back(Tail(q)) = Back(q)
         /\ Len(Tail(q)) = Len(q) - 1
  <1>1. q \in Seq(DOMAIN h) /\ Distinct(q)
    BY DEF Chain
  <1>2. /\ Tail(q) \in Seq(DOMAIN h) /\ Len(Tail(q)) = Len(q) - 1
        /\ \A k \in 1 .. Len(Tail(q)) : Tail(q)[k] = q[k + 1] /\ k + 1 \in 1 .. Len(q)
        /\ Len(q) \in Nat \ {0} /\ 1 \in 1 .. Len(q)
    BY <1>1
  <1>3. /\ ToSet(q) = {q[i] : i \in 1 .. Len(q)}
        /\ ToSet(Tail(q)) = {Tail(q)[i] : i \in 1 .. Len(Tail(q))}
    BY <1>1, <1>2, SetOfSequence
  <1>4. Distinct(Tail(q))
    BY <1>1, <1>2 DEF Distinct
  <1>5. ASSUME NEW k \in 1 .. Len(Tail(q)) PROVE h[Tail(q)[k]].next = Behind(Tail(q), k, e)
    <2>1. h[q[k + 1]].next = Behind(q, k + 1, e)
      BY <1>2 DEF Chain
    <2>2. k # Len(Tail(q)) => Tail(q)[k + 1] = q[(k + 1) + 1]
      <3>1. Len(Tail(q)) \in Nat
        BY <1>2
      <3>2. k # Len(Tail(q)) => k + 1 \in 1 .. Len(Tail(q))
        BY <3>1
      <3>. QED BY <1>2, <3>2
    <2>3. k = Len(Tail(q)) <=> k + 1 = Len(q)
      BY <1>2
    <2>. QED BY <1>2, <2>1, <2>2, <2>3 DEF Behind
  <1>6. ToSet(Tail(q)) = ToSet(q) \ {q[1]}
    <2>1. ASSUME NEW t \in ToSet(Tail(q)) PROVE t \in ToSet(q) /\ t # q[1]
      <3>1. PICK i \in 1 .. Len(Tail(q)) : t = Tail(q)[i]
        BY <1>3
      <3>2. t = q[i + 1] /\ i + 1 \in 1 .. Len(q) /\ i + 1 # 1
        BY <1>2, <3>1
      <3>. QED BY <1>1, <1>2, <1>3, <3>2 DEF Distinct
    <2>2. ASSUME NEW t \in ToSet(q), t # q[1] PROVE t \in ToSet(Tail(q))
      <3>1. PICK i \in 1 .. Len(q) : t = q[i]
        BY <1>3
      <3>2. i - 1 \in 1 .. Len(Tail(q)) /\ (i - 1) + 1 = i
        BY <1>2, <2>2, <3>1
      <3>3. t = Tail(q)[i - 1]
        BY <1>2, <3>1, <3>2
      <3>. QED BY <1>3, <3>2, <3>3
    <2>. QED BY <2>1, <2>2
  <1>7. h[q[1]].next = FirstOr(Tail(q), e)
    <2>1. h[q[1]].next = Behind(q, 1, e)
      BY <1>2 DEF Chain
    <2>2. Tail(q) = <<>> <=> Len(q) = 1
      <3>1. Tail(q) \in Seq(DOMAIN h)
        BY <1>2
      <3>2. Tail(q) = <<>> <=> Len(Tail(q)) = 0
        BY <3>1, EmptySequence
      <3>3. Len(Tail(q)) = Len(q) - 1 /\ Len(q) \in Nat
        BY <1>2
      <3>. QED BY <3>2, <3>3
    <2>3. Tail(q) # <<>> => Tail(q)[1] = q[1 + 1]
      BY <1>2
    <2>. QED BY <2>1, <2>2, <2>3 DEF Behind, FirstOr
  <1>8. Tail(q) # <<>> => Back(Tail(q)) = Back(q)
    <2>1. Tail(q) # <<>> => Tail(q)[Len(Tail(q))] = q[Len(q)]
      BY <1>2
    <2>. QED BY <2>1 DEF Back
  <1>9. q[1] \in ToSet(q) /\ q[1] \in DOMAIN h
    BY <1>1, <1>2, <1>3
  <1>. QED BY <1>2, <1>4, <1>5, <1>6, <1>7, <1>8, <1>9 DEF Chain

(* The same with a name for the tail.                                      *)
LEMMA TailOfChain ==
  ASSUME NEW h, NEW q, NEW e, Chain(h, q, e), q # <<>>, NEW t, t = Tail(q)
  PROVE  /\ h[q[1]].next = FirstOr(t, e) /\ ToSet(t) = ToSet(q) \ {q[1]}
         /\ (t # <<>> => Back(t) = Back(q))
  BY ChainTail

(* With another tuple behind.                                              *)
LEMMA ChainAppend ==
  ASSUME NEW h, NEW q, NEW x, NEW e, Chain(h, q, x),
         x \in DOMAIN h, x \notin ToSet(q), h[x].next = e
  PROVE  /\ Chain(h, Append(q, x), e)
         /\ ToSet(Append(q, x)) = ToSet(q) \cup {x}
         /\ Back(Append(q, x)) = x /\ Append(q, x) # <<>>
         /\ \A d : FirstOr(Append(q, x), d) = FirstOr(q, x)
         /\ Len(Append(q, x)) = Len(q) + 1
  <1>. DEFINE a == Append(q, x)
  <1>1. q \in Seq(DOMAIN h) /\ Distinct(q)
    BY DEF Chain
  <1>2. /\ a \in Seq(DOMAIN h) /\ Len(a) = Len(q) + 1 /\ a # <<>>
        /\ \A k \in 1 .. Len(q) : a[k] = q[k]
        /\ a[Len(q) + 1] = x /\ Len(q) \in Nat
    BY <1>1
  <1>. HIDE DEF a
  <1>3. ToSet(q) = {q[i] : i \in 1 .. Len(q)} /\ ToSet(a) = {a[i] : i \in 1 .. Len(a)}
    BY <1>1, <1>2, SetOfSequence
  <1>4. \A k \in 1 .. Len(a) : k \in 1 .. Len(q) \/ k = Len(q) + 1
    BY <1>2
  <1>5. \A k \in 1 .. Len(q) : k \in 1 .. Len(a) /\ q[k] # x
    BY <1>2, <1>3
  <1>6. Distinct(a)
    BY <1>1, <1>2, <1>4, <1>5 DEF Distinct
  <1>7. ToSet(a) = ToSet(q) \cup {x}
    <2>1. ToSet(a) \subseteq ToSet(q) \cup {x}
      BY <1>2, <1>3, <1>4
    <2>2. ToSet(q) \subseteq ToSet(a)
      BY <1>2, <1>3, <1>5
    <2>3. x \in ToSet(a)
      BY <1>2, <1>3
    <2>. QED BY <2>1, <2>2, <2>3
  <1>8. ASSUME NEW k \in 1 .. Len(a) PROVE h[a[k]].next = Behind(a, k, e)
    <2>1. CASE k = Len(q) + 1
      BY <1>2, <2>1 DEF Behind
    <2>2. CASE k \in 1 .. Len(q)
      <3>1. h[a[k]].next = Behind(q, k, x)
        BY <1>2, <2>2 DEF Chain
      <3>2. k # Len(a) /\ (k = Len(q) => a[k + 1] = x) /\ (k # Len(q) => a[k + 1] = q[k + 1])
        BY <1>2, <2>2
      <3>. QED BY <3>1, <3>2 DEF Behind
    <2>. QED BY <1>4, <2>1, <2>2
  <1>9. Back(a) = x
    BY <1>2 DEF Back
  <1>10. FirstOr(q, x) = a[1]
    BY <1>1, <1>2 DEF FirstOr
  <1>11. \A d : FirstOr(a, d) = FirstOr(q, x)
    BY <1>2, <1>10 DEF FirstOr
  <1>. QED BY <1>2, <1>6, <1>7, <1>8, <1>9, <1>11 DEF Chain, a

(* With another tuple in front.                                            *)
Before(x, q) == [k \in 1 .. Len(q) + 1 |-> IF k = 1 THEN x ELSE q[k - 1]]

(* What it links to is the chain.                                          *)
LEMMA ChainCons ==
  ASSUME NEW h, NEW q, NEW e, Chain(h, q, e),
         NEW x \in DOMAIN h, x \notin ToSet(q), h[x].next = FirstOr(q, e)
  PROVE  /\ Chain(h, Before(x, q), e)
         /\ ToSet(Before(x, q)) = ToSet(q) \cup {x}
         /\ Before(x, q) # <<>> /\ Before(x, q)[1] = x
         /\ Tail(Before(x, q)) = q
         /\ Len(Before(x, q)) = Len(q) + 1
  <1>. DEFINE c == Before(x, q)
  <1>1. q \in Seq(DOMAIN h) /\ Distinct(q) /\ Len(q) \in Nat
    BY DEF Chain
  <1>2. \A k \in 1 .. Len(q) + 1 : k # 1 => k - 1 \in 1 .. Len(q)
    BY <1>1
  <1>3. \A k \in 1 .. Len(q) + 1 : k # 1 => q[k - 1] \in DOMAIN h
    BY <1>1, <1>2
  <1>4. c \in Seq(DOMAIN h) /\ Len(c) = Len(q) + 1
    BY <1>1, <1>3 DEF Before
  <1>5. c[1] = x /\ \A k \in 1 .. Len(q) : c[k + 1] = q[k] /\ k + 1 \in 1 .. Len(c)
    BY <1>1, <1>4 DEF Before
  <1>6. c # <<>>
    BY <1>1, <1>4
  <1>. HIDE DEF c
  <1>7. \A k \in 1 .. Len(c) : k = 1 \/ (k - 1 \in 1 .. Len(q) /\ c[k] = q[k - 1])
    <2>1. ASSUME NEW k \in 1 .. Len(c), k # 1 PROVE k - 1 \in 1 .. Len(q) /\ c[k] = q[k - 1]
      <3>1. k - 1 \in 1 .. Len(q) /\ (k - 1) + 1 = k
        BY <1>1, <1>4, <2>1
      <3>. QED BY <1>5, <3>1
    <2>. QED BY <2>1
  <1>8. ToSet(q) = {q[i] : i \in 1 .. Len(q)} /\ ToSet(c) = {c[i] : i \in 1 .. Len(c)}
    BY <1>1, <1>4, SetOfSequence
  <1>9. ToSet(c) = ToSet(q) \cup {x}
    <2>1. ToSet(c) \subseteq ToSet(q) \cup {x}
      BY <1>5, <1>7, <1>8
    <2>2. ToSet(q) \subseteq ToSet(c)
      BY <1>5, <1>8
    <2>3. x \in ToSet(c)
      <3>1. 1 \in 1 .. Len(c)
        BY <1>1, <1>4
      <3>. QED BY <1>5, <1>8, <3>1
    <2>. QED BY <2>1, <2>2, <2>3
  <1>10. Distinct(c)
    <2>1. ASSUME NEW i \in 1 .. Len(c), NEW j \in 1 .. Len(c), c[i] = c[j] PROVE i = j
      <3>1. CASE i = 1 /\ j = 1
        BY <3>1
      <3>2. CASE i # 1 /\ j # 1
        <4>1. i - 1 = j - 1
          BY <1>1, <1>7, <2>1, <3>2 DEF Distinct
        <4>. QED BY <1>4, <1>1, <4>1
      <3>3. CASE (i = 1) # (j = 1)
        <4>1. x \in {q[k] : k \in 1 .. Len(q)}
          BY <1>5, <1>7, <2>1, <3>3
        <4>. QED BY <1>8, <4>1
      <3>. QED BY <3>1, <3>2, <3>3
    <2>. QED BY <2>1 DEF Distinct
  <1>11. ASSUME NEW k \in 1 .. Len(c) PROVE h[c[k]].next = Behind(c, k, e)
    <2>1. CASE k = 1
      <3>1. q = <<>> <=> Len(c) = 1
        BY <1>1, <1>4
      <3>2. q # <<>> => c[1 + 1] = q[1]
        BY <1>1, <1>5
      <3>. QED BY <1>5, <2>1, <3>1, <3>2 DEF FirstOr, Behind
    <2>2. CASE k # 1
      <3>1. k - 1 \in 1 .. Len(q) /\ c[k] = q[k - 1]
        BY <1>7, <2>2
      <3>2. h[c[k]].next = Behind(q, k - 1, e)
        BY <3>1 DEF Chain
      <3>3. k = Len(c) <=> k - 1 = Len(q)
        BY <1>1, <1>4
      <3>4. k # Len(c) => c[k + 1] = q[(k - 1) + 1]
        <4>1. k # Len(c) => k \in 1 .. Len(q) /\ (k - 1) + 1 = k
          BY <1>1, <1>4
        <4>. QED BY <1>5, <4>1
      <3>. QED BY <3>2, <3>3, <3>4 DEF Behind
    <2>. QED BY <2>1, <2>2
  <1>12. Tail(c) = q
    <2>1. Tail(c) \in Seq(DOMAIN h) /\ Len(Tail(c)) = Len(q)
      BY <1>1, <1>4, <1>6
    <2>2. \A k \in 1 .. Len(q) : Tail(c)[k] = c[k + 1]
      BY <1>1, <1>4, <1>6
    <2>3. \A k \in 1 .. Len(q) : Tail(c)[k] = q[k]
      BY <1>5, <2>2
    <2>. QED BY <1>1, <2>1, <2>3
  <1>. QED BY <1>4, <1>5, <1>6, <1>9, <1>10, <1>11, <1>12 DEF Chain, c

(* From one of its tuples on.                                              *)
LEMMA ChainSuffix ==
  ASSUME NEW h, NEW q, NEW e, Chain(h, q, e), NEW i \in 1 .. Len(q)
  PROVE  /\ Chain(h, SubSeq(q, i, Len(q)), e)
         /\ SubSeq(q, i, Len(q)) # <<>>
         /\ \A d : FirstOr(SubSeq(q, i, Len(q)), d) = q[i]
         /\ Back(SubSeq(q, i, Len(q))) = Back(q)
  <1>. DEFINE c == SubSeq(q, i, Len(q))
              n == Len(q) - i + 1
  <1>1. q \in Seq(DOMAIN h) /\ Distinct(q) /\ Len(q) \in Nat
    BY DEF Chain
  <1>2. n \in Nat \ {0} /\ 1 \in 1 .. n /\ n \in 1 .. n
    BY <1>1
  <1>3. c \in Seq(DOMAIN h) /\ Len(c) = n /\ \A k \in 1 .. n : c[k] = q[i + k - 1]
    BY <1>1
  <1>4. \A k \in 1 .. n : i + k - 1 \in 1 .. Len(q)
    BY <1>1
  <1>5. i + n - 1 = Len(q) /\ i + 1 - 1 = i
    BY <1>1
  <1>. HIDE DEF c
  <1>6. Distinct(c)
    <2>1. ASSUME NEW j \in 1 .. Len(c), NEW k \in 1 .. Len(c), c[j] = c[k] PROVE j = k
      <3>1. i + j - 1 = i + k - 1
        BY <1>1, <1>3, <1>4, <2>1 DEF Distinct
      <3>2. j \in Int /\ k \in Int /\ i \in Int
        BY <1>1
      <3>. QED BY <3>1, <3>2
    <2>. QED BY <2>1 DEF Distinct
  <1>7. ASSUME NEW k \in 1 .. Len(c) PROVE h[c[k]].next = Behind(c, k, e)
    <2>1. h[c[k]].next = Behind(q, i + k - 1, e)
      BY <1>3, <1>4 DEF Chain
    <2>2. k = Len(c) <=> i + k - 1 = Len(q)
      BY <1>1, <1>3
    <2>3. k # Len(c) => c[k + 1] = q[(i + k - 1) + 1]
      <3>1. k \in 1 .. n /\ n \in Nat /\ i \in Int
        BY <1>1, <1>2, <1>3
      <3>. HIDE DEF n
      <3>2. k # n => k + 1 \in 1 .. n /\ i + (k + 1) - 1 = (i + k - 1) + 1
        BY <3>1
      <3>. QED BY <1>3, <3>2
    <2>. QED BY <2>1, <2>2, <2>3 DEF Behind
  <1>8. c # <<>> /\ c[1] = q[i] /\ c[Len(c)] = q[Len(q)]
    BY <1>2, <1>3, <1>5
  <1>9. q # <<>>
    BY <1>1
  <1>. QED BY <1>3, <1>6, <1>7, <1>8, <1>9 DEF Chain, FirstOr, Back, c

(* The walk along the list, as List makes it, exists.                      *)
Longer(h, t) ==
  [q \in Seq(Nat) |->
     LET a == IF q = <<>> THEN t ELSE h[Last(q)].next
     IN IF a \in DOMAIN h THEN Append(q, a) ELSE q]

(* From the first tuple of a chain List walks along it.                    *)
LEMMA ListEquation ==
  ASSUME NEW h, NEW t, NEW q, Heap(h), Chain(h, q, NULL), t = FirstOr(q, NULL)
  PROVE  List(h, t) = q
  <1>. DEFINE c == Cardinality(DOMAIN h)
              Prefix(n) == IF n <= Len(q) THEN SubSeq(q, 1, n) ELSE q
              f == [n \in 0 .. c |-> Prefix(n)]
              Body(g, n) == IF n = 0 THEN <<>> ELSE Longer(h, t)[g[n - 1]]
              F == CHOOSE g : g = [n \in 0 .. c |-> Body(g, n)]
  <1>1. q \in Seq(DOMAIN h) /\ Distinct(q) /\ Len(q) \in Nat /\ c \in Nat
    BY FS_CardinalityType DEF Chain, Heap
  <1>2. q \in Seq(Nat)
    BY <1>1 DEF Heap
  <1>3. Len(q) <= c
    <2>1. q \in Injection(1 .. Len(q), DOMAIN h)
      BY <1>1 DEF Injection, IsInjective, Distinct
    <2>2. Cardinality(1 .. Len(q)) <= c
      BY <2>1, FS_Injection DEF Heap
    <2>. QED BY <1>1, <2>2, FS_Interval
  <1>4. ASSUME NEW n \in 0 .. c, n # 0 PROVE Longer(h, t)[Prefix(n - 1)] = Prefix(n)
    <2>1. n - 1 \in Nat /\ n \in Nat
      BY <1>1, <1>4
    <2>2. CASE n <= Len(q)
      <3>1. Prefix(n - 1) = SubSeq(q, 1, n - 1) /\ Prefix(n) = SubSeq(q, 1, n)
        BY <1>1, <2>1, <2>2
      <3>. DEFINE p == SubSeq(q, 1, n - 1)
      <3>2. p \in Seq(Nat) /\ Len(p) = n - 1 /\ \A k \in 1 .. n - 1 : p[k] = q[k]
        BY <1>1, <1>2, <2>1, <2>2
      <3>3. SubSeq(q, 1, n) = Append(p, q[n]) /\ q[n] \in DOMAIN h
        BY <1>1, <2>1, <2>2
      <3>. HIDE DEF p, Prefix
      <3>4. (IF p = <<>> THEN t ELSE h[Last(p)].next) = q[n]
        <4>1. p = <<>> <=> n = 1
          BY <2>1, <3>2, EmptySequence
        <4>2. CASE n = 1
          BY <1>1, <2>2, <4>1, <4>2 DEF FirstOr
        <4>3. CASE n # 1
          <5>1. n - 1 \in 1 .. Len(q) /\ n - 1 # Len(q) /\ (n - 1) + 1 = n /\ n - 1 \in 1 .. n - 1
            BY <1>1, <2>1, <2>2, <4>3
          <5>2. Last(p) = q[n - 1]
            BY <3>2, <5>1 DEF Last
          <5>3. h[q[n - 1]].next = q[n]
            BY <5>1 DEF Chain, Behind
          <5>. QED BY <4>1, <4>3, <5>2, <5>3
        <4>. QED BY <4>2, <4>3
      <3>5. Longer(h, t)[p] = Append(p, q[n])
        BY <3>2, <3>3, <3>4 DEF Longer
      <3>. QED BY <3>1, <3>3, <3>5 DEF p
    <2>3. CASE ~(n <= Len(q))
      <3>1. Prefix(n - 1) = q /\ Prefix(n) = q
        <4>1. n - 1 <= Len(q) => n - 1 = Len(q)
          BY <1>1, <2>1, <2>3
        <4>2. SubSeq(q, 1, Len(q)) = q
          BY <1>1
        <4>. QED BY <2>3, <4>1, <4>2
      <3>. HIDE DEF Prefix
      <3>2. (IF q = <<>> THEN t ELSE h[Last(q)].next) = NULL
        <4>1. CASE q = <<>>
          BY <4>1 DEF FirstOr
        <4>2. CASE q # <<>>
          <5>1. Len(q) \in 1 .. Len(q)
            BY <1>1, <4>2
          <5>2. h[q[Len(q)]].next = NULL
            BY <5>1 DEF Chain, Behind
          <5>. QED BY <4>2, <5>2 DEF Last
        <4>. QED BY <4>1, <4>2
      <3>3. NULL \notin DOMAIN h
        BY DEF Heap
      <3>. QED BY <1>2, <3>1, <3>2, <3>3 DEF Longer
    <2>. QED BY <2>2, <2>3
  <1>5. Prefix(0) = <<>> /\ Prefix(c) = q
    <2>1. SubSeq(q, 1, 0) = <<>> /\ SubSeq(q, 1, Len(q)) = q
      BY <1>1
    <2>. QED BY <1>1, <1>3, <2>1
  <1>. HIDE DEF Prefix
  <1>6. f = [n \in 0 .. c |-> Body(f, n)]
    <2>1. ASSUME NEW n \in 0 .. c PROVE f[n] = Body(f, n)
      <3>1. CASE n = 0
        BY <1>1, <1>5, <3>1
      <3>2. CASE n # 0
        <4>1. n - 1 \in 0 .. c
          BY <1>1, <3>2
        <4>. QED BY <1>4, <3>2, <4>1
      <3>. QED BY <3>1, <3>2
    <2>. HIDE DEF Body
    <2>. QED BY <2>1
  <1>7. F = [n \in 0 .. c |-> Body(F, n)]
    <2>. HIDE DEF f, Body
    <2>. QED BY <1>6, Zenon
  <1>8. List(h, t) = F[c]
    BY Zenon DEF List, Longer
  <1>. HIDE DEF F
  <1>. DEFINE T == {n \in Nat : n <= c => F[n] = Prefix(n)}
  <1>9. 0 \in T
    <2>1. F[0] = Body(F, 0)
      BY <1>1, <1>7
    <2>. QED BY <1>5, <2>1
  <1>10. ASSUME NEW n \in Nat, n \in T PROVE n + 1 \in T
    <2>1. SUFFICES ASSUME n + 1 <= c PROVE F[n + 1] = Prefix(n + 1)
      OBVIOUS
    <2>2. n + 1 \in 0 .. c /\ n + 1 # 0 /\ (n + 1) - 1 = n /\ n <= c
      BY <1>1, <2>1
    <2>3. F[n + 1] = Longer(h, t)[F[n]]
      BY <1>7, <2>2
    <2>4. F[n] = Prefix(n)
      BY <1>10, <2>2
    <2>5. Longer(h, t)[Prefix((n + 1) - 1)] = Prefix(n + 1)
      BY <1>4, <2>2
    <2>. QED BY <2>2, <2>3, <2>4, <2>5
  <1>11. c \in T
    <2>. HIDE DEF T
    <2>. QED BY <1>1, <1>9, <1>10, Induction
  <1>. QED BY <1>1, <1>5, <1>8, <1>11

(* From any of its tuples End gets to the last one.                        *)
LEMMA EndOfChain ==
  ASSUME NEW h, Heap(h), NEW q, Chain(h, q, NULL), NEW t \in ToSet(q)
  PROVE  End(h, t) = Back(q)
  <1>1. q \in Seq(DOMAIN h)
    BY DEF Chain
  <1>2. PICK i \in 1 .. Len(q) : t = q[i]
    BY <1>1, SetOfSequence
  <1>. DEFINE c == SubSeq(q, i, Len(q))
  <1>3. Chain(h, c, NULL) /\ c # <<>> /\ FirstOr(c, NULL) = q[i] /\ Back(c) = Back(q)
    BY ChainSuffix
  <1>. HIDE DEF c
  <1>4. List(h, t) = c
    BY <1>2, <1>3, ListEquation
  <1>5. Last(c) = Back(c)
    BY <1>3 DEF Last, Back
  <1>. QED BY <1>3, <1>4, <1>5 DEF End

-------------------------------------------------------------------------------
(* What the operations on tuples do to the links.                          *)

(* A tuple is linked to another one.                                       *)
LEMMA LinkTheorem ==
  ASSUME NEW h, Heap(h), NEW t \in DOMAIN h, NEW n
  PROVE  /\ Heap(Link(h, t, n)) /\ DOMAIN Link(h, t, n) = DOMAIN h
         /\ \A x \in DOMAIN h : Link(h, t, n)[x].next = IF x = t THEN n ELSE h[x].next
  BY DEF Link, Tupel, Heap

(* A tuple is allocated.                                                   *)
LEMMA AddTheorem ==
  ASSUME NEW h, Heap(h), NEW x \in Nat \ {NULL}, NEW tuple
  PROVE  Heap(Put(h, x, tuple)) /\ DOMAIN Put(h, x, tuple) = DOMAIN h \cup {x}
  <1>1. IsFiniteSet(DOMAIN h \cup {x})
    BY FS_AddElement DEF Heap
  <1>. QED BY <1>1 DEF Put, Heap

(* Some are freed.                                                         *)
LEMMA FreeTheorem ==
  ASSUME NEW h, Heap(h), NEW A
  PROVE  /\ Heap(freeTupel(h, A)) /\ DOMAIN freeTupel(h, A) = DOMAIN h \ A
         /\ \A y \in DOMAIN h \ A : freeTupel(h, A)[y].next = h[y].next
  <1>1. DOMAIN freeTupel(h, A) = DOMAIN h \ A
    BY DEF freeTupel
  <1>2. IsFiniteSet(DOMAIN h \ A)
    BY FS_Subset DEF Heap
  <1>. QED BY <1>1, <1>2 DEF Heap, freeTupel

(* The tuples of a chain are in memory, its first and its last one too.    *)
LEMMA BackOfChain ==
  ASSUME NEW h, Heap(h), NEW q, NEW e, Chain(h, q, e)
  PROVE  /\ Back(q) = NULL <=> q = <<>>
         /\ q # <<>> => Back(q) \in ToSet(q) /\ q[1] \in ToSet(q)
         /\ ToSet(q) \subseteq DOMAIN h /\ ToSet(q) \subseteq Nat \ {NULL}
         /\ ToSet(q) = {} <=> q = <<>>
         /\ q \in Seq(Nat) /\ Len(q) \in Nat
  <1>1. q \in Seq(DOMAIN h) /\ DOMAIN h \subseteq Nat \ {NULL}
    BY DEF Chain, Heap
  <1>2. /\ ToSet(q) \subseteq DOMAIN h /\ (ToSet(q) = {} <=> q = <<>>)
        /\ q # <<>> => q[1] \in ToSet(q) /\ q[Len(q)] \in ToSet(q)
    BY <1>1, SetOfSequence
  <1>3. q \in Seq(Nat) /\ Len(q) \in Nat
    BY <1>1
  <1>. QED BY <1>1, <1>2, <1>3 DEF Back

(* Whether a tuple is the last one of its list.                            *)
LEMMA MoreOfChain ==
  ASSUME NEW h, Heap(h), NEW q, Chain(h, q, NULL), q # <<>>
  PROVE  h[q[1]].next # NULL <=> Tail(q) # <<>>
  <1>1. Chain(h, Tail(q), NULL) /\ h[q[1]].next = FirstOr(Tail(q), NULL)
    BY ChainTail
  <1>2. Tail(q) # <<>> => Tail(q)[1] # NULL
    BY <1>1, BackOfChain
  <1>. QED BY <1>1, <1>2 DEF FirstOr

(* The predecessor is linked to another tuple, or to none.                 *)
LEMMA SetNextTheorem ==
  ASSUME NEW h, Heap(h), NEW p, NEW e, Chain(h, p, e), NEW n
  PROVE  /\ Heap(SetNext(h, Back(p), n)) /\ DOMAIN SetNext(h, Back(p), n) = DOMAIN h
         /\ Chain(SetNext(h, Back(p), n), p, n)
         /\ \A x \in DOMAIN h \ ToSet(p) : SetNext(h, Back(p), n)[x].next = h[x].next
  <1>. DEFINE g == SetNext(h, Back(p), n)
  <1>1. CASE p = <<>>
    BY <1>1, BackOfChain, EmptyChain DEF SetNext
  <1>2. CASE p # <<>>
    <2>1. Back(p) \in ToSet(p) /\ Back(p) # NULL /\ ToSet(p) \subseteq DOMAIN h
      BY <1>2, BackOfChain
    <2>2. g = Link(h, Back(p), n)
      BY <2>1 DEF SetNext
    <2>. HIDE DEF g
    <2>3. /\ Heap(g) /\ DOMAIN g = DOMAIN h
          /\ \A x \in DOMAIN h : g[x].next = IF x = Back(p) THEN n ELSE h[x].next
      BY <2>1, <2>2, LinkTheorem
    <2>4. Chain(g, p, n)
      BY <2>1, <2>3, ChainKept
    <2>5. \A x \in DOMAIN h \ ToSet(p) : g[x].next = h[x].next
      BY <2>1, <2>3
    <2>. QED BY <2>3, <2>4, <2>5 DEF g
  <1>. QED BY <1>1, <1>2

-------------------------------------------------------------------------------
(* The tuples of a join: those that are joined (p), the rest of the stream *)
(* (s) and the right side (r).  The first are linked to the rest or end    *)
(* the list.                                                               *)

Disjoint(p, s, r) ==
  ToSet(p) \cap ToSet(s) = {} /\ ToSet(p) \cap ToSet(r) = {} /\ ToSet(s) \cap ToSet(r) = {}

Apart(h, p, e, s, r) ==
  /\ Heap(h) /\ DOMAIN h = ToSet(p) \cup ToSet(s) \cup ToSet(r)
  /\ Chain(h, p, e) /\ Chain(h, s, NULL) /\ Chain(h, r, NULL)
  /\ e \in {NULL, FirstOr(s, NULL)}
  /\ Disjoint(p, s, r)

(* A chain none of whose links was changed.                                *)
LEMMA SameChain ==
  ASSUME NEW h, Heap(h), NEW q, NEW e, Chain(h, q, e), NEW g, ToSet(q) \subseteq DOMAIN g,
         \A t \in ToSet(q) : g[t].next = h[t].next
  PROVE  Chain(g, q, e)
  <1>1. q # <<>> => Len(q) \in 1 .. Len(q)
    BY BackOfChain
  <1>2. q # <<>> => h[Back(q)].next = e
    BY <1>1 DEF Chain, Behind, Back
  <1>3. \A t \in ToSet(q) : q # <<>>
    BY BackOfChain
  <1>4. \A t \in ToSet(q) : g[t].next = IF t = Back(q) THEN e ELSE h[t].next
    BY <1>2, <1>3
  <1>. QED BY <1>4, ChainKept

(* The first tuple of the stream is copied, the copy follows it.           *)
LEMMA CopyApart ==
  ASSUME NEW h, NEW p, NEW e, NEW s, NEW r, Apart(h, p, e, s, r), s # <<>>
  PROVE  \E c : /\ c # <<>> /\ c[1] = s[1] /\ Tail(c) # <<>> /\ Tail(Tail(c)) = Tail(s)
                /\ Apart(CopyBehind(h, s[1]), p, e, c, r)
  <1>. DEFINE x == Fresh(h)
              a == s[1]
              tuple == Tupel(copyTupel(h, a).items, h[a].next)
              g == Put(h, x, tuple)
              k == Link(g, a, x)
              d == Before(x, Tail(s))
              c == Before(a, d)
  <1>1. x \in Nat \ {NULL} /\ x \notin DOMAIN h
    BY FreshAddress DEF Apart
  <1>2. /\ Heap(g) /\ DOMAIN g = DOMAIN h \cup {x} /\ g[x].next = h[a].next
        /\ \A y \in DOMAIN h : g[y].next = h[y].next
    <2>1. Heap(h)
      BY DEF Apart
    <2>2. tuple.next = h[a].next
      BY DEF Tupel
    <2>. HIDE DEF x, tuple
    <2>3. /\ Heap(g) /\ DOMAIN g = DOMAIN h \cup {x} /\ g[x] = tuple
          /\ \A y \in DOMAIN h \ {x} : g[y] = h[y]
      <3>1. Heap(g) /\ DOMAIN g = DOMAIN h \cup {x}
        BY <1>1, <2>1, AddTheorem
      <3>2. g[x] = tuple /\ \A y \in DOMAIN h \ {x} : g[y] = h[y]
        BY DEF Put
      <3>. QED BY <3>1, <3>2
    <2>. QED BY <1>1, <2>2, <2>3
  <1>3. /\ Chain(h, Tail(s), NULL) /\ ToSet(Tail(s)) = ToSet(s) \ {a}
        /\ a \in ToSet(s) /\ a \in DOMAIN h /\ h[a].next = FirstOr(Tail(s), NULL)
    BY ChainTail DEF Apart
  <1>4. CopyBehind(h, s[1]) = k
    BY DEF CopyBehind
  <1>. HIDE DEF x, g
  <1>5. /\ Heap(k) /\ DOMAIN k = DOMAIN h \cup {x} /\ k[x].next = FirstOr(Tail(s), NULL)
        /\ k[a].next = x
        /\ \A y \in DOMAIN h \ {a} : k[y].next = h[y].next
    BY <1>1, <1>2, <1>3, LinkTheorem
  <1>. HIDE DEF k
  <1>6. ToSet(p) \subseteq DOMAIN h \ {a} /\ ToSet(r) \subseteq DOMAIN h \ {a}
    BY <1>3 DEF Apart, Disjoint
  <1>7. Chain(k, p, e) /\ Chain(k, r, NULL)
    BY <1>5, <1>6, SameChain DEF Apart
  <1>8. Chain(k, Tail(s), NULL)
    BY <1>3, <1>5, SameChain DEF Apart
  <1>9. /\ Chain(k, d, NULL) /\ ToSet(d) = (ToSet(s) \ {a}) \cup {x}
        /\ d # <<>> /\ d[1] = x /\ Tail(d) = Tail(s)
    <2>1. x \in DOMAIN k /\ x \notin ToSet(Tail(s))
      BY <1>1, <1>3, <1>5 DEF Apart
    <2>2. /\ Chain(k, d, NULL) /\ ToSet(d) = ToSet(Tail(s)) \cup {x}
          /\ d # <<>> /\ d[1] = x
      BY <1>5, <1>8, <2>1, ChainCons
    <2>3. Tail(d) = Tail(s)
      <3>. DEFINE t == Tail(s)
      <3>1. Chain(k, t, NULL) /\ x \in DOMAIN k /\ x \notin ToSet(t)
            /\ k[x].next = FirstOr(t, NULL) /\ d = Before(x, t)
        BY <1>5, <1>8, <2>1
      <3>. HIDE DEF t, d
      <3>2. Tail(d) = t
        BY <3>1, ChainCons
      <3>. QED BY <3>2 DEF t
    <2>. HIDE DEF d
    <2>. QED BY <1>3, <2>2, <2>3
  <1>. HIDE DEF d
  <1>10. /\ Chain(k, c, NULL) /\ ToSet(c) = ToSet(s) \cup {x}
         /\ c # <<>> /\ c[1] = a /\ Tail(c) = d
    <2>1. a \in DOMAIN k /\ a \notin ToSet(d) /\ k[a].next = FirstOr(d, NULL)
      BY <1>1, <1>3, <1>5, <1>9 DEF FirstOr
    <2>. QED BY <1>3, <1>9, <2>1, ChainCons
  <1>. HIDE DEF c
  <1>11. Disjoint(p, c, r)
    <2>1. x \notin ToSet(p) /\ x \notin ToSet(r)
      BY <1>1, <1>6
    <2>. QED BY <1>10, <2>1 DEF Apart, Disjoint
  <1>12. DOMAIN k = ToSet(p) \cup ToSet(c) \cup ToSet(r)
    BY <1>5, <1>10 DEF Apart
  <1>13. e \in {NULL, FirstOr(c, NULL)}
    BY <1>10 DEF Apart, FirstOr
  <1>14. Apart(k, p, e, c, r)
    BY <1>5, <1>7, <1>10, <1>11, <1>12, <1>13 DEF Apart
  <1>15. Tail(c) # <<>> /\ Tail(Tail(c)) = Tail(s)
    BY <1>9, <1>10, Zenon
  <1>. QED BY <1>4, <1>10, <1>14, <1>15, Zenon

(* A new tuple goes to the end of the right side.                          *)
LEMMA KeepApart ==
  ASSUME NEW h, NEW p, NEW e, NEW s, NEW r, Apart(h, p, e, s, r), r # <<>>, NEW items
  PROVE  Apart(Link(Put(h, Fresh(h), Tupel(items, NULL)), Back(r), Fresh(h)),
               p, e, s, Append(r, Fresh(h)))
  <1>. DEFINE x == Fresh(h)
              tuple == Tupel(items, NULL)
              g == Put(h, x, tuple)
              k == Link(g, Back(r), x)
              c == Append(r, x)
  <1>1. x \in Nat \ {NULL} /\ x \notin DOMAIN h
    BY FreshAddress DEF Apart
  <1>2. /\ Heap(g) /\ DOMAIN g = DOMAIN h \cup {x} /\ g[x].next = NULL
        /\ \A y \in DOMAIN h : g[y].next = h[y].next
    <2>1. Heap(h)
      BY DEF Apart
    <2>2. tuple.next = NULL
      BY DEF Tupel
    <2>. HIDE DEF x, tuple
    <2>3. /\ Heap(g) /\ DOMAIN g = DOMAIN h \cup {x} /\ g[x] = tuple
          /\ \A y \in DOMAIN h \ {x} : g[y] = h[y]
      <3>1. Heap(g) /\ DOMAIN g = DOMAIN h \cup {x}
        BY <1>1, <2>1, AddTheorem
      <3>2. g[x] = tuple /\ \A y \in DOMAIN h \ {x} : g[y] = h[y]
        BY DEF Put
      <3>. QED BY <3>1, <3>2
    <2>. QED BY <1>1, <2>2, <2>3
  <1>3. Back(r) \in ToSet(r) /\ ToSet(r) \subseteq DOMAIN h
    BY BackOfChain DEF Apart
  <1>. HIDE DEF x, g
  <1>4. /\ Heap(k) /\ DOMAIN k = DOMAIN h \cup {x} /\ k[x].next = NULL
        /\ \A y \in DOMAIN h : k[y].next = IF y = Back(r) THEN x ELSE h[y].next
    BY <1>1, <1>2, <1>3, LinkTheorem
  <1>. HIDE DEF k
  <1>5. Chain(k, r, x)
    BY <1>3, <1>4, ChainKept DEF Apart
  <1>6. Chain(k, c, NULL) /\ ToSet(c) = ToSet(r) \cup {x}
    BY <1>1, <1>3, <1>4, <1>5, ChainAppend
  <1>7. ToSet(p) \subseteq DOMAIN h \ {Back(r)} /\ ToSet(s) \subseteq DOMAIN h \ {Back(r)}
    BY <1>3 DEF Apart, Disjoint
  <1>8. Chain(k, p, e) /\ Chain(k, s, NULL)
    BY <1>4, <1>7, SameChain DEF Apart
  <1>. HIDE DEF c
  <1>9. Disjoint(p, s, c) /\ DOMAIN k = ToSet(p) \cup ToSet(s) \cup ToSet(c)
    BY <1>1, <1>4, <1>6, <1>7 DEF Apart, Disjoint
  <1>10. Apart(k, p, e, s, c)
    BY <1>4, <1>6, <1>8, <1>9 DEF Apart
  <1>. QED BY <1>10 DEF k, c, x, g

(* The first tuple on the right is freed.                                  *)
LEMMA FreeRight ==
  ASSUME NEW h, NEW p, NEW e, NEW s, NEW r, Apart(h, p, e, s, r), r # <<>>
  PROVE  Apart(freeTupel(h, {r[1]}), p, e, s, Tail(r))
  <1>. DEFINE a == r[1]
              g == freeTupel(h, {a})
  <1>1. Heap(h) /\ Chain(h, r, NULL)
    BY DEF Apart
  <1>2. /\ Chain(h, Tail(r), NULL) /\ ToSet(Tail(r)) = ToSet(r) \ {a} /\ a \in ToSet(r)
    BY <1>1, ChainTail
  <1>3. /\ Heap(g) /\ DOMAIN g = DOMAIN h \ {a}
        /\ \A y \in DOMAIN h \ {a} : g[y].next = h[y].next
    BY <1>1, FreeTheorem
  <1>. HIDE DEF g, a
  <1>4. /\ ToSet(p) \subseteq DOMAIN h \ {a} /\ ToSet(s) \subseteq DOMAIN h \ {a}
        /\ ToSet(Tail(r)) \subseteq DOMAIN h \ {a}
    BY <1>2 DEF Apart, Disjoint
  <1>5. Chain(g, p, e) /\ Chain(g, s, NULL) /\ Chain(g, Tail(r), NULL)
    BY <1>2, <1>3, <1>4, SameChain DEF Apart
  <1>6. Disjoint(p, s, Tail(r)) /\ DOMAIN g = ToSet(p) \cup ToSet(s) \cup ToSet(Tail(r))
    BY <1>2, <1>3, <1>4 DEF Apart, Disjoint
  <1>7. Apart(g, p, e, s, Tail(r))
    BY <1>3, <1>5, <1>6 DEF Apart
  <1>. QED BY <1>7 DEF g, a

(* The first tuple on the right goes to the end there.                     *)
LEMMA RotateRight ==
  ASSUME NEW h, NEW p, NEW e, NEW s, NEW r, Apart(h, p, e, s, r), r # <<>>, Tail(r) # <<>>
  PROVE  Apart(Link(Link(h, Back(r), r[1]), r[1], NULL), p, e, s, Append(Tail(r), r[1]))
  <1>. DEFINE a == r[1]
              b == Back(r)
              g == Link(Link(h, b, a), a, NULL)
              t == Tail(r)
              c == Append(t, a)
  <1>1. Heap(h) /\ Chain(h, r, NULL)
    BY DEF Apart
  <1>2. /\ Chain(h, t, NULL) /\ ToSet(t) = ToSet(r) \ {a} /\ a \in ToSet(r) /\ a \in DOMAIN h
        /\ Back(t) = b
    BY <1>1, ChainTail
  <1>3. b \in ToSet(t) /\ b \in DOMAIN h
    BY <1>1, <1>2, BackOfChain
  <1>. HIDE DEF a, b, t
  <1>4. /\ Heap(g) /\ DOMAIN g = DOMAIN h /\ g[a].next = NULL
        /\ \A y \in DOMAIN h \ {a} : g[y].next = IF y = b THEN a ELSE h[y].next
    <2>. DEFINE k == Link(h, b, a)
    <2>1. /\ Heap(k) /\ DOMAIN k = DOMAIN h
          /\ \A y \in DOMAIN h : k[y].next = IF y = b THEN a ELSE h[y].next
      BY <1>1, <1>3, LinkTheorem
    <2>. HIDE DEF k
    <2>2. /\ Heap(Link(k, a, NULL)) /\ DOMAIN Link(k, a, NULL) = DOMAIN k
          /\ \A y \in DOMAIN k : Link(k, a, NULL)[y].next = IF y = a THEN NULL ELSE k[y].next
      BY <1>2, <2>1, LinkTheorem
    <2>. QED BY <1>2, <2>1, <2>2 DEF k
  <1>. HIDE DEF g
  <1>5. Chain(g, t, a)
    <2>1. ToSet(t) \subseteq DOMAIN g
      BY <1>1, <1>2, <1>4, BackOfChain
    <2>2. \A y \in ToSet(t) : g[y].next = IF y = Back(t) THEN a ELSE h[y].next
      BY <1>2, <1>4, <2>1
    <2>. QED BY <1>2, <2>1, <2>2, ChainKept
  <1>6. Chain(g, c, NULL) /\ ToSet(c) = ToSet(r)
    <2>1. a \in DOMAIN g /\ a \notin ToSet(t) /\ g[a].next = NULL
      BY <1>2, <1>4
    <2>2. Chain(g, c, NULL) /\ ToSet(c) = ToSet(t) \cup {a}
      BY <1>5, <2>1, ChainAppend
    <2>. QED BY <1>2, <2>2
  <1>7. /\ ToSet(p) \subseteq DOMAIN h \ {a, b} /\ ToSet(s) \subseteq DOMAIN h \ {a, b}
    BY <1>2, <1>3 DEF Apart, Disjoint
  <1>8. Chain(g, p, e) /\ Chain(g, s, NULL)
    BY <1>4, <1>7, SameChain DEF Apart
  <1>. HIDE DEF c
  <1>9. Disjoint(p, s, c) /\ DOMAIN g = ToSet(p) \cup ToSet(s) \cup ToSet(c)
    BY <1>4, <1>6 DEF Apart, Disjoint
  <1>10. Apart(g, p, e, s, c)
    BY <1>4, <1>6, <1>8, <1>9 DEF Apart
  <1>. QED BY <1>10 DEF g, a, b, c, t

(* The first tuple of the rest of the stream is freed: what was joined is  *)
(* linked to the next one, or ends there.                                  *)
LEMMA DropStream ==
  ASSUME NEW h, NEW p, NEW e, NEW s, NEW r, Apart(h, p, e, s, r), s # <<>>,
         NEW n \in {NULL, FirstOr(Tail(s), NULL)}
  PROVE  Apart(freeTupel(SetNext(h, Back(p), n), {s[1]}), p, n, Tail(s), r)
  <1>. DEFINE a == s[1]
              k == SetNext(h, Back(p), n)
              g == freeTupel(k, {a})
  <1>1. Heap(h) /\ Chain(h, s, NULL) /\ Chain(h, p, e)
    BY DEF Apart
  <1>2. /\ Chain(h, Tail(s), NULL) /\ ToSet(Tail(s)) = ToSet(s) \ {a} /\ a \in ToSet(s)
    BY <1>1, ChainTail
  <1>3. /\ Heap(k) /\ DOMAIN k = DOMAIN h /\ Chain(k, p, n)
        /\ \A y \in DOMAIN h \ ToSet(p) : k[y].next = h[y].next
    BY <1>1, SetNextTheorem
  <1>. HIDE DEF k, a
  <1>4. /\ Heap(g) /\ DOMAIN g = DOMAIN k \ {a}
        /\ \A y \in DOMAIN k \ {a} : g[y].next = k[y].next
    BY <1>3, FreeTheorem
  <1>. HIDE DEF g
  <1>5. /\ ToSet(p) \subseteq DOMAIN k \ {a} /\ ToSet(r) \subseteq DOMAIN h \ (ToSet(p) \cup {a})
        /\ ToSet(Tail(s)) \subseteq DOMAIN h \ (ToSet(p) \cup {a})
    BY <1>2, <1>3 DEF Apart, Disjoint
  <1>6. Chain(g, p, n)
    BY <1>3, <1>4, <1>5, SameChain
  <1>7. Chain(g, Tail(s), NULL) /\ Chain(g, r, NULL)
    BY <1>2, <1>3, <1>4, <1>5, SameChain DEF Apart
  <1>8. Disjoint(p, Tail(s), r) /\ DOMAIN g = ToSet(p) \cup ToSet(Tail(s)) \cup ToSet(r)
    BY <1>2, <1>3, <1>4, <1>5 DEF Apart, Disjoint
  <1>9. Apart(g, p, n, Tail(s), r)
    BY <1>4, <1>6, <1>7, <1>8 DEF Apart
  <1>. QED BY <1>9 DEF g, k, a

(* A pair is merged: the tuple of the stream, which may move, is joined to *)
(* those before it, and the one on the right is gone.                      *)
LEMMA MergeApart ==
  ASSUME NEW h, NEW p, NEW e, NEW s, NEW r, Apart(h, p, e, s, r), s # <<>>, r # <<>>,
         NEW at \in Nat \ {NULL}, at = s[1] \/ at \notin DOMAIN h
  PROVE  Apart(SetNext(mergeTuple(h, s[1], r[1], at), Back(p), at),
               Append(p, at), FirstOr(Tail(s), NULL), Tail(s), Tail(r))
  <1>. DEFINE a == s[1]
              b == r[1]
              n == FirstOr(Tail(s), NULL)
              f == freeTupel(h, {a, b})
              tuple == Tupel(h[a].items \o Unknown(h[a], h[b]), h[a].next)
              m == Put(f, at, tuple)
              g == SetNext(m, Back(p), at)
  <1>1. Heap(h) /\ Chain(h, p, e) /\ Chain(h, s, NULL) /\ Chain(h, r, NULL)
    BY DEF Apart
  <1>2. /\ Chain(h, Tail(s), NULL) /\ ToSet(Tail(s)) = ToSet(s) \ {a} /\ a \in ToSet(s)
        /\ h[a].next = n
    BY <1>1, ChainTail
  <1>3. /\ Chain(h, Tail(r), NULL) /\ ToSet(Tail(r)) = ToSet(r) \ {b} /\ b \in ToSet(r)
    BY <1>1, ChainTail
  <1>4. mergeTuple(h, s[1], r[1], at) = m
    BY DEF mergeTuple
  <1>5. tuple.next = n
    BY <1>2 DEF Tupel
  <1>. HIDE DEF a, b, n, tuple
  <1>6. /\ Heap(f) /\ DOMAIN f = DOMAIN h \ {a, b}
        /\ \A y \in DOMAIN h \ {a, b} : f[y].next = h[y].next
    BY <1>1, FreeTheorem
  <1>. HIDE DEF f
  <1>7. /\ Heap(m) /\ DOMAIN m = DOMAIN f \cup {at} /\ m[at].next = n
        /\ \A y \in DOMAIN f \ {at} : m[y].next = f[y].next
    <2>1. Heap(m) /\ DOMAIN m = DOMAIN f \cup {at}
      BY <1>6, AddTheorem
    <2>2. m[at] = tuple /\ \A y \in DOMAIN f \ {at} : m[y] = f[y]
      BY DEF Put
    <2>. QED BY <1>5, <2>1, <2>2
  <1>. HIDE DEF m
  <1>8. at \notin ToSet(p) /\ at \notin ToSet(Tail(s)) /\ at \notin ToSet(Tail(r))
    BY <1>2, <1>3 DEF Apart, Disjoint, a
  <1>9. /\ ToSet(p) \subseteq DOMAIN f \ {at}
        /\ ToSet(Tail(s)) \subseteq DOMAIN f \ ({at} \cup ToSet(p))
        /\ ToSet(Tail(r)) \subseteq DOMAIN f \ ({at} \cup ToSet(p))
    BY <1>2, <1>3, <1>6, <1>8 DEF Apart, Disjoint
  <1>10. Chain(m, p, e)
    BY <1>1, <1>6, <1>7, <1>9, SameChain
  <1>11. /\ Heap(g) /\ DOMAIN g = DOMAIN m /\ Chain(g, p, at)
         /\ \A y \in DOMAIN m \ ToSet(p) : g[y].next = m[y].next
    BY <1>7, <1>10, SetNextTheorem
  <1>. HIDE DEF g
  <1>12. at \in DOMAIN g /\ g[at].next = n
    BY <1>7, <1>8, <1>11
  <1>13. Chain(g, Append(p, at), n) /\ ToSet(Append(p, at)) = ToSet(p) \cup {at}
    BY <1>8, <1>11, <1>12, ChainAppend
  <1>14. Chain(g, Tail(s), NULL) /\ Chain(g, Tail(r), NULL)
    <2>1. \A y \in ToSet(Tail(s)) \cup ToSet(Tail(r)) : y \in DOMAIN g /\ g[y].next = h[y].next
      BY <1>6, <1>7, <1>9, <1>11
    <2>. QED BY <1>1, <1>2, <1>3, <2>1, SameChain
  <1>15. /\ Disjoint(Append(p, at), Tail(s), Tail(r))
         /\ DOMAIN g = ToSet(Append(p, at)) \cup ToSet(Tail(s)) \cup ToSet(Tail(r))
    <2>1. DOMAIN h \ {a, b} = ToSet(p) \cup ToSet(Tail(s)) \cup ToSet(Tail(r))
      BY <1>2, <1>3 DEF Apart, Disjoint
    <2>2. Disjoint(Append(p, at), Tail(s), Tail(r))
      BY <1>2, <1>3, <1>8, <1>13 DEF Apart, Disjoint
    <2>. QED BY <1>6, <1>7, <1>11, <1>13, <2>1, <2>2
  <1>16. Apart(g, Append(p, at), n, Tail(s), Tail(r))
    BY <1>11, <1>13, <1>14, <1>15 DEF Apart, n
  <1>. QED BY <1>4, <1>16 DEF g, n

(* A new list takes addresses in a row.                                    *)
SameLinks(g, h) == \A y \in DOMAIN h : g[y].next = h[y].next
Addresses(h, list) == [k \in 1 .. Len(list) |-> Beyond(h) + k - 1]

(* It is a chain next to what was there, the links of which it leaves.     *)
LEMMA NewListTheorem ==
  ASSUME NEW h, Heap(h), NEW list, IsSequence(list)
  PROVE  /\ Heap(NewList(h, list))
         /\ DOMAIN NewList(h, list) = DOMAIN h \cup ToSet(Addresses(h, list))
         /\ DOMAIN h \cap ToSet(Addresses(h, list)) = {}
         /\ Chain(NewList(h, list), Addresses(h, list), NULL)
         /\ (Addresses(h, list) = <<>> <=> list = <<>>)
         /\ (list # <<>> => FirstOr(Addresses(h, list), NULL) = Beyond(h))
         /\ SameLinks(NewList(h, list), h)
  <1>. DEFINE b == Beyond(h)
              n == Len(list)
              q == Addresses(h, list)
              g == NewList(h, list)
              New(k) == Tupel(list[k - b + 1], IF k = b + n - 1 THEN NULL ELSE k + 1)
  <1>1. list \in Seq(ToSet(list))
    BY DEF IsSequence
  <1>2. b \in Nat \ {NULL} /\ (\A t \in DOMAIN h : t < b) /\ n \in Nat
    BY <1>1, BeyondAddress
  <1>3. g = [k \in DOMAIN h \cup (b .. b + n - 1) |-> IF k < b THEN h[k] ELSE New(k)]
    BY DEF NewList
  <1>4. q = [k \in 1 .. n |-> b + k - 1]
    BY DEF Addresses
  <1>5. list = <<>> <=> n = 0
    BY <1>1, EmptySequence
  <1>. HIDE DEF b, n, q, g, New
  <1>6. b # 0
    BY <1>2 DEF NULL
  <1>7. q \in Seq(Nat) /\ Len(q) = n /\ \A k \in 1 .. n : q[k] = b + k - 1
    BY <1>2, <1>4
  <1>8. ToSet(q) = b .. b + n - 1
    <2>1. ToSet(q) = {q[i] : i \in 1 .. n}
      BY <1>7, SetOfSequence
    <2>2. \A k \in 1 .. n : q[k] \in b .. b + n - 1
      BY <1>2, <1>7
    <2>3. ASSUME NEW x \in b .. b + n - 1 PROVE x \in {q[i] : i \in 1 .. n}
      <3>1. x - b + 1 \in 1 .. n /\ b + (x - b + 1) - 1 = x
        BY <1>2
      <3>. QED BY <1>7, <3>1
    <2>. QED BY <2>1, <2>2, <2>3
  <1>9. /\ DOMAIN g = DOMAIN h \cup (b .. b + n - 1)
        /\ DOMAIN h \cap (b .. b + n - 1) = {}
    BY <1>2, <1>3
  <1>10. Heap(g)
    <2>1. IsFiniteSet(b .. b + n - 1)
      BY <1>2, FS_Interval
    <2>2. IsFiniteSet(DOMAIN g)
      BY <1>9, <2>1, FS_Union DEF Heap
    <2>3. DOMAIN g \subseteq Nat \ {NULL}
      BY <1>2, <1>6, <1>9 DEF Heap, NULL
    <2>. QED BY <2>2, <2>3 DEF Heap
  <1>11. \A y \in DOMAIN h : g[y] = h[y]
    BY <1>2, <1>3
  <1>12. ASSUME NEW k \in 1 .. n PROVE q[k] \in DOMAIN g /\ g[q[k]].next = Behind(q, k, NULL)
    <2>1. q[k] = b + k - 1 /\ q[k] \in b .. b + n - 1 /\ ~ (q[k] < b)
      BY <1>2, <1>7
    <2>2. q[k] \in DOMAIN g /\ g[q[k]] = New(q[k])
      BY <1>3, <2>1
    <2>3. New(q[k]).next = IF q[k] = b + n - 1 THEN NULL ELSE q[k] + 1
      BY DEF New, Tupel
    <2>4. q[k] = b + n - 1 <=> k = Len(q)
      BY <1>2, <1>7, <2>1
    <2>5. k # Len(q) => q[k + 1] = q[k] + 1
      <3>1. k # n => k + 1 \in 1 .. n
        BY <1>2
      <3>2. k # n => q[k + 1] = b + (k + 1) - 1
        BY <1>7, <3>1
      <3>. QED BY <1>2, <1>7, <2>1, <3>2
    <2>. QED BY <2>2, <2>3, <2>4, <2>5 DEF Behind
  <1>13. Chain(g, q, NULL)
    <2>1. q \in Seq(DOMAIN g)
      BY <1>7, <1>12
    <2>2. Distinct(q)
      BY <1>2, <1>7 DEF Distinct
    <2>. QED BY <1>7, <1>12, <2>1, <2>2 DEF Chain
  <1>14. q = <<>> <=> n = 0
    BY <1>7, EmptySequence
  <1>15. n # 0 => q[1] = b
    BY <1>2, <1>7
  <1>. QED BY <1>5, <1>8, <1>9, <1>10, <1>11, <1>13, <1>14, <1>15 DEF b, q, g, SameLinks, FirstOr

(* A new list has addresses.                                               *)
LEMMA SomeAddresses ==
  ASSUME NEW h, Heap(h), NEW list, IsSequence(list), list # <<>>
  PROVE  Addresses(h, list) # <<>>
  BY NewListTheorem

(* The node has answered: its tuples are the right side.                   *)
LEMMA NewRight ==
  ASSUME NEW h, NEW p, NEW e, NEW s, Apart(h, p, e, s, <<>>), NEW list, IsSequence(list)
  PROVE  Apart(NewList(h, list), p, e, s, Addresses(h, list))
  <1>. DEFINE g == NewList(h, list)
              q == Addresses(h, list)
  <1>1. Heap(h) /\ Chain(h, p, e) /\ Chain(h, s, NULL) /\ ToSet(<<>>) = {}
    BY EmptyChain DEF Apart
  <1>2. /\ Heap(g) /\ DOMAIN g = DOMAIN h \cup ToSet(q) /\ DOMAIN h \cap ToSet(q) = {}
        /\ Chain(g, q, NULL) /\ \A y \in DOMAIN h : g[y].next = h[y].next
    <2>1. Heap(h) /\ IsSequence(list)
      BY <1>1
    <2>2. Heap(g) /\ DOMAIN g = DOMAIN h \cup ToSet(q) /\ DOMAIN h \cap ToSet(q) = {}
      BY <2>1, NewListTheorem
    <2>3. Chain(g, q, NULL)
      BY <2>1, NewListTheorem
    <2>4. SameLinks(g, h)
      BY <2>1, NewListTheorem
    <2>. QED BY <2>2, <2>3, <2>4 DEF SameLinks
  <1>. HIDE DEF g, q
  <1>3. DOMAIN h = ToSet(p) \cup ToSet(s) /\ ToSet(p) \cap ToSet(s) = {}
    BY <1>1 DEF Apart, Disjoint
  <1>4. Chain(g, p, e) /\ Chain(g, s, NULL)
    BY <1>1, <1>2, <1>3, SameChain
  <1>5. Apart(g, p, e, s, q)
    BY <1>2, <1>3, <1>4 DEF Apart, Disjoint
  <1>. QED BY <1>5 DEF g, q

-------------------------------------------------------------------------------
(* What a filter leaves of the list, and lists as a whole.                 *)

(* The tuples that pass a filter are linked, the others freed.             *)
LEMMA RelinkTheorem ==
  ASSUME NEW h, Heap(h), NEW q, NEW e, Chain(h, q, e), DOMAIN h = ToSet(q),
         NEW D \in SUBSET ToSet(q), NEW w, w = Without(q, D)
  PROVE  /\ Chain(freeTupel(Relink(h, w), D), w, NULL)
         /\ Heap(freeTupel(Relink(h, w), D))
         /\ DOMAIN freeTupel(Relink(h, w), D) = ToSet(w)
         /\ First(w) = FirstOr(w, NULL)
  <1>. DEFINE K == {i \in 1 .. Len(q) : q[i] \notin D}
              k == Relink(h, w)
              g == freeTupel(k, D)
  <1>1. q \in Seq(DOMAIN h) /\ Distinct(q)
    BY DEF Chain
  <1>2. /\ w \in Seq(DOMAIN h)
        /\ \E f \in Bijection(1 .. Len(w), K) : \A n \in 1 .. Len(w) : w[n] = q[f[n]]
    <2>1. K = {i \in 1 .. Len(q) : q[i] \notin D}
      OBVIOUS
    <2>. HIDE DEF K
    <2>2. w \in Seq(DOMAIN h)
      BY <1>1, <2>1, WithoutTheorem
    <2>3. TakesOver(w, q, K)
      BY <1>1, <2>1, WithoutTheorem
    <2>. QED BY <2>2, <2>3 DEF TakesOver
  <1>3. PICK f \in Bijection(1 .. Len(w), K) : \A n \in 1 .. Len(w) : w[n] = q[f[n]]
    BY <1>2
  <1>4. /\ f \in [1 .. Len(w) -> K] /\ \A m, n \in 1 .. Len(w) : f[m] = f[n] => m = n
        /\ \A i \in K : \E n \in 1 .. Len(w) : f[n] = i
    <2>. HIDE DEF K
    <2>. QED BY DEF Bijection, Injection, Surjection, IsInjective
  <1>5. ToSet(q) = {q[i] : i \in 1 .. Len(q)} /\ ToSet(w) = {w[i] : i \in 1 .. Len(w)}
    <2>1. ToSet(q) = {q[i] : i \in 1 .. Len(q)}
      BY <1>1, SetOfSequence
    <2>2. ToSet(w) = {w[i] : i \in 1 .. Len(w)}
      BY <1>2, SetOfSequence
    <2>. QED BY <2>1, <2>2
  <1>6. Distinct(w)
    <2>1. ASSUME NEW m \in 1 .. Len(w), NEW n \in 1 .. Len(w), w[m] = w[n] PROVE m = n
      <3>1. f[m] \in 1 .. Len(q) /\ f[n] \in 1 .. Len(q) /\ q[f[m]] = q[f[n]]
        BY <1>3, <1>4, <2>1
      <3>2. f[m] = f[n]
        BY <1>1, <3>1 DEF Distinct
      <3>. QED BY <1>4, <3>2
    <2>. QED BY <2>1 DEF Distinct
  <1>7. ToSet(w) = ToSet(q) \ D
    <2>1. \A n \in 1 .. Len(w) : w[n] \in ToSet(q) \ D
      BY <1>3, <1>4, <1>5
    <2>2. ASSUME NEW t \in ToSet(q) \ D PROVE t \in ToSet(w)
      <3>1. PICK i \in 1 .. Len(q) : t = q[i]
        BY <1>5
      <3>2. i \in K
        BY <3>1
      <3>3. PICK n \in 1 .. Len(w) : f[n] = i
        BY <1>4, <3>2
      <3>. QED BY <1>3, <1>5, <3>1, <3>3
    <2>. QED BY <1>5, <2>1, <2>2
  <1>8. DOMAIN k = DOMAIN h /\ Heap(k)
    BY DEF Relink, Heap
  <1>9. ASSUME NEW n \in 1 .. Len(w) PROVE k[w[n]].next = Behind(w, n, NULL)
    <2>. DEFINE i == CHOOSE i \in DOMAIN w : w[i] = w[n]
    <2>1. DOMAIN w = 1 .. Len(w) /\ w[n] \in ToSet(w) /\ w[n] \in DOMAIN h
      BY <1>2, <1>5
    <2>2. i \in 1 .. Len(w) /\ w[i] = w[n]
      BY <2>1
    <2>3. i = n
      BY <1>6, <2>2 DEF Distinct
    <2>4. k[w[n]] = Tupel(h[w[n]].items, IF i = Len(w) THEN NULL ELSE w[i + 1])
      BY <2>1 DEF Relink
    <2>. HIDE DEF i
    <2>. QED BY <2>3, <2>4 DEF Tupel, Behind
  <1>10. w \in Seq(DOMAIN k)
    BY <1>2, <1>8
  <1>11. Chain(k, w, NULL)
    BY <1>6, <1>9, <1>10 DEF Chain
  <1>. HIDE DEF k
  <1>12. /\ Heap(g) /\ DOMAIN g = DOMAIN k \ D
         /\ \A y \in DOMAIN k \ D : g[y].next = k[y].next
    BY <1>8, FreeTheorem
  <1>. HIDE DEF g
  <1>13. Chain(g, w, NULL)
    BY <1>7, <1>8, <1>11, <1>12, SameChain
  <1>14. First(w) = FirstOr(w, NULL)
    BY DEF First, FirstOr
  <1>. QED BY <1>7, <1>8, <1>12, <1>13, <1>14 DEF g, k

(* Two chains, the first of which is linked to the second, are one list.   *)
LEMMA ChainJoined ==
  ASSUME NEW h, NEW p, NEW s, NEW e, Chain(h, p, FirstOr(s, e)), Chain(h, s, e),
         ToSet(p) \cap ToSet(s) = {}
  PROVE  /\ Chain(h, p \o s, e) /\ ToSet(p \o s) = ToSet(p) \cup ToSet(s)
         /\ FirstOr(p \o s, e) = FirstOr(p, FirstOr(s, e))
  <1>. DEFINE c == p \o s
  <1>1. p \in Seq(DOMAIN h) /\ Distinct(p) /\ s \in Seq(DOMAIN h) /\ Distinct(s)
    BY DEF Chain
  <1>2. /\ c \in Seq(DOMAIN h) /\ Len(c) = Len(p) + Len(s) /\ Len(p) \in Nat /\ Len(s) \in Nat
        /\ \A k \in 1 .. Len(p) : c[k] = p[k]
        /\ \A k \in 1 .. Len(s) : c[Len(p) + k] = s[k]
    BY <1>1
  <1>3. (p = <<>> <=> Len(p) = 0) /\ (s = <<>> <=> Len(s) = 0) /\ (c = <<>> <=> Len(c) = 0)
    BY <1>1, <1>2, EmptySequence
  <1>. HIDE DEF c
  <1>4. /\ ToSet(p) = {p[i] : i \in 1 .. Len(p)} /\ ToSet(s) = {s[i] : i \in 1 .. Len(s)}
        /\ ToSet(c) = {c[i] : i \in 1 .. Len(c)}
    BY <1>1, <1>2, SetOfSequence
  <1>5. ASSUME NEW k \in 1 .. Len(c), ~ (k <= Len(p))
        PROVE  k - Len(p) \in 1 .. Len(s) /\ c[k] = s[k - Len(p)]
    <2>1. k - Len(p) \in 1 .. Len(s) /\ Len(p) + (k - Len(p)) = k
      BY <1>2, <1>5
    <2>. QED BY <1>2, <2>1
  <1>6. \A k \in 1 .. Len(c) : k <= Len(p) => k \in 1 .. Len(p)
    OBVIOUS
  <1>7. ToSet(c) = ToSet(p) \cup ToSet(s)
    <2>1. ToSet(c) \subseteq ToSet(p) \cup ToSet(s)
      BY <1>2, <1>4, <1>5, <1>6
    <2>2. \A k \in 1 .. Len(p) : k \in 1 .. Len(c)
      BY <1>2
    <2>3. \A k \in 1 .. Len(s) : Len(p) + k \in 1 .. Len(c)
      BY <1>2
    <2>. QED BY <1>2, <1>4, <2>1, <2>2, <2>3
  <1>8. Distinct(c)
    <2>1. ASSUME NEW i \in 1 .. Len(c), NEW j \in 1 .. Len(c), c[i] = c[j] PROVE i = j
      <3>1. CASE i <= Len(p) /\ j <= Len(p)
        BY <1>1, <1>2, <1>6, <2>1, <3>1 DEF Distinct
      <3>2. CASE ~ (i <= Len(p)) /\ ~ (j <= Len(p))
        <4>1. i - Len(p) = j - Len(p)
          BY <1>1, <1>5, <2>1, <3>2 DEF Distinct
        <4>. QED BY <1>2, <4>1
      <3>3. CASE i <= Len(p) /\ ~ (j <= Len(p))
        <4>1. c[i] \in ToSet(p) /\ c[j] \in ToSet(s)
          BY <1>2, <1>4, <1>5, <1>6, <3>3
        <4>. QED BY <2>1, <4>1
      <3>4. CASE ~ (i <= Len(p)) /\ j <= Len(p)
        <4>1. c[i] \in ToSet(s) /\ c[j] \in ToSet(p)
          BY <1>2, <1>4, <1>5, <1>6, <3>4
        <4>. QED BY <2>1, <4>1
      <3>. QED BY <3>1, <3>2, <3>3, <3>4
    <2>. QED BY <2>1 DEF Distinct
  <1>9. ASSUME NEW k \in 1 .. Len(c) PROVE h[c[k]].next = Behind(c, k, e)
    <2>1. CASE k <= Len(p)
      <3>1. k \in 1 .. Len(p) /\ c[k] = p[k] /\ h[p[k]].next = Behind(p, k, FirstOr(s, e))
        BY <1>2, <1>6, <2>1 DEF Chain
      <3>2. CASE k # Len(p)
        <4>1. k + 1 \in 1 .. Len(p) /\ k # Len(c)
          BY <1>2, <3>1, <3>2
        <4>. QED BY <1>2, <3>1, <3>2, <4>1 DEF Behind
      <3>3. CASE k = Len(p) /\ s = <<>>
        <4>1. k = Len(c)
          BY <1>2, <1>3, <3>3
        <4>. QED BY <3>1, <3>3, <4>1 DEF Behind, FirstOr
      <3>4. CASE k = Len(p) /\ s # <<>>
        <4>1. 1 \in 1 .. Len(s) /\ k # Len(c)
          BY <1>2, <1>3, <3>4
        <4>2. c[k + 1] = s[1]
          BY <1>2, <3>4, <4>1
        <4>. QED BY <3>1, <3>4, <4>1, <4>2 DEF Behind, FirstOr
      <3>. QED BY <3>2, <3>3, <3>4
    <2>2. CASE ~ (k <= Len(p))
      <3>. DEFINE j == k - Len(p)
      <3>1. j \in 1 .. Len(s) /\ c[k] = s[j]
        BY <1>5, <2>2
      <3>2. h[s[j]].next = Behind(s, j, e)
        BY <3>1 DEF Chain
      <3>3. k = Len(c) <=> j = Len(s)
        BY <1>2
      <3>4. k # Len(c) => c[k + 1] = s[j + 1]
        <4>1. k # Len(c) => k + 1 \in 1 .. Len(c) /\ ~ (k + 1 <= Len(p)) /\ (k + 1) - Len(p) = j + 1
          BY <1>2, <2>2
        <4>. QED BY <1>5, <4>1
      <3>. HIDE DEF j
      <3>. QED BY <3>1, <3>2, <3>3, <3>4 DEF Behind
    <2>. QED BY <2>1, <2>2
  <1>10. FirstOr(c, e) = FirstOr(p, FirstOr(s, e))
    <2>1. CASE p # <<>>
      <3>1. 1 \in 1 .. Len(p) /\ c # <<>>
        BY <1>2, <1>3, <2>1
      <3>. QED BY <1>2, <2>1, <3>1 DEF FirstOr
    <2>2. CASE p = <<>> /\ s # <<>>
      <3>1. 1 \in 1 .. Len(s) /\ c # <<>> /\ Len(p) = 0
        BY <1>2, <1>3, <2>2
      <3>2. c[Len(p) + 1] = s[1] /\ Len(p) + 1 = 1
        BY <1>2, <3>1
      <3>. QED BY <2>2, <3>1, <3>2 DEF FirstOr
    <2>3. CASE p = <<>> /\ s = <<>>
      BY <1>2, <1>3, <2>3 DEF FirstOr
    <2>. QED BY <2>1, <2>2, <2>3
  <1>. QED BY <1>2, <1>7, <1>8, <1>9, <1>10 DEF Chain, c

(* No tuple is linked to memory that is not in use.                        *)
Closed(h) ==
  DOMAIN h \subseteq Nat \ {NULL} /\ \A t \in DOMAIN h : h[t].next \in DOMAIN h \cup {NULL}

(* The links of a chain lead along it, and from its last tuple to e.       *)
LEMMA ChainClosed ==
  ASSUME NEW h, NEW q, NEW e, Chain(h, q, e)
  PROVE  \A t \in ToSet(q) : h[t].next \in ToSet(q) \cup {e}
  <1>1. q \in Seq(DOMAIN h) /\ ToSet(q) = {q[i] : i \in 1 .. Len(q)}
    BY SetOfSequence DEF Chain
  <1>2. ASSUME NEW k \in 1 .. Len(q) PROVE h[q[k]].next \in ToSet(q) \cup {e}
    <2>1. h[q[k]].next = Behind(q, k, e)
      BY DEF Chain
    <2>2. k # Len(q) => k + 1 \in 1 .. Len(q)
      BY <1>1
    <2>. QED BY <1>1, <2>1, <2>2 DEF Behind
  <1>. QED BY <1>1, <1>2

(* So do those of the three chains of a join.                              *)
LEMMA ApartClosed ==
  ASSUME NEW h, NEW p, NEW e, NEW s, NEW r, Apart(h, p, e, s, r)
  PROVE  Closed(h)
  <1>1. Chain(h, p, e) /\ Chain(h, s, NULL) /\ Chain(h, r, NULL) /\ Heap(h)
    BY DEF Apart
  <1>2. /\ \A t \in ToSet(p) : h[t].next \in ToSet(p) \cup {e}
        /\ \A t \in ToSet(s) : h[t].next \in ToSet(s) \cup {NULL}
        /\ \A t \in ToSet(r) : h[t].next \in ToSet(r) \cup {NULL}
    BY <1>1, ChainClosed
  <1>3. e \in ToSet(s) \cup {NULL}
    <2>1. s # <<>> => s[1] \in ToSet(s)
      BY <1>1, BackOfChain
    <2>. QED BY <2>1 DEF Apart, FirstOr
  <1>. QED BY <1>1, <1>2, <1>3 DEF Apart, Closed, Heap

(* All that is in memory is one list, which starts at t.                   *)
OneList(h, t) ==
  \E p : /\ p # <<>> /\ t = p[1]
         /\ Heap(h) /\ DOMAIN h = ToSet(p) /\ Chain(h, p, NULL)

(* List finds it, and freeing it leaves nothing.                           *)
LEMMA OneListTheorem ==
  ASSUME NEW h, NEW t, OneList(h, t)
  PROVE  /\ Heap(h) /\ Closed(h)
         /\ List(h, t) # <<>> /\ List(h, t) \in Seq(DOMAIN h) /\ ToSet(List(h, t)) = DOMAIN h
         /\ Chain(h, List(h, t), NULL)
         /\ DOMAIN freeTupel(h, ToSet(List(h, t))) = {}
  <1>1. PICK p : /\ p # <<>> /\ t = p[1]
                 /\ Heap(h) /\ DOMAIN h = ToSet(p) /\ Chain(h, p, NULL)
    BY DEF OneList
  <1>2. List(h, t) = p
    BY <1>1, ListEquation DEF FirstOr
  <1>3. Closed(h)
    BY <1>1, ChainClosed DEF Closed, Heap
  <1>4. DOMAIN freeTupel(h, ToSet(p)) = {}
    <2>1. DOMAIN freeTupel(h, ToSet(p)) = DOMAIN h \ ToSet(p)
      BY <1>1, FreeTheorem
    <2>. QED BY <1>1, <2>1
  <1>5. p \in Seq(DOMAIN h)
    BY <1>1 DEF Chain
  <1>. QED BY <1>1, <1>2, <1>3, <1>4, <1>5

(* A list in memory of its own.                                            *)
LEMMA NewListIsOne ==
  ASSUME NEW h, Heap(h), DOMAIN h = {}, NEW list, IsSequence(list), list # <<>>
  PROVE  OneList(NewList(h, list), Beyond(h))
  <1>. DEFINE g == NewList(h, list)
              q == Addresses(h, list)
  <1>1. /\ Heap(g) /\ DOMAIN g = DOMAIN h \cup ToSet(q) /\ Chain(g, q, NULL)
        /\ q # <<>> /\ q[1] = Beyond(h)
    <2>1. Heap(g) /\ DOMAIN g = DOMAIN h \cup ToSet(q)
      BY NewListTheorem
    <2>2. Chain(g, q, NULL)
      BY NewListTheorem
    <2>3. q # <<>>
      BY NewListTheorem
    <2>4. FirstOr(q, NULL) = Beyond(h)
      BY NewListTheorem
    <2>. HIDE DEF q
    <2>. QED BY <2>1, <2>2, <2>3, <2>4 DEF FirstOr
  <1>. HIDE DEF g, q
  <1>2. OneList(g, Beyond(h))
    BY <1>1, Zenon DEF OneList
  <1>. QED BY <1>2 DEF g

(* A selection leaves the links.                                           *)
LEMMA SelectIsOne ==
  ASSUME NEW h, NEW t, OneList(h, t), NEW g, DOMAIN g = DOMAIN h, SameLinks(g, h)
  PROVE  OneList(g, t)
  <1>1. PICK p : /\ p # <<>> /\ t = p[1]
                 /\ Heap(h) /\ DOMAIN h = ToSet(p) /\ Chain(h, p, NULL)
    BY DEF OneList
  <1>2. Chain(g, p, NULL)
    BY <1>1, SameChain DEF SameLinks
  <1>3. Heap(g)
    BY <1>1 DEF Heap
  <1>. QED BY <1>1, <1>2, <1>3, Zenon DEF OneList

(* Any sequence is one of its own elements.                                *)
LEMMA SequenceIsOne ==
  ASSUME NEW S, NEW s \in Seq(S)
  PROVE  IsSequence(s)
  <1>1. ToSet(s) = {s[i] : i \in 1 .. Len(s)}
    BY SetOfSequence
  <1>. QED BY <1>1 DEF IsSequence

-------------------------------------------------------------------------------
(* The invariant.  What is in memory depends on where the execution is: it *)
(* is one list between two operators, and in doJoin the tuples that are    *)
(* joined, the rest of the stream and the right side.                      *)

JoinType ==
  [cs : Nat, cj : Nat, ns : Nat, nj : Nat, last : Nat, prev : Nat, once : BOOLEAN,
   applied : {0, 1}]

(* The variables of doJoin.  While the right side is kept for more of the  *)
(* stream, last is one of its tuples, and otherwise its last one.          *)
Parts(h, hd, j, p, e, s, r) ==
  /\ Apart(h, p, e, s, r)
  /\ hd = FirstOr(p, e) /\ j.prev = Back(p) /\ (j.applied = 0 <=> p = <<>>)
  /\ j.ns = FirstOr(s, NULL) /\ j.nj = FirstOr(r, NULL)
  /\ (r # <<>> => s # <<>>)
  /\ (r # <<>> /\ ~j.once => j.last = Back(r))
  /\ (r # <<>> /\ j.once /\ Tail(s) # <<>> => j.last \in ToSet(r))

(* With tuples in the stream and none on the right the loop asks for some; *)
(* what curTupleJoin points to is gone.                                    *)
Gone(h, j) == j.cj \notin DOMAIN h
Asks(h, j, s, r) == s # <<>> /\ r = <<>> => ~j.once /\ j.ns # j.cs /\ Gone(h, j)

Joining(label, h, hd, j) ==
  \E p, e, s, r :
    /\ Parts(h, hd, j, p, e, s, r)
    /\ label = "loop" => Asks(h, j, s, r)
    /\ label = "retrieve" => s # <<>> /\ r = <<>> /\ Gone(h, j)
    /\ label = "match" => s # <<>> /\ r # <<>>

InLoop == pc \in {"loop", "retrieve", "match"}

Typed ==
  /\ query \in Queries /\ checkQuerySyntax(NodeType, Whole(query))
  /\ owner \in Layers /\ layer \in Layers /\ moves \in BOOLEAN
  /\ place \in [Nodes(query) -> Layers \cup {Absent}]
  /\ pc \in {"run", "loop", "retrieve", "match", "send", "wire", "done", "crashed"}
  /\ counter \in 0 .. Len(query) /\ steps \in {-1, UShort - 1} \cup 0 .. Len(query)
  /\ join \in JoinType
  /\ hops \in 0 .. MaxHops

Memory ==
  /\ pc \in {"run", "send"} => OneList(heap, head)
  /\ InLoop => counter < Len(query) /\ op.type = "JOIN" /\ Joining(pc, heap, head, join)
  /\ pc = "wire" =>
       /\ DOMAIN heap = {} /\ IsSequence(wire.tuples) /\ wire.tuples # <<>>
       /\ wire.steps \in {UShort - 1} \cup 0 .. Len(query)
  /\ pc = "done" => Closed(heap) /\ (DOMAIN heap = {} \/ mishap \cap {"gone", "unlinked"} # {})
  /\ pc = "crashed" => Closed(heap) /\ mishap \cap {"hole", "moved", "dangling", "copy"} # {}

IInv == Typed /\ Memory

(* What a pair is compared in is there.                                    *)
LEMMA JoiningClosed ==
  ASSUME Joining(pc, heap, head, join)
  PROVE  /\ Closed(heap)
         /\ pc = "match" => {join.ns, join.nj} \subseteq DOMAIN heap
         /\ pc = "retrieve" => join.ns \in DOMAIN heap /\ join.cj \notin DOMAIN heap
  <1>1. PICK p, e, s, r :
          /\ Parts(heap, head, join, p, e, s, r)
          /\ pc = "retrieve" => s # <<>> /\ r = <<>> /\ Gone(heap, join)
          /\ pc = "match" => s # <<>> /\ r # <<>>
    BY DEF Joining
  <1>2. Apart(heap, p, e, s, r) /\ join.ns = FirstOr(s, NULL) /\ join.nj = FirstOr(r, NULL)
    BY <1>1 DEF Parts
  <1>3. Closed(heap)
    BY <1>2, ApartClosed
  <1>4. /\ s # <<>> => s[1] \in ToSet(s) /\ ToSet(s) \subseteq DOMAIN heap
        /\ r # <<>> => r[1] \in ToSet(r) /\ ToSet(r) \subseteq DOMAIN heap
    BY <1>2, BackOfChain DEF Apart
  <1>. QED BY <1>1, <1>2, <1>3, <1>4 DEF FirstOr, Gone

(* The invariant is stronger than what is to be shown.                     *)
LEMMA InvImplies == IInv => TypeOK /\ MemorySafe
  <1>. SUFFICES ASSUME IInv PROVE TypeOK /\ MemorySafe
    OBVIOUS
  <1>1. Closed(heap)
    <2>1. CASE pc \in {"run", "send"}
      BY <2>1, OneListTheorem DEF IInv, Memory
    <2>2. CASE InLoop
      <3>1. Joining(pc, heap, head, join)
        BY <2>2 DEF IInv, Memory
      <3>. QED BY <3>1, JoiningClosed
    <2>3. CASE pc \in {"wire", "done", "crashed"}
      BY <2>3 DEF IInv, Memory, Closed
    <2>. QED BY <2>1, <2>2, <2>3 DEF IInv, Typed, InLoop
  <1>2. TypeOK
    BY <1>1 DEF IInv, Typed, TypeOK, Closed, JoinType
  <1>3. pc = "match" => {curTupleStream, curTupleJoin} \subseteq DOMAIN heap
    <2>. SUFFICES ASSUME pc = "match" PROVE {join.ns, join.nj} \subseteq DOMAIN heap
      BY DEF curTupleStream, curTupleJoin
    <2>1. Joining(pc, heap, head, join)
      BY DEF IInv, Memory, InLoop
    <2>. QED BY <2>1, JoiningClosed
  <1>4. ASSUME pc = "retrieve" PROVE join.ns \in DOMAIN heap /\ join.cj \notin DOMAIN heap
    <2>1. Joining(pc, heap, head, join)
      BY <1>4 DEF IInv, Memory, InLoop
    <2>. QED BY <1>4, <2>1, JoiningClosed
  <1>5. /\ pc = "crashed" => mishap \cap {"hole", "moved", "dangling", "copy"} # {}
        /\ pc = "done" => DOMAIN heap = {} \/ mishap \cap {"gone", "unlinked"} # {}
    BY DEF IInv, Memory
  <1>. QED BY <1>2, <1>3, <1>4, <1>5 DEF MemorySafe

(* A step changes neither the query nor the layers of its nodes.           *)
LEMMA TypedKept ==
  ASSUME Typed, UNCHANGED input,
         layer' \in Layers,
         pc' \in {"run", "loop", "retrieve", "match", "send", "wire", "done", "crashed"},
         counter' \in 0 .. Len(query), steps' \in {-1, UShort - 1} \cup 0 .. Len(query),
         join' \in JoinType, hops' \in 0 .. MaxHops
  PROVE  Typed'
  BY DEF Typed, input

(* It holds when the provider has delivered its tuples.                    *)
LEMMA InitInv == Init => IInv
  <1>. SUFFICES ASSUME Init PROVE IInv
    OBVIOUS
  <1>1. IsFiniteSet(DOMAIN <<>>) /\ DOMAIN <<>> = {} /\ Heap(<<>>)
    BY FS_EmptySet DEF Heap
  <1>2. Beyond(<<>>) = 1
    <2>1. {} \cup {0} = {0} /\ {0} \subseteq Nat /\ {0} # {}
      OBVIOUS
    <2>2. IsFiniteSet({0})
      BY FS_Singleton
    <2>3. Max({0}) = 0
      BY <2>1, <2>2, MaxTheorem
    <2>. QED BY <1>1, <2>1, <2>3 DEF Beyond
  <1>3. IsSequence(stream) /\ stream # <<>>
    BY ExecutionAssumption DEF Init
  <1>4. OneList(heap, head)
    <2>1. OneList(NewList(<<>>, stream), Beyond(<<>>))
      BY <1>1, <1>3, NewListIsOne
    <2>. QED BY <1>2, <2>1 DEF Init
  <1>5. query \in Queries /\ IsSequence(query)
    BY ExecutionAssumption DEF Init
  <1>6. Len(query) \in Nat
    BY <1>5 DEF IsSequence
  <1>7. Typed
    <2>1. join \in JoinType
      BY DEF Init, NoJoin, JoinType, NULL
    <2>2. hops \in 0 .. MaxHops
      BY ExecutionAssumption DEF Init
    <2>3. layer \in Layers /\ counter \in 0 .. Len(query) /\ steps \in 0 .. Len(query)
      BY <1>6 DEF Init, Layers
    <2>. QED BY <1>5, <2>1, <2>2, <2>3 DEF Init, Typed
  <1>8. Memory
    BY <1>4 DEF Init, Memory, InLoop
  <1>. QED BY <1>7, <1>8 DEF IInv

(* A step of the loop leads to the loop, or to its end.                    *)
LEMMA MemoryJoining ==
  ASSUME Memory, InLoop, UNCHANGED <<query, counter>>, pc' \in {"loop", "retrieve", "match"},
         Joining(pc', heap', head', join')
  PROVE  Memory'
  BY DEF Memory, InLoop, op

-------------------------------------------------------------------------------
(* The operators other than a join.                                        *)

(* A filter leaves one list of the tuples that pass, or nothing.           *)
LEMMA FilterInv == IInv /\ applyFilter => IInv'
  <1>. SUFFICES ASSUME IInv, applyFilter PROVE IInv'
    OBVIOUS
  <1>. DEFINE list == List(heap, head)
              Failing == {t \in ToSet(list) :
                            ~ \A p \in op.predicates : applyPredicate(p, heap[t], NoTuple)}
              Left == Without(list, Failing)
  <1>1. /\ pc = "run" /\ counter < Len(query) /\ counter' = counter + 1
        /\ heap' = freeTupel(Relink(heap, Left), Failing) /\ head' = First(Left)
        /\ pc' = IF Left = <<>> THEN "done" ELSE "run"
        /\ UNCHANGED <<input, layer, steps, join, wire, hops>>
    BY DEF applyFilter, At
  <1>2. Typed'
    <2>1. counter \in 0 .. Len(query) /\ counter + 1 \in 0 .. Len(query)
      BY <1>1 DEF IInv, Typed
    <2>2. pc' \in {"run", "done"}
      BY <1>1
    <2>. QED BY <1>1, <2>1, <2>2, TypedKept DEF IInv, Typed
  <1>3. /\ Heap(heap) /\ Chain(heap, list, NULL) /\ DOMAIN heap = ToSet(list)
    BY <1>1, OneListTheorem DEF IInv, Memory
  <1>4. Failing \in SUBSET ToSet(list)
    OBVIOUS
  <1>. HIDE DEF list, Failing
  <1>5. /\ Chain(heap', Left, NULL) /\ Heap(heap') /\ DOMAIN heap' = ToSet(Left)
        /\ head' = FirstOr(Left, NULL)
    BY <1>1, <1>3, <1>4, RelinkTheorem
  <1>. HIDE DEF Left
  <1>6. Memory'
    <2>1. CASE Left = <<>>
      <3>1. DOMAIN heap' = {} /\ pc' = "done"
        BY <1>1, <1>5, <2>1, EmptyChain
      <3>. QED BY <3>1 DEF Memory, InLoop, Closed
    <2>2. CASE Left # <<>>
      <3>1. head' = Left[1] /\ pc' = "run"
        BY <1>1, <1>5, <2>2 DEF FirstOr
      <3>2. OneList(heap', head')
        BY <1>5, <2>2, <3>1, Zenon DEF OneList
      <3>. QED BY <3>1, <3>2 DEF Memory, InLoop
    <2>. QED BY <2>1, <2>2
  <1>. QED BY <1>2, <1>6 DEF IInv

(* A selection changes items only.                                         *)
LEMMA SelectInv == IInv /\ applySelect => IInv'
  <1>. SUFFICES ASSUME IInv, applySelect PROVE IInv'
    OBVIOUS
  <1>. DEFINE Unlisted(items) == {k \in DOMAIN items : items[k].name \notin op.elements}
              list == ToSet(List(heap, head))
  <1>1. /\ pc = "run" /\ counter < Len(query) /\ counter' = counter + 1 /\ pc' = pc
        /\ heap' = [t \in DOMAIN heap |->
                      IF t \in list THEN deleteItem(heap[t], Unlisted(heap[t].items)) ELSE heap[t]]
        /\ head' = head
        /\ UNCHANGED <<input, layer, steps, join, wire, hops>>
    BY DEF applySelect, At
  <1>2. Typed'
    <2>1. counter \in 0 .. Len(query) /\ counter + 1 \in 0 .. Len(query)
      BY <1>1 DEF IInv, Typed
    <2>. QED BY <1>1, <2>1, TypedKept DEF IInv, Typed
  <1>3. DOMAIN heap' = DOMAIN heap /\ SameLinks(heap', heap)
    <2>. HIDE DEF list, Unlisted
    <2>. QED BY <1>1 DEF SameLinks, deleteItem, Tupel
  <1>4. OneList(heap, head)
    BY <1>1 DEF IInv, Memory
  <1>5. OneList(heap', head')
    BY <1>1, <1>3, <1>4, SelectIsOne
  <1>6. Memory'
    BY <1>1, <1>5 DEF Memory, InLoop
  <1>. QED BY <1>2, <1>6 DEF IInv

(* The others do nothing.                                                  *)
LEMMA NotImplementedInv == IInv /\ NotImplemented => IInv'
  <1>. SUFFICES ASSUME IInv, NotImplemented PROVE IInv'
    OBVIOUS
  <1>1. /\ pc = "run" /\ counter < Len(query) /\ counter' = counter + 1
        /\ UNCHANGED <<input, heap, head, pc, layer, steps, join, wire, hops>>
    BY DEF NotImplemented
  <1>2. Typed'
    <2>1. counter \in 0 .. Len(query) /\ counter + 1 \in 0 .. Len(query)
      BY <1>1 DEF IInv, Typed
    <2>. QED BY <1>1, <2>1, TypedKept DEF IInv, Typed
  <1>3. Memory'
    BY <1>1 DEF IInv, Memory, InLoop
  <1>. QED BY <1>2, <1>3 DEF IInv

-------------------------------------------------------------------------------
(* A join, before and after its loop.                                      *)

(* doJoin does not get to its loop, or starts it with the list of tuples   *)
(* as the rest of the stream.                                              *)
LEMMA JoinStartsInv == IInv /\ (JoinGone \/ JoinRemote \/ StartFreed \/ JoinBegin) => IInv'
  <1>. SUFFICES ASSUME IInv, JoinGone \/ JoinRemote \/ StartFreed \/ JoinBegin PROVE IInv'
    OBVIOUS
  <1>1. /\ pc = "run" /\ counter < Len(query) /\ op.type = "JOIN"
        /\ UNCHANGED <<input, heap, head, counter, steps, layer, wire, hops>>
        /\ pc' \in {"done", "send", "crashed", "loop"}
        /\ join' = join \/ join' = [NoJoin EXCEPT !.ns = head]
    BY DEF JoinGone, JoinRemote, StartFreed, JoinBegin, At, Goto, Crash
  <1>2. OneList(heap, head) /\ Heap(heap) /\ Closed(heap)
    BY <1>1, OneListTheorem DEF IInv, Memory
  <1>3. PICK s : /\ s # <<>> /\ head = s[1]
                 /\ DOMAIN heap = ToSet(s) /\ Chain(heap, s, NULL)
    BY <1>2 DEF OneList
  <1>4. head \in Nat /\ head # NULL /\ s[1] \in ToSet(s)
    BY <1>2, <1>3, BackOfChain
  <1>5. Typed'
    <2>1. join' \in JoinType
      <3>1. join \in JoinType
        BY DEF IInv, Typed
      <3>2. [NoJoin EXCEPT !.ns = head] \in JoinType
        BY <1>4 DEF JoinType, NoJoin, NULL
      <3>. QED BY <1>1, <3>1, <3>2
    <2>. QED BY <1>1, <2>1, TypedKept DEF IInv, Typed
  <1>6. CASE JoinGone \/ JoinRemote \/ StartFreed
    BY <1>1, <1>2, <1>5, <1>6
       DEF JoinGone, JoinRemote, StartFreed, Goto, Crash, Note, IInv, Memory, InLoop
  <1>7. CASE JoinBegin
    <2>1. pc' = "loop" /\ join' = [NoJoin EXCEPT !.ns = head]
      BY <1>7 DEF JoinBegin, Goto
    <2>2. Apart(heap, <<>>, head, s, <<>>)
      BY <1>2, <1>3, EmptyChain DEF Apart, Disjoint, FirstOr
    <2>3. /\ join'.prev = NULL /\ join'.applied = 0 /\ join'.ns = head /\ join'.nj = NULL
          /\ join'.cs = NULL /\ join'.cj = NULL /\ join'.once = FALSE
      BY <2>1 DEF NoJoin
    <2>4. Parts(heap, head, join', <<>>, head, s, <<>>)
      BY <1>3, <2>2, <2>3 DEF Parts, FirstOr, Back
    <2>5. Asks(heap, join', s, <<>>)
      BY <1>2, <1>4, <2>3 DEF Asks, Gone, Closed
    <2>6. Joining("loop", heap, head, join')
      BY <2>4, <2>5, Zenon DEF Joining
    <2>7. Memory'
      BY <1>1, <2>1, <2>6 DEF Memory, InLoop, op, input
    <2>. QED BY <1>5, <2>7 DEF IInv
  <1>. QED BY <1>6, <1>7

(* Without a tuple on the right the loop can ask for some.                 *)
LEMMA LoopInv == IInv /\ Loop => IInv'
  <1>. SUFFICES ASSUME IInv, Loop PROVE IInv'
    OBVIOUS
  <1>1. /\ pc = "loop" /\ (ShouldRetrieve \/ join.ns # NULL)
        /\ pc' = IF ShouldRetrieve THEN "retrieve" ELSE "match"
        /\ UNCHANGED <<input, heap, head, counter, steps, layer, join, wire, hops>>
    BY DEF Loop, Goto
  <1>2. Typed'
    BY <1>1, TypedKept DEF IInv, Typed
  <1>3. PICK p, e, s, r : Parts(heap, head, join, p, e, s, r) /\ Asks(heap, join, s, r)
    BY <1>1, Zenon DEF IInv, Memory, InLoop, Joining
  <1>4. /\ s # <<>> => s[1] # NULL
        /\ r # <<>> => r[1] # NULL
        /\ join.ns = FirstOr(s, NULL) /\ join.nj = FirstOr(r, NULL)
    BY <1>3, BackOfChain DEF Parts, Apart
  <1>5. join.ns # NULL /\ s # <<>>
    BY <1>1, <1>4 DEF ShouldRetrieve, FirstOr
  <1>6. ShouldRetrieve <=> r = <<>>
    <2>1. join.nj = NULL <=> r = <<>>
      BY <1>4 DEF FirstOr
    <2>. QED BY <1>3, <1>5, <2>1 DEF ShouldRetrieve, Asks
  <1>7. pc' = "retrieve" => r = <<>> /\ Gone(heap, join)
    BY <1>1, <1>3, <1>5, <1>6 DEF Asks
  <1>8. pc' = "match" => r # <<>>
    BY <1>1, <1>6
  <1>9. Joining(pc', heap, head, join)
    <2>1. /\ Parts(heap, head, join, p, e, s, r)
          /\ pc' = "loop" => Asks(heap, join, s, r)
          /\ pc' = "retrieve" => s # <<>> /\ r = <<>> /\ Gone(heap, join)
          /\ pc' = "match" => s # <<>> /\ r # <<>>
      BY <1>3, <1>5, <1>7, <1>8
    <2>. QED BY <2>1, Zenon DEF Joining
  <1>10. Memory'
    <2>1. Joining(pc', heap', head', join')
      BY <1>1, <1>9
    <2>. QED BY <1>1, <2>1, MemoryJoining DEF IInv, InLoop, input
  <1>. QED BY <1>2, <1>10 DEF IInv

(* What was joined is the list for the next operator.                      *)
LEMMA JoinEndInv == IInv /\ JoinEnd => IInv'
  <1>. SUFFICES ASSUME IInv, JoinEnd PROVE IInv'
    OBVIOUS
  <1>1. /\ pc = "loop" /\ join.ns = NULL /\ counter' = counter + 1 /\ join' = NoJoin
        /\ pc' = IF join.applied > 0 THEN "run" ELSE "done"
        /\ UNCHANGED <<input, heap, head, steps, layer, wire, hops>>
    BY DEF JoinEnd
  <1>2. counter < Len(query)
    BY <1>1 DEF IInv, Memory, InLoop
  <1>3. Typed'
    <2>1. counter \in 0 .. Len(query) /\ counter + 1 \in 0 .. Len(query)
      BY <1>2 DEF IInv, Typed
    <2>2. join' \in JoinType
      BY <1>1 DEF JoinType, NoJoin, NULL
    <2>. QED BY <1>1, <2>1, <2>2, TypedKept DEF IInv, Typed
  <1>4. PICK p, e, s, r : Parts(heap, head, join, p, e, s, r)
    BY <1>1, Zenon DEF IInv, Memory, InLoop, Joining
  <1>5. s = <<>> /\ r = <<>>
    <2>1. s # <<>> => s[1] # NULL
      BY <1>4, BackOfChain DEF Parts, Apart
    <2>. QED BY <1>1, <1>4, <2>1 DEF Parts, FirstOr
  <1>6. Heap(heap) /\ DOMAIN heap = ToSet(p) /\ Chain(heap, p, NULL) /\ head = FirstOr(p, NULL)
    BY <1>4, <1>5, EmptyChain DEF Parts, Apart, FirstOr
  <1>7. join.applied \in {0, 1} /\ (join.applied = 0 <=> p = <<>>)
    BY <1>4 DEF IInv, Typed, JoinType, Parts
  <1>8. CASE p = <<>>
    <2>1. pc' = "done" /\ DOMAIN heap' = {}
      BY <1>1, <1>6, <1>7, <1>8, EmptyChain
    <2>. QED BY <1>3, <2>1 DEF IInv, Memory, InLoop, Closed
  <1>9. CASE p # <<>>
    <2>1. pc' = "run" /\ head = p[1]
      BY <1>1, <1>6, <1>7, <1>9 DEF FirstOr
    <2>2. OneList(heap, head)
      BY <1>6, <1>9, <2>1, Zenon DEF OneList
    <2>3. OneList(heap', head')
      BY <1>1, <2>2
    <2>. QED BY <1>3, <2>1, <2>3 DEF IInv, Memory, InLoop
  <1>. QED BY <1>8, <1>9

-------------------------------------------------------------------------------
(* A join asks its node.                                                   *)

(* A join ends with an error: what can be reached from the head is freed,  *)
(* and that is everything, unless the list was ended before it.            *)
LEMMA FreeAll ==
  ASSUME NEW p, NEW e, NEW s, NEW r, Parts(heap, head, join, p, e, s, r), s # <<>>,
         NEW A, A = (IF r = <<>> THEN {} ELSE ToSet(List(heap, r[1]))),
         NEW h, h = freeTupel(heap, ToSet(List(heap, head)) \cup A),
         NEW causes, causes = Unlinked
  PROVE  Closed(h) /\ (DOMAIN h = {} \/ "unlinked" \in causes)
  <1>. DEFINE l == List(heap, head)
              B == ToSet(l) \cup A
  <1>1. /\ Apart(heap, p, e, s, r) /\ head = FirstOr(p, e) /\ join.ns = FirstOr(s, NULL)
        /\ Heap(heap) /\ DOMAIN heap = ToSet(p) \cup ToSet(s) \cup ToSet(r)
        /\ Chain(heap, p, e) /\ Chain(heap, s, NULL) /\ Chain(heap, r, NULL)
        /\ e \in {NULL, FirstOr(s, NULL)}
        /\ Disjoint(p, s, r)
    BY DEF Parts, Apart
  <1>2. A = ToSet(r)
    <2>1. CASE r = <<>>
      BY <2>1, EmptyChain
    <2>2. CASE r # <<>>
      <3>1. r[1] = FirstOr(r, NULL)
        BY <2>2 DEF FirstOr
      <3>2. List(heap, r[1]) = r
        BY <1>1, <3>1, ListEquation
      <3>. QED BY <2>2, <3>2
    <2>. QED BY <2>1, <2>2
  <1>3. join.ns = s[1] /\ s[1] \in ToSet(s) /\ s[1] \in Nat \ {NULL}
    BY <1>1, BackOfChain DEF FirstOr
  <1>4. ASSUME e = FirstOr(s, NULL) PROVE ToSet(l) = ToSet(p) \cup ToSet(s)
    <2>1. /\ Chain(heap, p \o s, NULL) /\ ToSet(p \o s) = ToSet(p) \cup ToSet(s)
          /\ head = FirstOr(p \o s, NULL)
      BY <1>1, <1>4, ChainJoined DEF Disjoint
    <2>. QED BY <1>1, <2>1, ListEquation
  <1>5. ASSUME e = NULL PROVE ToSet(l) = ToSet(p) /\ causes = {"unlinked"}
    <2>1. l = p
      BY <1>1, <1>5, ListEquation
    <2>2. s[1] \notin ToSet(p)
      BY <1>1, <1>3 DEF Disjoint
    <2>. QED BY <1>3, <2>1, <2>2 DEF Unlinked
  <1>. HIDE DEF l
  <1>6. /\ Heap(h) /\ DOMAIN h = DOMAIN heap \ B
        /\ \A y \in DOMAIN heap \ B : h[y].next = heap[y].next
    <2>1. h = freeTupel(heap, B)
      BY DEF l
    <2>. HIDE DEF B
    <2>2. /\ Heap(freeTupel(heap, B)) /\ DOMAIN freeTupel(heap, B) = DOMAIN heap \ B
          /\ \A y \in DOMAIN heap \ B : freeTupel(heap, B)[y].next = heap[y].next
      BY <1>1, FreeTheorem
    <2>. QED BY <2>1, <2>2
  <1>7. CASE e = FirstOr(s, NULL)
    <2>1. DOMAIN h = {}
      BY <1>1, <1>2, <1>4, <1>6, <1>7
    <2>. QED BY <2>1 DEF Closed
  <1>8. CASE e = NULL
    <2>1. DOMAIN h = ToSet(s)
      BY <1>1, <1>2, <1>5, <1>6, <1>8 DEF Disjoint
    <2>2. \A y \in ToSet(s) : heap[y].next \in ToSet(s) \cup {NULL}
      BY <1>1, ChainClosed
    <2>3. Closed(h)
      BY <1>1, <1>6, <2>1, <2>2 DEF Closed, Heap
    <2>. QED BY <1>5, <1>8, <2>3
  <1>. QED BY <1>1, <1>7, <1>8

(* So out_error leaves nothing behind, or has noted it.                    *)
LEMMA ErrorInv ==
  ASSUME IInv, InLoop, NEW right, NEW cause, out_error(right, cause),
         NEW p, NEW e, NEW s, NEW r, Parts(heap, head, join, p, e, s, r), s # <<>>,
         ToSet(List(heap, right)) = (IF r = <<>> THEN {} ELSE ToSet(List(heap, r[1])))
  PROVE  IInv'
  <1>. DEFINE A == ToSet(List(heap, right))
  <1>1. /\ pc' = "done" /\ join' = NoJoin /\ mishap' = mishap \cup ({cause} \cup Unlinked)
        /\ heap' = freeTupel(heap, ToSet(List(heap, head)) \cup A)
        /\ UNCHANGED <<input, counter, steps, layer, wire, hops>>
    BY DEF out_error, Goto, Note
  <1>. HIDE DEF A
  <1>2. Closed(heap') /\ (DOMAIN heap' = {} \/ "unlinked" \in Unlinked)
    BY <1>1, FreeAll DEF A
  <1>3. Memory'
    BY <1>1, <1>2 DEF Memory, InLoop
  <1>4. join' \in JoinType
    BY <1>1 DEF JoinType, NoJoin, NULL
  <1>5. Typed'
    BY <1>1, <1>4, TypedKept DEF IInv, Typed
  <1>. QED BY <1>3, <1>5 DEF IInv

(* A crash leaves memory as it is.                                         *)
LEMMA CrashInv ==
  ASSUME IInv, InLoop, NEW cause \in {"hole", "moved", "dangling", "copy"}, Crash(cause)
  PROVE  IInv'
  <1>1. /\ pc' = "crashed" /\ heap' = heap /\ join' = join /\ mishap' = mishap \cup {cause}
        /\ UNCHANGED <<input, counter, steps, layer, wire, hops>>
    BY DEF Crash, Note
  <1>2. Closed(heap)
    <2>1. Joining(pc, heap, head, join)
      BY DEF IInv, Memory
    <2>. QED BY <2>1, JoiningClosed
  <1>3. Closed(heap')
    BY <1>1, <1>2
  <1>4. Memory'
    BY <1>1, <1>3 DEF Memory, InLoop
  <1>5. Typed'
    BY <1>1, TypedKept DEF IInv, Typed
  <1>. QED BY <1>4, <1>5 DEF IInv

(* Nothing is at NULL.                                                     *)
LEMMA NothingAtNull ==
  ASSUME NEW h, Heap(h)
  PROVE  ToSet(List(h, NULL)) = {}
  <1>1. Chain(h, <<>>, NULL) /\ ToSet(<<>>) = {}
    BY EmptyChain
  <1>2. List(h, NULL) = <<>>
    BY <1>1, ListEquation DEF FirstOr
  <1>. QED BY <1>1, <1>2

(* buildSelectorsArray fails.                                              *)
LEMMA NoSelectorsInv == IInv /\ NoSelectors => IInv'
  <1>. SUFFICES ASSUME IInv, NoSelectors PROVE IInv'
    OBVIOUS
  <1>1. /\ pc = "retrieve"
        /\ out_error(NULL, "selector") \/ Crash("dangling") \/ out_error(NULL, "memory")
    BY DEF NoSelectors
  <1>2. PICK p, e, s, r : Parts(heap, head, join, p, e, s, r) /\ s # <<>> /\ r = <<>>
    BY <1>1, Zenon DEF IInv, Memory, InLoop, Joining
  <1>3. ToSet(List(heap, NULL)) = {}
    BY <1>2, NothingAtNull DEF Parts, Apart
  <1>4. InLoop
    BY <1>1 DEF InLoop
  <1>. QED BY <1>1, <1>2, <1>3, <1>4, ErrorInv, CrashInv

(* The query as it is stored: its operators behind the one at the root.    *)
LEMMA WholeTheorem ==
  ASSUME Typed
  PROVE  LET w == Whole(query)
         IN /\ Len(query) \in Nat /\ DOMAIN query = 1 .. Len(query)
            /\ Len(w) = Len(query) + 1 /\ DOMAIN w = 1 .. Len(w) /\ w[1] = Origin
            /\ \A k \in 1 .. Len(query) :
                 /\ w[k + 1].type = query[k].type /\ w[k + 1].len \in Nat
                 /\ query[k].type = "JOIN" => w[k + 1].node = query[k].node
  <1>1. query \in Queries
    BY DEF Typed
  <1>2. IsSequence(query) /\ \A k \in DOMAIN query : IsFiniteSet(Parameters(query[k]))
    BY <1>1, ExecutionAssumption
  <1>3. query \in Seq(ToSet(query)) /\ Len(query) \in Nat /\ DOMAIN query = 1 .. Len(query)
    BY <1>2 DEF IsSequence
  <1>. DEFINE w == Whole(query)
              Size(o) == Cardinality(Parameters(o)) + (IF o.type = "JOIN" THEN 1 ELSE 0)
              Entry(k) == [type |-> query[k].type,
                           node |-> IF query[k].type = "JOIN" THEN query[k].node ELSE "",
                           len |-> Size(query[k]), selectors |-> 0, ok |-> TRUE]
              below == [k \in DOMAIN query |-> Entry(k)]
              first == <<Origin>>
              B == {Entry(k) : k \in 1 .. Len(query)} \cup {Origin}
  <1>4. ASSUME NEW k \in 1 .. Len(query) PROVE Size(query[k]) \in Nat
    <2>1. Cardinality(Parameters(query[k])) \in Nat
      BY <1>2, <1>3, FS_CardinalityType
    <2>. QED BY <2>1
  <1>5. w = first \o below
    BY DEF Whole
  <1>. HIDE DEF w, Size
  <1>6. ASSUME NEW k \in 1 .. Len(query)
        PROVE  /\ below[k].type = query[k].type /\ below[k].len \in Nat
               /\ query[k].type = "JOIN" => below[k].node = query[k].node
    BY <1>3, <1>4
  <1>. HIDE DEF Entry
  <1>7. first \in Seq(B) /\ below \in Seq(B) /\ Len(first) = 1 /\ first[1] = Origin
        /\ Len(below) = Len(query)
    BY <1>3
  <1>. HIDE DEF below, first, B
  <1>8. /\ Len(w) = Len(first) + Len(below) /\ DOMAIN w = 1 .. Len(first) + Len(below)
        /\ \A k \in 1 .. Len(below) : w[Len(first) + k] = below[k]
    BY <1>5, <1>7, Joint, Zenon
  <1>9. ASSUME NEW k \in 1 .. Len(query) PROVE w[k + 1] = below[k]
    BY <1>3, <1>7, <1>8
  <1>10. Len(w) = Len(query) + 1 /\ DOMAIN w = 1 .. Len(w) /\ w[1] = Origin
    <2>1. (first \o below)[1] = first[1]
      BY <1>7, JointFirst
    <2>. QED BY <1>3, <1>5, <1>7, <1>8, <2>1
  <1>. QED BY <1>3, <1>6, <1>9, <1>10 DEF w

(* The node that a join asks has tuples to answer with.                    *)
LEMMA JoinNode ==
  ASSUME IInv, InLoop, NEW sel
  PROVE  IsSequence(Joined(op.node, SelectedRows(op.node, sel)))
  <1>1. /\ query \in Queries /\ checkQuerySyntax(NodeType, Whole(query))
        /\ counter \in 0 .. Len(query) /\ counter < Len(query) /\ op.type = "JOIN"
    BY DEF IInv, Typed, Memory
  <1>. DEFINE n == counter + 1
              w == Whole(query)
  <1>2. Typed /\ Len(query) \in Nat
    BY WholeTheorem DEF IInv
  <1>3. n \in 1 .. Len(query) /\ op = query[n]
    BY <1>1, <1>2 DEF op
  <1>4. /\ n + 1 \in DOMAIN w /\ w[n + 1].type = query[n].type
        /\ query[n].type = "JOIN" => w[n + 1].node = query[n].node
    <2>. HIDE DEF w, n
    <2>1. n \in Nat /\ n + 1 \in 1 .. Len(query) + 1
      BY <1>2, <1>3
    <2>. QED BY <1>2, <1>3, <2>1, WholeTheorem DEF w
  <1>5. OperatorOk(NodeType, w[n + 1], n + 1 = 1)
    BY <1>1, <1>4 DEF checkQuerySyntax
  <1>6. op.node \in DOMAIN NodeType /\ NodeType[op.node] \in {"SOURCE", "OBJECT"}
    BY <1>1, <1>3, <1>4, <1>5 DEF OperatorOk
  <1>7. IsSequence(SelectedRows(op.node, sel))
    <2>. DEFINE node == op.node
    <2>1. \A v \in DOMAIN Rows[node] : IsSequence(Rows[node][v])
      BY <1>6, ExecutionAssumption
    <2>2. IsSequence(<<>>)
      BY DEF IsSequence
    <2>. HIDE DEF node
    <2>3. IsSequence(SelectedRows(node, sel))
      BY <2>1, <2>2 DEF SelectedRows
    <2>. QED BY <2>3 DEF node
  <1>8. SelectedRows(op.node, sel) \in Seq(ToSet(SelectedRows(op.node, sel)))
    BY <1>7 DEF IsSequence
  <1>. DEFINE rows == SelectedRows(op.node, sel)
              j == Joined(op.node, rows)
  <1>. HIDE DEF rows
  <1>9. j \in Seq({j[k] : k \in 1 .. Len(rows)})
    <2>. DEFINE new(v) == <<[name |-> op.node, value |-> v]>>
    <2>1. rows \in Seq(ToSet(rows)) /\ DOMAIN rows = 1 .. Len(rows) /\ Len(rows) \in Nat
      BY <1>8 DEF rows
    <2>2. j = [k \in 1 .. Len(rows) |-> new(rows[k])]
      BY <2>1 DEF Joined
    <2>. HIDE DEF new, j
    <2>. QED BY <2>1, <2>2
  <1>. HIDE DEF j
  <1>10. IsSequence(j)
    BY <1>9, SequenceIsOne
  <1>. QED BY <1>10 DEF j, rows

(* The answer is the right side, or the stream loses its first tuple.      *)
LEMMA RetrieveInv == IInv /\ Retrieve => IInv'
  <1>. SUFFICES ASSUME IInv, Retrieve PROVE IInv'
    OBVIOUS
  <1>1. PICK sel : LET rows == SelectedRows(op.node, sel)
                       h == NewList(heap, Joined(op.node, rows))
                       first == Beyond(heap)
                       next == heap[join.ns].next
                   IN IF rows # <<>>
                      THEN /\ heap' = h
                           /\ join' = [join EXCEPT !.nj = first, !.last = End(h, first),
                                                   !.once = Wildcard]
                           /\ pc' = "loop" /\ head' = head
                      ELSE /\ heap' = freeTupel(SetNext(heap, join.prev, NULL), {join.ns})
                           /\ join' = [join EXCEPT !.ns = next, !.once = Wildcard]
                           /\ head' = SetHead(join.prev, NULL)
                           /\ pc' = IF next = NULL THEN "loop" ELSE "retrieve"
    BY DEF Retrieve, Goto
  <1>2. /\ pc = "retrieve" /\ pc' \in {"loop", "retrieve"}
        /\ UNCHANGED <<input, counter, steps, layer, wire, hops>>
    BY DEF Retrieve, Goto
  <1>3. PICK p, e, s, r :
          Parts(heap, head, join, p, e, s, r) /\ s # <<>> /\ r = <<>> /\ Gone(heap, join)
    BY <1>2, Zenon DEF IInv, Memory, InLoop, Joining
  <1>4. /\ Apart(heap, p, e, s, <<>>) /\ head = FirstOr(p, e) /\ join.prev = Back(p)
        /\ (join.applied = 0 <=> p = <<>>) /\ join.ns = s[1] /\ join.nj = NULL
        /\ Heap(heap) /\ Chain(heap, s, NULL) /\ Chain(heap, p, e)
    BY <1>3 DEF Parts, Apart, FirstOr
  <1>5. join \in JoinType /\ Wildcard \in BOOLEAN
    BY DEF IInv, Typed, Wildcard
  <1>. DEFINE rows == SelectedRows(op.node, sel)
              list == Joined(op.node, rows)
  <1>6. ASSUME rows # <<>> PROVE Typed' /\ Joining(pc', heap', head', join')
    <2>. DEFINE q == Addresses(heap, list)
                h == NewList(heap, list)
    <2>1. /\ heap' = h /\ pc' = "loop" /\ head' = head
          /\ join' = [join EXCEPT !.nj = Beyond(heap), !.last = End(h, Beyond(heap)),
                                  !.once = Wildcard]
      BY <1>1, <1>6
    <2>2. IsSequence(list)
      BY <1>2, JoinNode DEF InLoop
    <2>3. list # <<>>
      <3>1. DOMAIN list = DOMAIN rows
        BY DEF Joined
      <3>2. DOMAIN rows # {}
        BY <1>6, <1>2, JoinNode
      <3>. QED BY <3>1, <3>2
    <2>. HIDE DEF list
    <2>4. Apart(h, p, e, s, q)
      BY <1>4, <2>2, NewRight
    <2>5. q # <<>>
      BY <1>4, <2>2, <2>3, SomeAddresses
    <2>6. FirstOr(q, NULL) = Beyond(heap)
      BY <1>4, <2>2, <2>3, NewListTheorem
    <2>. HIDE DEF q, h
    <2>7. /\ q[1] = Beyond(heap) /\ q[1] \in ToSet(q) /\ Back(q) \in ToSet(q)
          /\ q[1] \in Nat /\ Back(q) \in Nat
      BY <2>4, <2>5, <2>6, BackOfChain DEF Apart, FirstOr
    <2>8. End(h, Beyond(heap)) = Back(q)
      BY <2>4, <2>7, EndOfChain DEF Apart
    <2>9. join' = [join EXCEPT !.nj = q[1], !.last = Back(q), !.once = Wildcard]
      BY <2>1, <2>7, <2>8
    <2>10. join' \in JoinType
      BY <1>5, <2>7, <2>9 DEF JoinType
    <2>11. /\ join'.prev = join.prev /\ join'.applied = join.applied /\ join'.ns = join.ns
           /\ join'.nj = q[1] /\ join'.last = Back(q)
      BY <1>5, <2>9 DEF JoinType
    <2>12. Parts(heap', head', join', p, e, s, q)
      BY <1>3, <1>4, <2>1, <2>4, <2>5, <2>7, <2>11 DEF Parts, FirstOr
    <2>13. Asks(heap', join', s, q)
      BY <2>5 DEF Asks
    <2>14. Joining("loop", heap', head', join')
      BY <2>12, <2>13, Zenon DEF Joining
    <2>15. Typed'
      BY <1>2, <2>10, TypedKept DEF IInv, Typed
    <2>. QED BY <2>1, <2>14, <2>15
  <1>7. ASSUME rows = <<>> PROVE Typed' /\ Joining(pc', heap', head', join')
    <2>. DEFINE next == heap[s[1]].next
                t == Tail(s)
    <2>1. /\ heap' = freeTupel(SetNext(heap, Back(p), NULL), {s[1]})
          /\ join' = [join EXCEPT !.ns = next, !.once = Wildcard]
          /\ head' = SetHead(Back(p), NULL)
          /\ pc' = IF next = NULL THEN "loop" ELSE "retrieve"
      BY <1>1, <1>4, <1>7
    <2>2. next = FirstOr(t, NULL) /\ Chain(heap, t, NULL)
      BY <1>3, <1>4, ChainTail
    <2>3. Apart(heap', p, NULL, t, <<>>)
      BY <1>3, <1>4, <2>1, DropStream
    <2>. HIDE DEF next, t
    <2>4. next \in Nat /\ (next = NULL <=> t = <<>>)
      BY <1>4, <2>2, BackOfChain DEF FirstOr, NULL
    <2>5. join' \in JoinType
      BY <1>5, <2>1, <2>4 DEF JoinType
    <2>6. /\ join'.prev = join.prev /\ join'.applied = join.applied /\ join'.ns = next
          /\ join'.nj = NULL /\ join'.cj = join.cj
      BY <1>4, <1>5, <2>1 DEF JoinType
    <2>7. head' = FirstOr(p, NULL)
      <3>1. Back(p) = NULL <=> p = <<>>
        BY <1>4, BackOfChain
      <3>. QED BY <1>4, <2>1, <3>1 DEF SetHead, FirstOr
    <2>8. Parts(heap', head', join', p, NULL, t, <<>>)
      BY <1>4, <2>2, <2>3, <2>6, <2>7 DEF Parts, FirstOr
    <2>9. DOMAIN heap' \subseteq DOMAIN heap
      <3>1. ToSet(t) \subseteq ToSet(s)
        BY <1>3, <1>4, ChainTail DEF t
      <3>2. /\ DOMAIN heap' = ToSet(p) \cup ToSet(t) \cup ToSet(<<>>)
            /\ DOMAIN heap = ToSet(p) \cup ToSet(s) \cup ToSet(<<>>)
        BY <1>4, <2>3 DEF Apart
      <3>. QED BY <3>1, <3>2
    <2>10. /\ pc' = "loop" => Asks(heap', join', t, <<>>)
           /\ pc' = "retrieve" => t # <<>> /\ Gone(heap', join')
           /\ pc' # "match"
      BY <1>3, <2>1, <2>4, <2>6, <2>9 DEF Asks, Gone
    <2>11. Joining(pc', heap', head', join')
      <3>1. CASE pc' = "loop"
        <4>1. Asks(heap', join', t, <<>>)
          BY <2>10, <3>1
        <4>2. Joining("loop", heap', head', join')
          BY <2>8, <4>1, Zenon DEF Joining
        <4>. QED BY <3>1, <4>2
      <3>2. CASE pc' = "retrieve"
        <4>1. t # <<>> /\ Gone(heap', join')
          BY <2>10, <3>2
        <4>2. Joining("retrieve", heap', head', join')
          BY <2>8, <4>1, Zenon DEF Joining
        <4>. QED BY <3>2, <4>2
      <3>. QED BY <1>2, <3>1, <3>2
    <2>12. Typed'
      BY <1>2, <2>5, TypedKept DEF IInv, Typed
    <2>. QED BY <2>11, <2>12
  <1>8. Typed' /\ Joining(pc', heap', head', join')
    BY <1>6, <1>7
  <1>9. Memory'
    BY <1>2, <1>8, MemoryJoining DEF IInv, InLoop, input
  <1>. QED BY <1>8, <1>9 DEF IInv

-------------------------------------------------------------------------------
(* A pair of tuples that match.                                            *)

(* Whether the stream, and the right side, have more tuples.               *)
LEMMA MoreTheorem ==
  ASSUME NEW p, NEW e, NEW s, NEW r, Parts(heap, head, join, p, e, s, r), s # <<>>, r # <<>>
  PROVE  /\ curTupleStream = s[1] /\ curTupleJoin = r[1]
         /\ s[1] \in ToSet(s) /\ s[1] \in DOMAIN heap /\ s[1] \in Nat \ {NULL}
         /\ r[1] \in ToSet(r) /\ r[1] \in DOMAIN heap /\ r[1] \in Nat \ {NULL}
         /\ heap[s[1]].next = FirstOr(Tail(s), NULL) /\ heap[r[1]].next = FirstOr(Tail(r), NULL)
         /\ (MoreS <=> Tail(s) # <<>>) /\ (MoreJ <=> Tail(r) # <<>>)
         /\ ToSet(Tail(s)) = ToSet(s) \ {s[1]} /\ ToSet(Tail(r)) = ToSet(r) \ {r[1]}
         /\ (Tail(r) # <<>> => Back(Tail(r)) = Back(r) /\ Back(r) # r[1])
         /\ Back(r) \in ToSet(r) /\ Back(r) \in Nat
  <1>1. /\ Heap(heap) /\ Chain(heap, s, NULL) /\ Chain(heap, r, NULL)
        /\ join.ns = FirstOr(s, NULL) /\ join.nj = FirstOr(r, NULL)
    BY DEF Parts, Apart
  <1>2. curTupleStream = s[1] /\ curTupleJoin = r[1]
    BY <1>1 DEF curTupleStream, curTupleJoin, FirstOr
  <1>3. /\ s[1] \in ToSet(s) /\ s[1] \in DOMAIN heap /\ s[1] \in Nat \ {NULL}
        /\ heap[s[1]].next = FirstOr(Tail(s), NULL)
        /\ ToSet(Tail(s)) = ToSet(s) \ {s[1]}
    BY <1>1, ChainTail, BackOfChain
  <1>4. /\ r[1] \in ToSet(r) /\ r[1] \in DOMAIN heap /\ r[1] \in Nat \ {NULL}
        /\ heap[r[1]].next = FirstOr(Tail(r), NULL)
        /\ ToSet(Tail(r)) = ToSet(r) \ {r[1]}
        /\ Back(r) \in ToSet(r) /\ Back(r) \in Nat
    BY <1>1, ChainTail, BackOfChain
  <1>5. (MoreS <=> Tail(s) # <<>>) /\ (MoreJ <=> Tail(r) # <<>>)
    BY <1>1, <1>2, MoreOfChain DEF MoreS, MoreJ
  <1>6. ASSUME Tail(r) # <<>> PROVE Back(Tail(r)) = Back(r) /\ Back(r) # r[1]
    <2>1. Chain(heap, Tail(r), NULL) /\ Back(Tail(r)) = Back(r)
      BY <1>1, <1>6, ChainTail
    <2>2. Back(Tail(r)) \in ToSet(Tail(r))
      BY <1>1, <1>6, <2>1, BackOfChain
    <2>. QED BY <1>4, <2>1, <2>2
  <1>. QED BY <1>2, <1>3, <1>4, <1>5, <1>6

(* After a pair has been merged, in the lists c and d that the stream and  *)
(* the right side were made for that.                                      *)
Merged(h, p, c, d, at, g, q, s, r) ==
  /\ Apart(g, q, FirstOr(s, NULL), s, r)
  /\ h[c[1]].next = FirstOr(s, NULL) /\ h[d[1]].next = FirstOr(r, NULL)
  /\ ToSet(r) = ToSet(d) \ {d[1]} /\ (r # <<>> => Back(r) = Back(d))
  /\ SetHead(Back(p), at) = FirstOr(q, FirstOr(s, NULL))
  /\ q # <<>> /\ at = Back(q)
  /\ (s # <<>> => FirstOr(s, NULL) # at)
  /\ d[1] \notin DOMAIN g

(* The merged tuple goes to the end of those that are joined.              *)
LEMMA MergedChains ==
  ASSUME NEW h, NEW p, NEW e, NEW c, NEW d, Apart(h, p, e, c, d), c # <<>>, d # <<>>,
         NEW at \in Nat \ {NULL}, at = c[1] \/ at \notin DOMAIN h, head = FirstOr(p, e),
         NEW g, g = SetNext(mergeTuple(h, c[1], d[1], at), Back(p), at),
         NEW s, s = Tail(c), NEW r, r = Tail(d), NEW q, q = Append(p, at)
  PROVE  Merged(h, p, c, d, at, g, q, s, r)
  <1>1. Heap(h) /\ Chain(h, p, e) /\ Chain(h, c, NULL) /\ Chain(h, d, NULL)
    BY DEF Apart
  <1>2. Apart(g, q, FirstOr(s, NULL), s, r)
    BY MergeApart
  <1>3. h[c[1]].next = FirstOr(s, NULL)
    BY <1>1, TailOfChain
  <1>4. /\ h[d[1]].next = FirstOr(r, NULL)
        /\ ToSet(r) = ToSet(d) \ {d[1]} /\ (r # <<>> => Back(r) = Back(d))
    BY <1>1, TailOfChain
  <1>5. q # <<>> /\ q[Len(q)] = at /\ (p = <<>> => q[1] = at) /\ (p # <<>> => q[1] = p[1])
    <2>1. p \in Seq(DOMAIN h \cup {at})
      BY <1>1 DEF Chain
    <2>2. /\ Len(q) = Len(p) + 1 /\ q # <<>> /\ q[Len(p) + 1] = at /\ Len(p) \in Nat
          /\ \A i \in 1 .. Len(p) : q[i] = p[i]
      BY <2>1, Appended
    <2>3. p = <<>> <=> Len(p) = 0
      BY <2>1, EmptySequence
    <2>. QED BY <2>2, <2>3
  <1>6. SetHead(Back(p), at) = FirstOr(q, FirstOr(s, NULL))
    <2>1. Back(p) = NULL <=> p = <<>>
      BY <1>1, BackOfChain
    <2>. QED BY <1>5, <2>1 DEF SetHead, FirstOr
  <1>7. at = Back(q)
    BY <1>5 DEF Back
  <1>8. at \in ToSet(q)
    <2>1. Heap(g) /\ Chain(g, q, FirstOr(s, NULL))
      BY <1>2 DEF Apart
    <2>. QED BY <1>5, <1>7, <2>1, BackOfChain
  <1>9. ASSUME s # <<>> PROVE FirstOr(s, NULL) # at
    <2>1. FirstOr(s, NULL) \in ToSet(s)
      BY <1>2, <1>9, BackOfChain DEF Apart, FirstOr
    <2>. QED BY <1>2, <1>8, <2>1 DEF Apart, Disjoint
  <1>10. d[1] \notin DOMAIN g
    <2>1. /\ ToSet(s) = ToSet(c) \ {c[1]} /\ c[1] \in ToSet(c) /\ d[1] \in ToSet(d)
          /\ d[1] \in DOMAIN h
      BY <1>1, ChainTail
    <2>2. ToSet(q) \subseteq ToSet(p) \cup {at}
      <3>1. p \in Seq(DOMAIN h \cup {at})
        BY <1>1 DEF Chain
      <3>2. /\ q \in Seq(DOMAIN h \cup {at}) /\ Len(q) = Len(p) + 1
            /\ q[Len(p) + 1] = at /\ \A i \in 1 .. Len(p) : q[i] = p[i]
        BY <3>1, Appended
      <3>. QED BY <3>1, <3>2, SetOfAppended, Zenon
    <2>3. d[1] # at /\ d[1] \notin ToSet(p) /\ d[1] \notin ToSet(s)
      BY <2>1 DEF Apart, Disjoint
    <2>4. DOMAIN g = ToSet(q) \cup ToSet(s) \cup ToSet(r)
      BY <1>2 DEF Apart
    <2>. QED BY <1>4, <2>2, <2>3, <2>4
  <1>. QED BY <1>2, <1>3, <1>4, <1>5, <1>6, <1>7, <1>9, <1>10 DEF Merged

Merging(h, p, e, c, d, at, s, r, j) ==
  /\ Apart(h, p, e, c, d) /\ c # <<>> /\ d # <<>> /\ head = FirstOr(p, e)
  /\ at \in Nat \ {NULL} /\ (at = c[1] \/ at \notin DOMAIN h)
  /\ s = Tail(c) /\ r = Tail(d)
  /\ j \in JoinType /\ j.cs = at /\ j.cj = d[1] /\ j.prev = at /\ j.applied = 1
  /\ j.ns = h[c[1]].next /\ j.nj = h[d[1]].next
  /\ (r # <<>> => s # <<>>)
  /\ (r # <<>> /\ ~j.once => j.last = Back(d))
  /\ (r # <<>> /\ j.once /\ Tail(s) # <<>> => j.last \in ToSet(d) \ {d[1]})
  /\ (s # <<>> /\ r = <<>> => ~j.once)

(* The variables of doJoin describe what it leaves.                        *)
LEMMA MergedParts ==
  ASSUME NEW h, NEW p, NEW e, NEW c, NEW d, NEW at, NEW s, NEW r, NEW j,
         Merging(h, p, e, c, d, at, s, r, j),
         NEW g, g = SetNext(mergeTuple(h, c[1], d[1], at), Back(p), at),
         NEW k, k = SetHead(Back(p), at)
  PROVE  Joining("loop", g, k, j)
  <1>. DEFINE q == Append(p, at)
  <1>1. q = Append(p, at)
    OBVIOUS
  <1>. HIDE DEF q
  <1>2. Merged(h, p, c, d, at, g, q, s, r)
    BY <1>1, MergedChains DEF Merging
  <1>3. Parts(g, k, j, q, FirstOr(s, NULL), s, r)
    BY <1>2 DEF Merged, Parts, Merging
  <1>4. Asks(g, j, s, r)
    BY <1>2 DEF Merged, Asks, Gone, Merging
  <1>. QED BY <1>3, <1>4, Zenon DEF Joining

(* A merged pair leaves three chains, whatever was copied and kept.        *)
LEMMA MergeInv == IInv /\ Merge => IInv'
  <1>. SUFFICES ASSUME IInv, Merge PROVE IInv'
    OBVIOUS
  <1>1. /\ pc = "match" /\ pc' = "loop"
        /\ UNCHANGED <<input, counter, steps, layer, wire, hops>>
    BY DEF Merge, Paired, Goto
  <1>2. PICK p, e, s, r : Parts(heap, head, join, p, e, s, r) /\ s # <<>> /\ r # <<>>
    BY <1>1, Zenon DEF IInv, Memory, InLoop, Joining
  <1>3. /\ Apart(heap, p, e, s, r) /\ head = FirstOr(p, e) /\ join.prev = Back(p)
        /\ (~join.once => join.last = Back(r))
        /\ (join.once /\ Tail(s) # <<>> => join.last \in ToSet(r))
        /\ join \in JoinType /\ moves \in BOOLEAN
    BY <1>2 DEF Parts, IInv, Typed
  <1>. DEFINE cur == s[1]
              right == r[1]
              keepS == KeepStream(MoreS, MoreJ)
              keep == KeepRight(MoreS, MoreJ)
              h1 == IF keepS THEN CopyBehind(heap, cur) ELSE heap
              tail == End(h1, IF MoreJ THEN join.last ELSE right)
              copy == Fresh(h1)
              h2 == IF keep THEN Link(Put(h1, copy, copyTupel(h1, right)), tail, copy) ELSE h1
              at == IF moves THEN Fresh(h2) ELSE cur
              last == CASE keep /\ ~MoreJ -> copy
                        [] keep /\ MoreJ /\ right = join.last -> tail
                        [] OTHER -> join.last
  <1>4. /\ curTupleStream = cur /\ curTupleJoin = right
        /\ cur \in Nat \ {NULL}
        /\ (MoreS <=> Tail(s) # <<>>) /\ (MoreJ <=> Tail(r) # <<>>)
        /\ right \in ToSet(r) /\ Back(r) \in ToSet(r) /\ Back(r) \in Nat
        /\ (Tail(r) # <<>> => Back(r) # right)
    BY <1>2, MoreTheorem
  <1>5. /\ heap' = SetNext(mergeTuple(h2, cur, right, at), Back(p), at)
        /\ head' = SetHead(Back(p), at)
        /\ join' = [join EXCEPT !.cs = at, !.cj = right, !.ns = h2[cur].next,
                      !.nj = h2[right].next, !.prev = at, !.applied = 1, !.last = last]
    BY <1>3, <1>4 DEF Merge
  <1>6. PICK c : /\ c # <<>> /\ c[1] = cur /\ Apart(h1, p, e, c, r)
                 /\ keepS => Tail(c) # <<>> /\ Tail(Tail(c)) = Tail(s)
                 /\ ~keepS => c = s
    <2>1. CASE keepS
      <3>1. h1 = CopyBehind(heap, s[1])
        BY <2>1
      <3>2. PICK c : /\ c # <<>> /\ c[1] = s[1] /\ Tail(c) # <<>> /\ Tail(Tail(c)) = Tail(s)
                     /\ Apart(CopyBehind(heap, s[1]), p, e, c, r)
        BY <1>2, <1>3, CopyApart
      <3>. HIDE DEF h1, keepS
      <3>. QED BY <2>1, <3>1, <3>2, Zenon
    <2>2. CASE ~keepS
      <3>1. h1 = heap
        BY <2>2
      <3>. HIDE DEF h1, keepS
      <3>. QED BY <1>2, <1>3, <2>2, <3>1, Zenon
    <2>. QED BY <2>1, <2>2
  <1>7. KeepRight(MoreS, MoreJ) => join.once /\ Tail(s) # <<>>
    BY <1>4 DEF KeepRight
  <1>. HIDE DEF h1
  <1>8. keep => tail = Back(r)
    <2>1. Heap(h1) /\ Chain(h1, r, NULL)
      BY <1>6 DEF Apart
    <2>2. keep => join.last \in ToSet(r) /\ right \in ToSet(r)
      BY <1>3, <1>4, <1>7
    <2>3. keep => (IF MoreJ THEN join.last ELSE right) \in ToSet(r)
      BY <2>2
    <2>4. ASSUME NEW t \in ToSet(r) PROVE End(h1, t) = Back(r)
      BY <2>1, EndOfChain
    <2>. QED BY <2>3, <2>4
  <1>9. copy \in Nat \ {NULL} /\ copy \notin DOMAIN h1 /\ copy \notin ToSet(r)
    <2>1. Heap(h1) /\ ToSet(r) \subseteq DOMAIN h1
      BY <1>6 DEF Apart
    <2>. QED BY <2>1, FreshAddress
  <1>. DEFINE d == IF keep THEN Append(r, copy) ELSE r
  <1>10. Apart(h2, p, e, c, d)
    <2>1. CASE keep
      <3>. DEFINE items == present(h1[right].items)
      <3>1. h2 = Link(Put(h1, Fresh(h1), Tupel(items, NULL)), Back(r), Fresh(h1))
        BY <1>8, <2>1 DEF copyTupel
      <3>2. d = Append(r, Fresh(h1))
        BY <2>1
      <3>. HIDE DEF items, h2, d
      <3>. QED BY <1>2, <1>6, <3>1, <3>2, KeepApart
    <2>2. CASE ~keep
      BY <1>6, <2>2
    <2>. QED BY <2>1, <2>2
  <1>11. /\ d # <<>> /\ d[1] = right
         /\ (keep => Tail(d) # <<>> /\ ToSet(d) = ToSet(r) \cup {copy})
    <2>1. r \in Seq(DOMAIN h1 \cup {copy})
      BY <1>6 DEF Apart, Chain
    <2>. DEFINE a == Append(r, copy)
    <2>2. a = Append(r, copy)
      OBVIOUS
    <2>3. d = IF keep THEN a ELSE r
      OBVIOUS
    <2>. HIDE DEF copy, a, d, keep
    <2>4. /\ a \in Seq(DOMAIN h1 \cup {copy}) /\ Len(a) = Len(r) + 1 /\ a[Len(r) + 1] = copy
          /\ \A i \in 1 .. Len(r) : a[i] = r[i]
      BY <2>1, <2>2, Appended
    <2>5. a # <<>> /\ a[1] = r[1] /\ Tail(a) # <<>> /\ ToSet(a) = ToSet(r) \cup {copy}
      BY <1>2, <2>1, <2>4, KeptRight
    <2>. QED BY <1>2, <2>5, <2>3
  <1>12. ~keep => d = r
    OBVIOUS
  <1>. HIDE DEF h2, copy, tail, d
  <1>13. at \in Nat \ {NULL} /\ (at = c[1] \/ at \notin DOMAIN h2)
    BY <1>4, <1>6, <1>10, FreshAddress DEF Apart
  <1>14. last \in Nat
    BY <1>3, <1>4, <1>8, <1>9 DEF JoinType
  <1>15. keep <=> join.once /\ MoreS
    BY DEF KeepRight
  <1>16. keepS <=> MoreJ /\ ~(MoreS /\ right = join.last)
    BY <1>4 DEF KeepStream
  <1>17. MoreS \in BOOLEAN /\ MoreJ \in BOOLEAN
    BY DEF MoreS, MoreJ
  <1>18. /\ keep /\ ~MoreJ => last = copy
         /\ keep /\ MoreJ /\ right = join.last => last = tail
         /\ (~keep \/ (MoreJ /\ right # join.last)) => last = join.last
    <2>1. keep \in BOOLEAN
      BY <1>17 DEF KeepRight
    <2>. HIDE DEF keep
    <2>2. ASSUME keep, ~MoreJ PROVE last = copy
      BY <2>2
    <2>3. ASSUME keep, MoreJ, right = join.last PROVE last = tail
      BY <2>3
    <2>4. ASSUME ~keep \/ (MoreJ /\ right # join.last) PROVE last = join.last
      BY <2>4
    <2>. QED BY <2>2, <2>3, <2>4
  <1>. HIDE DEF at, keep, keepS, last
  <1>19. h2[cur].next \in Nat /\ h2[right].next \in Nat
    <2>1. cur \in DOMAIN h2 /\ right \in DOMAIN h2
      <3>1. Heap(h2) /\ Chain(h2, c, NULL) /\ Chain(h2, d, NULL)
        BY <1>10 DEF Apart
      <3>. QED BY <1>6, <1>11, <3>1, BackOfChain
    <2>. QED BY <1>10, <2>1, ApartClosed DEF Closed, NULL
  <1>20. join' \in JoinType
    <2>1. right \in Nat
      BY <1>3, <1>4, BackOfChain DEF Apart
    <2>. HIDE DEF right, cur
    <2>. QED BY <1>3, <1>5, <1>13, <1>14, <1>19, <2>1 DEF JoinType
  <1>21. /\ join'.cs = at /\ join'.cj = right /\ join'.prev = at /\ join'.applied = 1 /\ join'.once = join.once
         /\ join'.ns = h2[cur].next /\ join'.nj = h2[right].next /\ join'.last = last
    BY <1>3, <1>5 DEF JoinType
  <1>. DEFINE ts == Tail(s)
              tr == Tail(r)
              tc == Tail(c)
              td == Tail(d)
              ttc == Tail(tc)
  <1>22. /\ (MoreS <=> ts # <<>>) /\ (MoreJ <=> tr # <<>>)
         /\ (keepS => tc # <<>> /\ ttc = ts) /\ (~keepS => tc = ts)
         /\ (keep => td # <<>>) /\ (~keep => td = tr)
    BY <1>4, <1>6, <1>11, <1>12
  <1>23. /\ join.once /\ ts # <<>> => join.last \in ToSet(r)
         /\ tr # <<>> => Back(r) # right
    BY <1>3, <1>4
  <1>24. tc = Tail(c) /\ td = Tail(d) /\ ttc = Tail(tc)
    OBVIOUS
  <1>. HIDE DEF ts, tr, tc, td, ttc
  <1>25. td # <<>> => tc # <<>>
    BY <1>15, <1>16, <1>22
  <1>26. td # <<>> /\ ~join.once => last = Back(d)
    BY <1>3, <1>12, <1>15, <1>18
  <1>27. td # <<>> /\ join.once /\ ttc # <<>> => last \in ToSet(d) \ {right}
    <2>. SUFFICES ASSUME td # <<>>, join.once, ttc # <<>> PROVE last \in ToSet(d) \ {right}
      OBVIOUS
    <2>1. ts # <<>> /\ keep /\ MoreS
      BY <1>15, <1>22, <1>25
    <2>2. ToSet(d) = ToSet(r) \cup {copy} /\ join.last \in ToSet(r)
      BY <1>11, <1>23, <2>1
    <2>3. CASE ~MoreJ
      BY <1>4, <1>9, <1>18, <2>1, <2>2, <2>3
    <2>4. CASE MoreJ /\ right = join.last
      BY <1>4, <1>8, <1>22, <1>23, <1>18, <2>1, <2>2, <2>4
    <2>5. CASE MoreJ /\ right # join.last
      BY <1>18, <2>2, <2>5
    <2>. QED BY <2>3, <2>4, <2>5
  <1>28. tc # <<>> /\ td = <<>> => ~join.once
    BY <1>15, <1>16, <1>22
  <1>29. Joining("loop", heap', head', join')
    <2>. DEFINE j == join'
    <2>1. /\ j \in JoinType /\ j.cs = at /\ j.cj = d[1] /\ j.prev = at /\ j.applied = 1
          /\ j.ns = h2[c[1]].next /\ j.nj = h2[d[1]].next
      BY <1>6, <1>11, <1>20, <1>21
    <2>2. /\ td # <<>> /\ ~j.once => j.last = Back(d)
          /\ td # <<>> /\ j.once /\ Tail(tc) # <<>> => j.last \in ToSet(d) \ {d[1]}
          /\ tc # <<>> /\ td = <<>> => ~j.once
      BY <1>11, <1>21, <1>24, <1>26, <1>27, <1>28
    <2>3. /\ heap' = SetNext(mergeTuple(h2, c[1], d[1], at), Back(p), at)
          /\ head' = SetHead(Back(p), at)
      BY <1>5, <1>6, <1>11
    <2>. HIDE DEF j, cur, right
    <2>4. Merging(h2, p, e, c, d, at, tc, td, j)
      BY <1>3, <1>6, <1>10, <1>11, <1>13, <1>24, <1>25, <2>1, <2>2 DEF Merging
    <2>5. Joining("loop", heap', head', j)
      BY <2>3, <2>4, MergedParts
    <2>. QED BY <2>5 DEF j
  <1>30. Typed'
    BY <1>1, <1>20, TypedKept DEF IInv, Typed
  <1>31. Memory'
    BY <1>1, <1>29, MemoryJoining DEF IInv, InLoop, input
  <1>. QED BY <1>30, <1>31 DEF IInv

-------------------------------------------------------------------------------
(* A pair of tuples that do not match.                                     *)

(* The right side goes on to its next tuple.                               *)
Turn(r, keep, h, nj) ==
  /\ h = (CASE keep /\ MoreJ -> Link(Link(heap, End(heap, join.last), r[1]), r[1], NULL)
            [] keep /\ ~MoreJ -> heap
            [] OTHER -> freeTupel(heap, {r[1]}))
  /\ nj = (IF keep /\ ~MoreJ THEN r[1] ELSE heap[r[1]].next)

Turned(p, e, s, r, keep, h, nj) ==
  \E d : /\ Apart(h, p, e, s, d) /\ nj = FirstOr(d, NULL)
         /\ (keep => d # <<>> /\ ToSet(d) = ToSet(r))
         /\ (~keep => d = Tail(r))

(* It is rotated, left as it is, or loses its first tuple.                 *)
LEMMA NextRight ==
  ASSUME NEW p, NEW e, NEW s, NEW r, Parts(heap, head, join, p, e, s, r), s # <<>>, r # <<>>,
         NEW keep \in BOOLEAN, keep => join.once /\ Tail(s) # <<>>,
         NEW h, NEW nj, Turn(r, keep, h, nj)
  PROVE  Turned(p, e, s, r, keep, h, nj)
  <1>1. Apart(heap, p, e, s, r) /\ Heap(heap) /\ Chain(heap, r, NULL)
    BY DEF Parts, Apart
  <1>2. (MoreJ <=> Tail(r) # <<>>) /\ heap[r[1]].next = FirstOr(Tail(r), NULL) /\ MoreJ \in BOOLEAN
    BY MoreTheorem DEF MoreJ
  <1>3. CASE keep /\ MoreJ
    <2>. DEFINE t == Tail(r)
                d == Append(t, r[1])
    <2>1. join.last \in ToSet(r)
      BY <1>3 DEF Parts
    <2>2. End(heap, join.last) = Back(r)
      BY <1>1, <2>1, EndOfChain
    <2>3. h = Link(Link(heap, Back(r), r[1]), r[1], NULL) /\ nj = FirstOr(t, NULL)
      BY <1>2, <1>3, <2>2 DEF Turn
    <2>4. Apart(h, p, e, s, d)
      BY <1>1, <1>2, <1>3, <2>3, RotateRight
    <2>5. t # <<>>
      BY <1>2, <1>3
    <2>6. d = Append(t, r[1])
      OBVIOUS
    <2>7. /\ Chain(heap, t, NULL) /\ ToSet(t) = ToSet(r) \ {r[1]}
          /\ r[1] \in ToSet(r) /\ r[1] \in DOMAIN heap
      BY <1>1, ChainTail
    <2>. HIDE DEF t, d
    <2>8. ToSet(d) = ToSet(r) /\ d # <<>> /\ FirstOr(d, NULL) = FirstOr(t, NULL)
      <3>1. t \in Seq(DOMAIN heap)
        BY <2>7 DEF Chain
      <3>2. /\ d \in Seq(DOMAIN heap) /\ Len(d) = Len(t) + 1 /\ d[Len(t) + 1] = r[1]
            /\ \A i \in 1 .. Len(t) : d[i] = t[i]
        BY <2>6, <2>7, <3>1, Appended
      <3>3. d # <<>> /\ d[1] = t[1] /\ ToSet(d) = ToSet(t) \cup {r[1]}
        BY <2>5, <3>1, <3>2, KeptRight
      <3>. QED BY <2>5, <2>7, <3>3 DEF FirstOr
    <2>9. nj = FirstOr(d, NULL)
      BY <2>3, <2>8
    <2>. QED BY <1>3, <2>4, <2>8, <2>9, Zenon DEF Turned
  <1>4. CASE keep /\ ~MoreJ
    <2>1. h = heap /\ nj = FirstOr(r, NULL)
      BY <1>4 DEF FirstOr, Turn
    <2>2. Apart(h, p, e, s, r)
      BY <1>1, <2>1
    <2>. QED BY <1>4, <2>1, <2>2, Zenon DEF Turned
  <1>5. CASE ~keep
    <2>. DEFINE t == Tail(r)
    <2>1. h = freeTupel(heap, {r[1]}) /\ nj = FirstOr(t, NULL)
      BY <1>2, <1>5 DEF Turn
    <2>2. Apart(h, p, e, s, t)
      BY <1>1, <2>1, FreeRight
    <2>. QED BY <1>5, <2>1, <2>2, Zenon DEF Turned
  <1>. QED BY <1>2, <1>3, <1>4, <1>5

(* So does a pair that does not match.                                     *)
LEMMA NoMatchInv == IInv /\ NoMatch => IInv'
  <1>. SUFFICES ASSUME IInv, NoMatch PROVE IInv'
    OBVIOUS
  <1>1. /\ pc = "match" /\ pc' = "loop"
        /\ UNCHANGED <<input, counter, steps, layer, wire, hops>>
    BY DEF NoMatch, Paired, Goto
  <1>2. PICK p, e, s, r : Parts(heap, head, join, p, e, s, r) /\ s # <<>> /\ r # <<>>
    BY <1>1, Zenon DEF IInv, Memory, InLoop, Joining
  <1>3. /\ Apart(heap, p, e, s, r) /\ head = FirstOr(p, e) /\ join.prev = Back(p)
        /\ (join.applied = 0 <=> p = <<>>)
        /\ (~join.once => join.last = Back(r))
        /\ (join.once /\ Tail(s) # <<>> => join.last \in ToSet(r))
        /\ join \in JoinType /\ Heap(heap) /\ Chain(heap, r, NULL) /\ Chain(heap, p, e)
        /\ Chain(heap, s, NULL)
    BY <1>2 DEF Parts, IInv, Typed, Apart
  <1>. DEFINE cur == s[1]
              right == r[1]
              next == heap[cur].next
              keep == KeepRight(MoreS, MoreJ)
              drop == FreeStream(MoreS, MoreJ, right)
              tail == End(heap, join.last)
              h1 == CASE keep /\ MoreJ -> Link(Link(heap, tail, right), right, NULL)
                      [] keep /\ ~MoreJ -> heap
                      [] OTHER -> freeTupel(heap, {right})
              nj == IF keep /\ ~MoreJ THEN right ELSE heap[right].next
              last == IF keep /\ MoreJ /\ right = join.last THEN tail ELSE join.last
  <1>4. /\ curTupleStream = cur /\ curTupleJoin = right
        /\ cur \in Nat \ {NULL} /\ next = FirstOr(Tail(s), NULL)
        /\ (MoreS <=> Tail(s) # <<>>) /\ (MoreJ <=> Tail(r) # <<>>)
        /\ ToSet(Tail(s)) = ToSet(s) \ {cur}
        /\ Back(r) \in ToSet(r) /\ Back(r) \in Nat
        /\ (Tail(r) # <<>> => Back(Tail(r)) = Back(r))
    BY <1>2, MoreTheorem
  <1>5. /\ heap' = IF drop THEN freeTupel(SetNext(h1, Back(p), next), {cur}) ELSE h1
        /\ head' = IF drop THEN SetHead(Back(p), next) ELSE head
        /\ join' = [join EXCEPT !.cs = cur, !.cj = right, !.ns = IF drop THEN next ELSE cur,
                      !.nj = nj, !.last = last]
    BY <1>3, <1>4 DEF NoMatch
  <1>6. MoreS \in BOOLEAN /\ MoreJ \in BOOLEAN
    BY DEF MoreS, MoreJ
  <1>7. /\ (keep <=> join.once /\ MoreS) /\ keep \in BOOLEAN
        /\ (drop <=> ~MoreJ \/ (MoreS /\ right = join.last))
    BY <1>3, <1>6 DEF KeepRight, FreeStream, JoinType
  <1>8. PICK d : /\ Apart(h1, p, e, s, d) /\ nj = FirstOr(d, NULL)
                 /\ (keep => d # <<>> /\ ToSet(d) = ToSet(r))
                 /\ (~keep => d = Tail(r))
    <2>1. keep => join.once /\ Tail(s) # <<>>
      BY <1>4, <1>7
    <2>2. Turn(r, keep, h1, nj)
      BY DEF Turn
    <2>. HIDE DEF keep, h1, nj
    <2>3. Turned(p, e, s, r, keep, h1, nj)
      BY <1>2, <1>7, <2>1, <2>2, NextRight
    <2>. QED BY <2>3 DEF Turned
  <1>9. keep => tail = Back(r) /\ last \in ToSet(r)
    <2>1. keep => join.last \in ToSet(r)
      BY <1>3, <1>4, <1>7
    <2>2. keep => tail = Back(r)
      BY <1>3, <2>1, EndOfChain
    <2>. QED BY <1>4, <2>1, <2>2
  <1>10. ~keep => last = join.last
    OBVIOUS
  <1>. HIDE DEF h1, nj, last, keep, drop
  <1>11. last \in Nat
    <2>1. ToSet(r) \subseteq Nat
      BY <1>3, BackOfChain
    <2>. QED BY <1>3, <1>9, <1>10, <2>1 DEF JoinType
  <1>12. nj \in Nat /\ next \in Nat
    <2>1. Heap(h1) /\ Chain(h1, d, NULL) /\ Chain(heap, Tail(s), NULL)
      BY <1>2, <1>3, <1>8, ChainTail DEF Apart
    <2>2. FirstOr(d, NULL) \in Nat
      BY <2>1, BackOfChain DEF FirstOr, NULL
    <2>. DEFINE t == Tail(s)
    <2>. HIDE DEF t
    <2>3. Chain(heap, t, NULL)
      BY <2>1 DEF t
    <2>4. FirstOr(t, NULL) \in Nat
      BY <1>3, <2>3, BackOfChain DEF FirstOr, NULL
    <2>. QED BY <1>4, <1>8, <2>2, <2>4 DEF t
  <1>13. join' \in JoinType
    <2>1. right \in Nat
      BY <1>2, <1>3, BackOfChain
    <2>. HIDE DEF right, cur, next
    <2>. QED BY <1>3, <1>4, <1>5, <1>11, <1>12, <2>1 DEF JoinType
  <1>14. /\ join'.cs = cur /\ join'.cj = right /\ join'.ns = (IF drop THEN next ELSE cur) /\ join'.nj = FirstOr(d, NULL)
         /\ join'.last = last /\ join'.prev = Back(p) /\ join'.once = join.once
         /\ join'.applied = join.applied
    BY <1>3, <1>5, <1>8 DEF JoinType
  <1>. DEFINE ts == Tail(s)
              tr == Tail(r)
  <1>15. /\ (MoreS <=> ts # <<>>) /\ (MoreJ <=> tr # <<>>) /\ (~keep => d = tr)
         /\ (tr # <<>> => Back(tr) = Back(r)) /\ next = FirstOr(ts, NULL)
         /\ ToSet(ts) = ToSet(s) \ {cur}
    BY <1>4, <1>8
  <1>16. ~keep => right \notin DOMAIN h1
    <2>1. right \in ToSet(r) /\ ToSet(tr) = ToSet(r) \ {right}
      BY <1>2, <1>3, ChainTail
    <2>. QED BY <1>3, <1>8, <2>1 DEF Apart, Disjoint
  <1>. HIDE DEF cur, right, next, ts, tr
  <1>17. ~join'.once /\ d # <<>> => join'.last = Back(d)
    BY <1>3, <1>7, <1>10, <1>14, <1>15
  <1>18. d # <<>> /\ join'.once /\ ts # <<>> => join'.last \in ToSet(d)
    BY <1>7, <1>8, <1>9, <1>14, <1>15
  <1>19. ASSUME drop PROVE Joining("loop", heap', head', join')
    <2>1. Apart(heap', p, next, ts, d)
      <3>1. heap' = freeTupel(SetNext(h1, Back(p), next), {s[1]})
        BY <1>5, <1>19 DEF cur
      <3>2. next \in {NULL, FirstOr(Tail(s), NULL)}
        BY <1>15 DEF ts
      <3>. QED BY <1>2, <1>8, <3>1, <3>2, DropStream DEF ts
    <2>2. head' = FirstOr(p, next)
      <3>1. Back(p) = NULL <=> p = <<>>
        BY <1>3, BackOfChain
      <3>. QED BY <1>3, <1>5, <1>19, <3>1 DEF SetHead, FirstOr
    <2>3. d # <<>> => ts # <<>>
      BY <1>7, <1>15, <1>19
    <2>4. Parts(heap', head', join', p, next, ts, d)
      BY <1>3, <1>14, <1>15, <1>17, <1>18, <1>19, <2>1, <2>2, <2>3 DEF Parts
    <2>5. Asks(heap', join', ts, d)
      <3>1. ts # <<>> /\ d = <<>> => ~join.once
        BY <1>7, <1>8, <1>15
      <3>2. ts # <<>> => next \in ToSet(ts)
        BY <1>15, <2>1, BackOfChain DEF Apart, FirstOr
      <3>3. ts # <<>> => next # cur
        BY <1>15, <3>2
      <3>4. DOMAIN heap' \subseteq DOMAIN h1
        BY <1>8, <1>15, <2>1 DEF Apart
      <3>5. d = <<>> => Gone(heap', join')
        BY <1>8, <1>14, <1>16, <3>4 DEF Gone
      <3>. QED BY <1>14, <1>19, <3>1, <3>3, <3>5 DEF Asks
    <2>. QED BY <2>4, <2>5, Zenon DEF Joining
  <1>20. ASSUME ~drop PROVE Joining("loop", heap', head', join')
    <2>1. Apart(heap', p, e, s, d) /\ head' = head /\ join'.ns = FirstOr(s, NULL)
      BY <1>2, <1>5, <1>8, <1>14, <1>20 DEF FirstOr, cur
    <2>2. Parts(heap', head', join', p, e, s, d)
      BY <1>2, <1>3, <1>14, <1>17, <1>18, <2>1 DEF Parts, ts
    <2>3. d # <<>>
      BY <1>7, <1>8, <1>15, <1>20
    <2>4. Asks(heap', join', s, d)
      BY <2>3 DEF Asks
    <2>. QED BY <2>2, <2>4, Zenon DEF Joining
  <1>21. Joining("loop", heap', head', join')
    BY <1>19, <1>20
  <1>22. Typed'
    BY <1>1, <1>13, TypedKept DEF IInv, Typed
  <1>23. Memory'
    BY <1>1, <1>21, MemoryJoining DEF IInv, InLoop, input
  <1>. QED BY <1>22, <1>23 DEF IInv

(* A join that ends with an error or a crash.                              *)
LEMMA JoinFailsInv == IInv /\ (OutOfMemory \/ CopyFails \/ JoinCrash) => IInv'
  <1>. SUFFICES ASSUME IInv, OutOfMemory \/ CopyFails \/ JoinCrash PROVE IInv'
    OBVIOUS
  <1>1. pc = "match" /\ InLoop
    BY DEF OutOfMemory, CopyFails, JoinCrash, Paired, InLoop
  <1>2. CASE OutOfMemory
    <2>1. PICK p, e, s, r : Parts(heap, head, join, p, e, s, r) /\ s # <<>> /\ r # <<>>
      BY <1>1, Zenon DEF IInv, Memory, Joining
    <2>2. curTupleJoin = r[1]
      BY <2>1 DEF Parts, FirstOr, curTupleJoin
    <2>3. out_error(r[1], "memory")
      BY <1>2, <2>2 DEF OutOfMemory
    <2>. QED BY <1>1, <2>1, <2>3, ErrorInv
  <1>3. CASE CopyFails \/ JoinCrash
    <2>1. Crash("copy") \/ Crash("hole")
      BY <1>3 DEF CopyFails, JoinCrash
    <2>. QED BY <1>1, <2>1, CrashInv
  <1>. QED BY <1>2, <1>3

-------------------------------------------------------------------------------
(* The end of an execution, and the way to the other layer.                *)

(* onQueryCompleted, or a message that could not be sent.                  *)
LEMMA EndsInv == IInv /\ (onQueryCompleted \/ SendFails) => IInv'
  <1>. SUFFICES ASSUME IInv, onQueryCompleted \/ SendFails PROVE IInv'
    OBVIOUS
  <1>1. /\ pc \in {"run", "send"} /\ pc' = "done"
        /\ heap' = freeTupel(heap, ToSet(List(heap, head)))
        /\ UNCHANGED <<input, counter, steps, layer, join, wire, hops>>
    BY DEF onQueryCompleted, SendFails, HandedOver, Goto
  <1>2. DOMAIN heap' = {}
    BY <1>1, OneListTheorem DEF IInv, Memory
  <1>3. Memory'
    BY <1>1, <1>2 DEF Memory, InLoop, Closed
  <1>4. Typed'
    BY <1>1, TypedKept DEF IInv, Typed
  <1>. QED BY <1>3, <1>4 DEF IInv

(* Every operator was applied, the query is the other layer's.             *)
LEMMA HandOverInv == IInv /\ HandOver => IInv'
  <1>. SUFFICES ASSUME IInv, HandOver PROVE IInv'
    OBVIOUS
  <1>1. /\ pc = "run" /\ pc' = "send" /\ steps' = -1
        /\ UNCHANGED <<input, heap, head, counter, layer, join, wire, hops>>
    BY DEF HandOver
  <1>2. Memory'
    BY <1>1 DEF IInv, Memory, InLoop
  <1>3. Typed'
    BY <1>1, TypedKept DEF IInv, Typed
  <1>. QED BY <1>2, <1>3 DEF IInv

(* The steps as they arrive.                                               *)
LEMMA StepsOnTheWire ==
  ASSUME NEW n \in Nat, NEW k \in {-1, UShort - 1} \cup 0 .. n
  PROVE  k % UShort \in {UShort - 1} \cup 0 .. n
  <1>1. CASE k = -1
    <2>1. ASSUME NEW j \in Int, j < 0, j >= -65536 PROVE j % 65536 = j + 65536
      BY <2>1
    <2>2. k \in Int /\ k < 0 /\ k >= -65536 /\ k + 65536 = 65535
      BY <1>1
    <2>3. k % 65536 = 65535
      BY <2>1, <2>2
    <2>. QED BY <2>3 DEF UShort
  <1>2. CASE k \in Nat
    BY <1>2 DEF UShort
  <1>. QED BY <1>1, <1>2 DEF UShort

(* The tuples are copied to the message and freed.                         *)
LEMMA SendInv == IInv /\ sendQueryContinue => IInv'
  <1>. SUFFICES ASSUME IInv, sendQueryContinue PROVE IInv'
    OBVIOUS
  <1>. DEFINE list == List(heap, head)
              tuples == Contents(list)
  <1>1. /\ pc = "send" /\ pc' = "wire" /\ hops < MaxHops /\ hops' = hops + 1
        /\ heap' = freeTupel(heap, ToSet(list))
        /\ wire' = [steps |-> steps % UShort, tuples |-> tuples]
        /\ UNCHANGED <<input, counter, steps, layer, join>>
    BY DEF sendQueryContinue, HandedOver, Goto
  <1>2. DOMAIN heap' = {} /\ list # <<>> /\ list \in Seq(DOMAIN heap)
    BY <1>1, OneListTheorem DEF IInv, Memory
  <1>. HIDE DEF list
  <1>3. IsSequence(tuples) /\ tuples # <<>>
    <2>. DEFINE copy(t) == copyAndCollectTupel(heap, t)
    <2>1. tuples = [k \in 1 .. Len(list) |-> copy(list[k])] /\ Len(list) \in Nat
      BY <1>2 DEF Contents
    <2>2. Len(list) # 0
      BY <1>2, EmptySequence
    <2>. HIDE DEF copy, tuples
    <2>3. tuples \in Seq({copy(list[k]) : k \in 1 .. Len(list)}) /\ Len(tuples) = Len(list)
      BY <2>1
    <2>4. tuples # <<>>
      BY <2>2, <2>3
    <2>. QED BY <2>3, <2>4, SequenceIsOne
  <1>. HIDE DEF tuples
  <1>4. Len(query) \in Nat
    <2>1. IsSequence(query)
      BY ExecutionAssumption DEF IInv, Typed
    <2>. QED BY <2>1 DEF IsSequence
  <1>5. wire'.steps \in {UShort - 1} \cup 0 .. Len(query)
    BY <1>1, <1>4, StepsOnTheWire DEF IInv, Typed
  <1>6. Memory'
    <2>1. query' = query
      BY <1>1 DEF input
    <2>. QED BY <1>1, <1>2, <1>3, <1>5, <2>1 DEF Memory, InLoop
  <1>7. Typed'
    <2>1. hops' \in 0 .. MaxHops
      BY <1>1, ExecutionAssumption DEF IInv, Typed
    <2>. QED BY <1>1, <2>1, TypedKept DEF IInv, Typed
  <1>. QED BY <1>6, <1>7 DEF IInv

(* They are a list of their own in the other layer.                        *)
LEMMA ReceiveInv == IInv /\ ReceiveContinue => IInv'
  <1>. SUFFICES ASSUME IInv, ReceiveContinue PROVE IInv'
    OBVIOUS
  <1>1. /\ pc = "wire" /\ pc' = "run" /\ layer' = Peer(layer)
        /\ heap' = NewList(heap, wire.tuples) /\ head' = Beyond(heap)
        /\ steps' = wire.steps /\ counter' = Min({wire.steps, Len(query)})
        /\ UNCHANGED <<input, join, hops>>
    BY DEF ReceiveContinue
  <1>2. /\ DOMAIN heap = {} /\ IsSequence(wire.tuples) /\ wire.tuples # <<>>
        /\ wire.steps \in {UShort - 1} \cup 0 .. Len(query)
    BY <1>1 DEF IInv, Memory
  <1>3. Len(query) \in Nat
    <2>1. IsSequence(query)
      BY ExecutionAssumption DEF IInv, Typed
    <2>. QED BY <2>1 DEF IsSequence
  <1>4. OneList(heap', head')
    <2>1. Heap(heap)
      BY <1>2, FS_EmptySet DEF Heap
    <2>. QED BY <1>1, <1>2, <2>1, NewListIsOne
  <1>5. counter' \in 0 .. Len(query)
    <2>. DEFINE S == {wire.steps, Len(query)}
    <2>1. S \in SUBSET Nat /\ S # {}
      BY <1>2, <1>3 DEF UShort
    <2>. HIDE DEF S
    <2>2. Min(S) \in S /\ \A x \in S : Min(S) <= x
      BY <2>1, MinTheorem
    <2>3. Min(S) \in Nat /\ Min(S) <= Len(query)
      BY <2>1, <2>2 DEF S
    <2>. QED BY <1>1, <1>3, <2>3 DEF S
  <1>6. Memory'
    BY <1>1, <1>4 DEF Memory, InLoop
  <1>7. Typed'
    <2>1. layer' \in Layers
      BY <1>1 DEF Peer, Layers
    <2>2. steps' \in {-1, UShort - 1} \cup 0 .. Len(query)
      BY <1>1, <1>2
    <2>. QED BY <1>1, <1>5, <2>1, <2>2, TypedKept DEF IInv, Typed
  <1>. QED BY <1>6, <1>7 DEF IInv

(* They are not delivered.                                                 *)
LEMMA ReceiveFailsInv == IInv /\ ReceiveFails => IInv'
  <1>. SUFFICES ASSUME IInv, ReceiveFails PROVE IInv'
    OBVIOUS
  <1>1. /\ pc = "wire" /\ pc' = "done"
        /\ UNCHANGED <<input, heap, counter, steps, layer, join, hops>>
    BY DEF ReceiveFails, Goto
  <1>2. Memory'
    BY <1>1 DEF IInv, Memory, InLoop, Closed
  <1>3. Typed'
    BY <1>1, TypedKept DEF IInv, Typed
  <1>. QED BY <1>2, <1>3 DEF IInv

-------------------------------------------------------------------------------
(* The block of a query.                                                   *)

(* What checkQuerySyntax accepts, as far as the block depends on it.       *)
Query(ops) ==
  /\ Len(ops) \in Nat \ {0} /\ DOMAIN ops = 1 .. Len(ops)
  /\ \A k \in 1 .. Len(ops) :
       ops[k].type \in GenTypes \cup WithPredicates \cup WithElements /\ ops[k].len \in Nat

(* The parts of an operator have a size.  That of a GEN_* operator has no  *)
(* table whose pointers would have to be rewritten.                        *)
LEMMA BytesTheorem ==
  ASSUME NEW o, o.type \in GenTypes \cup WithPredicates \cup WithElements, o.len \in Nat
  PROVE  /\ OpSize(o) \in Nat /\ TableSize(o) \in Nat /\ EntrySize(o) \in Nat /\ Bytes(o) \in Nat
         /\ Rewritten(o) \/ TableSize(o) = 0
  <1>1. OpSize(o) \in Nat /\ TableSize(o) \in Nat /\ EntrySize(o) \in {2, 3, 4}
    BY DEF OpSize, TableSize, EntrySize
  <1>2. o.len * EntrySize(o) \in Nat
    BY <1>1
  <1>3. Bytes(o) \in Nat
    BY <1>1, <1>2 DEF Bytes
  <1>4. Rewritten(o) \/ TableSize(o) = 0
    BY DEF Rewritten, TableSize
  <1>. QED BY <1>1, <1>3, <1>4

(* s[k] is the size of the query with its first k operators.               *)
Sizes(ops, n, s) ==
  s \in [0 .. n -> Nat] /\ s[0] = QuerySize /\ \A k \in 1 .. n : s[k] = s[k - 1] + Bytes(ops[k])

LEMMA SizesExist ==
  ASSUME NEW ops, Query(ops)
  PROVE  \E s : Sizes(ops, Len(ops), s)
  <1>. DEFINE N == Len(ops)
              T == {n \in Nat : n <= N => \E s : Sizes(ops, n, s)}
  <1>1. N \in Nat
    BY DEF Query
  <1>2. 0 \in T
    <2>1. Sizes(ops, 0, [k \in 0 .. 0 |-> QuerySize])
      BY DEF Sizes, QuerySize
    <2>. QED BY <2>1
  <1>3. ASSUME NEW n \in Nat, n \in T PROVE n + 1 \in T
    <2>1. SUFFICES ASSUME n + 1 <= N PROVE \E s : Sizes(ops, n + 1, s)
      OBVIOUS
    <2>2. PICK s : Sizes(ops, n, s)
      BY <1>1, <1>3, <2>1
    <2>3. Bytes(ops[n + 1]) \in Nat /\ s[n] \in Nat
      <3>1. n + 1 \in 1 .. Len(ops)
        BY <1>1, <2>1
      <3>2. Bytes(ops[n + 1]) \in Nat
        BY <3>1, BytesTheorem DEF Query
      <3>. QED BY <2>2, <3>2 DEF Sizes
    <2>. DEFINE more == [k \in 0 .. n + 1 |-> IF k = n + 1 THEN s[n] + Bytes(ops[n + 1]) ELSE s[k]]
    <2>4. more \in [0 .. n + 1 -> Nat] /\ more[0] = QuerySize
      BY <2>2, <2>3 DEF Sizes
    <2>5. ASSUME NEW k \in 1 .. n + 1 PROVE more[k] = more[k - 1] + Bytes(ops[k])
      <3>1. CASE k = n + 1
        BY <3>1
      <3>2. CASE k # n + 1
        <4>1. k \in 1 .. n /\ k \in 0 .. n + 1 /\ k - 1 \in 0 .. n + 1 /\ k - 1 # n + 1
          BY <3>2
        <4>2. more[k] = s[k] /\ more[k - 1] = s[k - 1]
          BY <3>2, <4>1
        <4>. QED BY <2>2, <4>1, <4>2 DEF Sizes
      <3>. QED BY <3>1, <3>2
    <2>. HIDE DEF more
    <2>. QED BY <2>4, <2>5 DEF Sizes
  <1>4. N \in T
    <2>. HIDE DEF T
    <2>. QED BY <1>1, <1>2, <1>3, Induction
  <1>. QED BY <1>4

(* calcQuerySize computes the last of them.                                *)
LEMMA SizeTheorem ==
  ASSUME NEW ops, Query(ops), NEW s, Sizes(ops, Len(ops), s)
  PROVE  calcQuerySize(ops) = s[Len(ops)]
  <1>. DEFINE N == Len(ops)
              Body(f, k) == IF k = 0 THEN QuerySize ELSE f[k - 1] + Bytes(ops[k])
              F == CHOOSE f : f = [k \in 0 .. N |-> Body(f, k)]
  <1>1. N \in Nat
    BY DEF Query
  <1>2. \A k \in 0 .. N : s[k] = Body(s, k)
    BY <1>1 DEF Sizes
  <1>3. s = [k \in 0 .. N |-> Body(s, k)]
    <2>. HIDE DEF Body
    <2>. QED BY <1>2 DEF Sizes
  <1>4. F = [k \in 0 .. N |-> Body(F, k)]
    <2>. HIDE DEF Body
    <2>. QED BY <1>3, Zenon
  <1>5. calcQuerySize(ops) = F[N]
    BY Zenon DEF calcQuerySize
  <1>. HIDE DEF F
  <1>. DEFINE T == {n \in Nat : n <= N => F[n] = s[n]}
  <1>6. 0 \in T
    BY <1>1, <1>4 DEF Sizes
  <1>7. ASSUME NEW n \in Nat, n \in T PROVE n + 1 \in T
    <2>1. SUFFICES ASSUME n + 1 <= N PROVE F[n + 1] = s[n + 1]
      OBVIOUS
    <2>2. n + 1 \in 0 .. N /\ n + 1 \in 1 .. N /\ n + 1 # 0 /\ (n + 1) - 1 = n /\ n <= N
      BY <1>1, <2>1
    <2>3. F[n + 1] = F[n] + Bytes(ops[n + 1])
      BY <1>4, <2>2
    <2>4. s[n + 1] = s[n] + Bytes(ops[n + 1])
      BY <2>2 DEF Sizes
    <2>. QED BY <1>7, <2>2, <2>3, <2>4
  <1>8. N \in T
    <2>. HIDE DEF T
    <2>. QED BY <1>1, <1>6, <1>7, Induction
  <1>. QED BY <1>1, <1>5, <1>8

(* copyAndCollectQuery lays the operators out at these distances from the  *)
(* beginning of the block.                                                 *)
LEMMA PlacesTheorem ==
  ASSUME NEW ops, Query(ops), NEW s, Sizes(ops, Len(ops), s), NEW base \in Nat
  PROVE  copyAndCollectQuery(ops, base) =
           [root |-> base + s[0], end |-> base + s[Len(ops)],
            operators |-> [k \in 1 .. Len(ops) |->
              copyOperatorAdjacent(ops[k], base + s[k - 1], IF k = Len(ops) THEN 0 ELSE base + s[k])]]
  <1>. DEFINE N == Len(ops)
              Body(f, k) == IF k = 1 THEN base + QuerySize ELSE f[k - 1] + Bytes(ops[k - 1])
              F == CHOOSE f : f = [k \in 1 .. N + 1 |-> Body(f, k)]
              g == [k \in 1 .. N + 1 |-> base + s[k - 1]]
  <1>1. N \in Nat \ {0} /\ DOMAIN ops = 1 .. N /\ \A k \in 1 .. N : Bytes(ops[k]) \in Nat
    BY BytesTheorem DEF Query
  <1>2. ASSUME NEW k \in 1 .. N + 1 PROVE g[k] = Body(g, k)
    <2>1. CASE k = 1
      BY <1>1, <2>1 DEF Sizes
    <2>2. CASE k # 1
      <3>1. k - 1 \in 1 .. N /\ k - 1 \in 1 .. N + 1 /\ k - 1 \in 0 .. N /\ (k - 1) - 1 \in 0 .. N
        BY <1>1, <2>2
      <3>2. s[k - 1] = s[(k - 1) - 1] + Bytes(ops[k - 1]) /\ s[(k - 1) - 1] \in Nat
        BY <3>1 DEF Sizes
      <3>3. g[k] = base + s[k - 1] /\ g[k - 1] = base + s[(k - 1) - 1]
        BY <3>1
      <3>. HIDE DEF g
      <3>. QED BY <1>1, <2>2, <3>1, <3>2, <3>3
    <2>. QED BY <2>1, <2>2
  <1>3. g = [k \in 1 .. N + 1 |-> Body(g, k)]
    <2>. HIDE DEF Body
    <2>. QED BY <1>2
  <1>4. F = [k \in 1 .. N + 1 |-> Body(F, k)]
    <2>. HIDE DEF Body, g
    <2>. QED BY <1>3, Zenon
  <1>5. copyAndCollectQuery(ops, base) =
          [root |-> F[1], end |-> F[N + 1],
           operators |-> [k \in DOMAIN ops |->
             copyOperatorAdjacent(ops[k], F[k], IF k = N THEN 0 ELSE F[k + 1])]]
    BY Zenon DEF copyAndCollectQuery
  <1>. HIDE DEF F
  <1>. DEFINE T == {n \in Nat : n <= N => F[n + 1] = base + s[n]}
  <1>6. 0 \in T
    <2>1. F[1] = base + QuerySize
      BY <1>1, <1>4
    <2>. QED BY <2>1 DEF Sizes
  <1>7. ASSUME NEW n \in Nat, n \in T PROVE n + 1 \in T
    <2>1. SUFFICES ASSUME n + 1 <= N PROVE F[(n + 1) + 1] = base + s[n + 1]
      OBVIOUS
    <2>2. /\ (n + 1) + 1 \in 1 .. N + 1 /\ (n + 1) + 1 # 1 /\ ((n + 1) + 1) - 1 = n + 1
          /\ n + 1 \in 1 .. N /\ (n + 1) - 1 = n /\ n \in 0 .. N /\ n <= N
      BY <1>1, <2>1
    <2>3. F[(n + 1) + 1] = F[n + 1] + Bytes(ops[n + 1])
      BY <1>4, <2>2
    <2>4. s[n + 1] = s[n] + Bytes(ops[n + 1]) /\ s[n] \in Nat /\ Bytes(ops[n + 1]) \in Nat
      BY <1>1, <2>2 DEF Sizes
    <2>. QED BY <1>7, <2>2, <2>3, <2>4
  <1>8. ASSUME NEW n \in 0 .. N PROVE F[n + 1] = base + s[n]
    <2>. HIDE DEF T
    <2>1. n \in T
      BY <1>1, <1>6, <1>7, Induction
    <2>. QED BY <1>1, <2>1 DEF T
  <1>9. F[1] = base + s[0] /\ F[N + 1] = base + s[N]
    <2>1. 0 \in 0 .. N /\ N \in 0 .. N /\ 0 + 1 = 1
      BY <1>1
    <2>. QED BY <1>8, <2>1
  <1>10. ASSUME NEW k \in 1 .. N
         PROVE  F[k] = base + s[k - 1] /\ (k # N => F[k + 1] = base + s[k])
    <2>1. k - 1 \in 0 .. N /\ (k - 1) + 1 = k /\ k \in 0 .. N
      BY <1>1
    <2>. QED BY <1>8, <2>1
  <1>11. ASSUME NEW k \in 1 .. N
         PROVE  copyOperatorAdjacent(ops[k], F[k], IF k = N THEN 0 ELSE F[k + 1]) =
                copyOperatorAdjacent(ops[k], base + s[k - 1], IF k = N THEN 0 ELSE base + s[k])
    <2>1. F[k] = base + s[k - 1]
      BY <1>10
    <2>2. (IF k = N THEN 0 ELSE F[k + 1]) = (IF k = N THEN 0 ELSE base + s[k])
      BY <1>10
    <2>. QED BY <2>1, <2>2, Zenon
  <1>12. [k \in DOMAIN ops |-> copyOperatorAdjacent(ops[k], F[k], IF k = N THEN 0 ELSE F[k + 1])] =
         [k \in 1 .. N |->
           copyOperatorAdjacent(ops[k], base + s[k - 1], IF k = N THEN 0 ELSE base + s[k])]
    BY <1>1, <1>11, Zenon
  <1>. QED BY <1>5, <1>9, <1>12, Zenon

(* A block is as large as it was calculated to be, and rewriting its       *)
(* addresses makes of it the block that would have been laid out there.    *)
LEMMA BlockTheorem ==
  ASSUME NEW ops, Query(ops), NEW old \in Nat \ {0}, NEW new \in Nat \ {0}
  PROVE  BlockIsQuery(ops, old, new)
  <1>. DEFINE N == Len(ops)
              Part(base, s, k) ==
                copyOperatorAdjacent(ops[k], base + s[k - 1], IF k = N THEN 0 ELSE base + s[k])
              Block(base, s) ==
                [root |-> base + s[0], end |-> base + s[N],
                 operators |-> [k \in 1 .. N |-> Part(base, s, k)]]
              Rewrite(ptr) == (ptr - old) + new
              Moved(o, operator) ==
                [child |-> IF o.child = 0 THEN 0 ELSE Rewrite(o.child), array |-> Rewrite(o.array),
                 entry |-> IF Rewritten(operator) THEN [i \in DOMAIN o.entry |-> Rewrite(o.entry[i])]
                           ELSE o.entry]
  <1>1. N \in Nat \ {0} /\ DOMAIN ops = 1 .. N
    BY DEF Query
  <1>2. PICK s : Sizes(ops, N, s)
    BY SizesExist
  <1>3. copyAndCollectQuery(ops, old) = Block(old, s) /\ copyAndCollectQuery(ops, new) = Block(new, s)
    BY <1>2, PlacesTheorem
  <1>4. \A k \in 0 .. N : s[k] \in Nat
    BY <1>2 DEF Sizes
  <1>5. Block(old, s).end - old = calcQuerySize(ops)
    <2>1. s[N] \in Nat
      BY <1>1, <1>4
    <2>2. Block(old, s).end = old + s[N]
      OBVIOUS
    <2>. QED BY <1>2, <2>1, <2>2, SizeTheorem
  <1>6. ASSUME NEW k \in 1 .. N PROVE Moved(Part(old, s, k), ops[k]) = Part(new, s, k)
    <2>. DEFINE o == ops[k]
                a == s[k - 1]
                c == IF k = N THEN 0 ELSE s[k]
                Entry(base, i) == base + a + OpSize(o) + TableSize(o) + (i - 1) * EntrySize(o)
    <2>1. a \in Nat /\ s[k] \in Nat
      <3>1. k - 1 \in 0 .. N /\ k \in 0 .. N
        BY <1>1
      <3>. QED BY <1>4, <3>1
    <2>2. /\ OpSize(o) \in Nat /\ TableSize(o) \in Nat /\ EntrySize(o) \in Nat
          /\ Rewritten(o) \/ TableSize(o) = 0
      BY BytesTheorem DEF Query
    <2>. HIDE DEF o, a
    <2>3. ASSUME NEW base \in Nat
          PROVE  Part(base, s, k) =
                   [child |-> IF k = N THEN 0 ELSE base + s[k], array |-> base + a + OpSize(o),
                    entry |-> [i \in 1 .. TableSize(o) |-> Entry(base, i)]]
      BY DEF copyOperatorAdjacent, o, a
    <2>4. ASSUME NEW i \in 1 .. TableSize(o) PROVE Rewrite(Entry(old, i)) = Entry(new, i)
      <3>1. i - 1 \in Nat
        BY <2>2
      <3>2. (i - 1) * EntrySize(o) \in Nat
        BY <2>2, <3>1
      <3>. DEFINE d == (i - 1) * EntrySize(o)
      <3>. HIDE DEF d
      <3>3. (((old + a) + OpSize(o) + TableSize(o) + d) - old) + new
              = (new + a) + OpSize(o) + TableSize(o) + d
        BY <2>1, <2>2, <3>2 DEF d
      <3>. QED BY <3>3 DEF d
    <2>5. Rewrite(old + a + OpSize(o)) = new + a + OpSize(o)
      BY <2>1, <2>2
    <2>6. k # N => old + s[k] # 0 /\ Rewrite(old + s[k]) = new + s[k]
      BY <2>1
    <2>7. (IF Rewritten(o) THEN [i \in 1 .. TableSize(o) |-> Rewrite(Entry(old, i))]
           ELSE [i \in 1 .. TableSize(o) |-> Entry(old, i)])
            = [i \in 1 .. TableSize(o) |-> Entry(new, i)]
      <3>. HIDE DEF Rewrite, Entry
      <3>1. CASE Rewritten(o)
        BY <2>4, <3>1
      <3>2. CASE ~Rewritten(o)
        <4>1. 1 .. TableSize(o) = {}
          BY <2>2, <3>2
        <4>. QED BY <3>2, <4>1
      <3>. QED BY <3>1, <3>2
    <2>. HIDE DEF Rewrite, Entry, Part
    <2>8. Moved(Part(old, s, k), o) = Part(new, s, k)
      <3>. DEFINE p == Part(old, s, k)
      <3>1. p = [child |-> IF k = N THEN 0 ELSE old + s[k], array |-> old + a + OpSize(o),
                 entry |-> [i \in 1 .. TableSize(o) |-> Entry(old, i)]]
        BY <2>3
      <3>. HIDE DEF p
      <3>2. (IF p.child = 0 THEN 0 ELSE Rewrite(p.child)) = IF k = N THEN 0 ELSE new + s[k]
        BY <2>6, <3>1
      <3>3. Rewrite(p.array) = new + a + OpSize(o)
        BY <2>5, <3>1
      <3>4. [i \in DOMAIN p.entry |-> Rewrite(p.entry[i])]
              = [i \in 1 .. TableSize(o) |-> Rewrite(Entry(old, i))]
        BY <3>1
      <3>5. Moved(p, o) = [child |-> IF k = N THEN 0 ELSE new + s[k], array |-> new + a + OpSize(o),
                           entry |-> [i \in 1 .. TableSize(o) |-> Entry(new, i)]]
        BY <2>7, <3>1, <3>2, <3>3, <3>4, Zenon
      <3>. QED BY <2>3, <3>5 DEF p
    <2>. QED BY <2>8 DEF o
  <1>7. rewriteQueryAddress(ops, Block(old, s), old, new) = Block(new, s)
    <2>1. s[0] \in Nat /\ s[N] \in Nat
      BY <1>1, <1>4
    <2>2. Rewrite(old + s[0]) = new + s[0] /\ Rewrite(old + s[N]) = new + s[N]
      BY <2>1
    <2>. DEFINE o == [k \in 1 .. N |-> Part(old, s, k)]
    <2>3. rewriteQueryAddress(ops, Block(old, s), old, new) =
            [root |-> Rewrite(old + s[0]), end |-> Rewrite(old + s[N]),
             operators |-> [k \in DOMAIN ops |-> Moved(o[k], ops[k])]]
      BY DEF rewriteQueryAddress
    <2>4. \A k \in 1 .. N : o[k] = Part(old, s, k)
      OBVIOUS
    <2>. HIDE DEF o, Moved, Part, Rewrite
    <2>5. [k \in DOMAIN ops |-> Moved(o[k], ops[k])] = [k \in 1 .. N |-> Part(new, s, k)]
      BY <1>1, <1>6, <2>4
    <2>. QED BY <2>2, <2>3, <2>5
  <1>. HIDE DEF Block
  <1>. QED BY <1>3, <1>5, <1>7 DEF BlockIsQuery

(* The query that is executed is one that was accepted.                    *)
LEMMA AcceptedQuery ==
  ASSUME Typed
  PROVE  Query(Whole(query))
  <1>. DEFINE w == Whole(query)
  <1>1. /\ Len(query) \in Nat /\ Len(w) = Len(query) + 1 /\ DOMAIN w = 1 .. Len(w) /\ w[1] = Origin
        /\ \A k \in 1 .. Len(query) : w[k + 1].len \in Nat
    BY WholeTheorem
  <1>2. checkQuerySyntax(NodeType, w)
    BY DEF Typed
  <1>. HIDE DEF w
  <1>3. ASSUME NEW k \in 1 .. Len(w)
        PROVE  w[k].type \in GenTypes \cup WithPredicates \cup WithElements
    BY <1>1, <1>2 DEF checkQuerySyntax, OperatorOk
  <1>4. ASSUME NEW k \in 1 .. Len(w) PROVE w[k].len \in Nat
    <2>1. CASE k = 1
      BY <1>1, <2>1, ExecutionAssumption
    <2>2. CASE k # 1
      <3>1. k - 1 \in 1 .. Len(query) /\ (k - 1) + 1 = k
        BY <1>1, <2>2
      <3>. QED BY <1>1, <3>1
    <2>. QED BY <2>1, <2>2
  <1>5. Len(w) \in Nat \ {0}
    BY <1>1
  <1>. QED BY <1>1, <1>3, <1>4, <1>5 DEF Query, w

-------------------------------------------------------------------------------
(* The theorems.                                                           *)

(* Every step preserves the invariant.                                     *)
LEMMA NextInv == IInv /\ [Next]_vars => IInv'
  <1>. SUFFICES ASSUME IInv, [Next]_vars PROVE IInv'
    OBVIOUS
  <1>1. CASE Operator
    BY <1>1, FilterInv, SelectInv, NotImplementedInv DEF Operator
  <1>2. CASE doJoin
    BY <1>2, JoinStartsInv, LoopInv, JoinEndInv, NoSelectorsInv, RetrieveInv, MergeInv,
       NoMatchInv, JoinFailsInv DEF doJoin
  <1>3. CASE Transfer
    BY <1>3, EndsInv, HandOverInv, SendInv, ReceiveInv, ReceiveFailsInv DEF Transfer
  <1>4. CASE UNCHANGED vars
    BY <1>4 DEF IInv, Typed, Memory, InLoop, op, vars, input, executor
  <1>. QED BY <1>1, <1>2, <1>3, <1>4 DEF Next

(* The inductive invariant: between two operators all that is in memory is *)
(* one list, in doJoin three chains that share no tuple.                   *)
THEOREM InductiveInvariant == Spec => []IInv
  BY InitInv, NextInv, PTL DEF Spec

(* The counters stay in their bounds and no tuple is linked to memory that *)
(* is not in use.                                                          *)
THEOREM TypeCorrect == Spec => []TypeOK
  BY InductiveInvariant, InvImplies, PTL

(* No join compares or merges a tuple that was freed, the execution        *)
(* crashes only where it is known to, and when it is over nothing stays in *)
(* memory, unless a node was gone or a join had unlinked its stream.       *)
THEOREM MemorySafety == Spec => []MemorySafe
  BY InductiveInvariant, InvImplies, PTL

(* The other layer can execute the query as it was registered: whatever    *)
(* operators it has, and as many, its block has the size that is allocated *)
(* for it, and every pointer in it, rewritten, leads where it has to.      *)
THEOREM CompactIsQuery == Spec => []CompactQueryIsQuery
  <1>1. IInv => CompactQueryIsQuery
    <2>. SUFFICES ASSUME IInv PROVE CompactQueryIsQuery
      OBVIOUS
    <2>1. Query(Whole(query))
      BY AcceptedQuery DEF IInv
    <2>2. BlockIsQuery(Whole(query), 100, 5000)
      BY <2>1, BlockTheorem
    <2>. QED BY <2>2 DEF CompactQueryIsQuery
  <1>. QED BY <1>1, InductiveInvariant, PTL
===============================================================================
