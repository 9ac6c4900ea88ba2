--------------------------- MODULE Datamodel_proofs ---------------------------
(***************************************************************************)
(* IInv of DatamodelInvariant is inductive, so that for any trees that     *)
(* pass checkDataModelSyntax, of any shape and depth, the datamodel is the *)
(* union of the registered ones.  First the order of paths and how the     *)
(* walks go through a tree: where the cursor turns, what it has passed.    *)
(* Then the types, which the trees alone guarantee, and last what a step   *)
(* of the merge and of the deletion changes of what stands for a provider. *)
(***************************************************************************)
EXTENDS DatamodelInvariant, FiniteSetTheorems, WellFoundedInduction, TLAPS

-----------------------------------------------------------------------------
(* Min and Max.                                                            *)

(* A set of naturals has a least element, by well-founded induction.       *)
LEMMA LeastExists == ASSUME NEW S \in SUBSET Nat, S # {} PROVE \E m \in S : \A n \in S : m <= n
  <1> DEFINE R == StrictSubsetOrdering(Nat)
             F == FiniteSubsetsOf(Nat)
             T == {1 .. n : n \in S}
  <1>1. T \subseteq F /\ T # {}
    <2>1. \A n \in S : 1 .. n \in SUBSET Nat /\ IsFiniteSet(1 .. n) BY FS_Interval
    <2>. QED BY <2>1 DEF FiniteSubsetsOf
  <1>2. PICK x \in T : \A y \in T : ~ (<<y, x>> \in R)
    <2>1. IsWellFoundedOn(R, F) BY FS_StrictSubsetOrderingWellFounded
    <2>. HIDE DEF R, F, T
    <2>. QED BY <2>1, <1>1, WFMin
  <1>3. PICK m \in S : x = 1 .. m OBVIOUS
  <1>4. ASSUME NEW n \in S PROVE m <= n
    <2>1. SUFFICES ASSUME n < m PROVE FALSE OBVIOUS
    <2>2. 1 .. n \subseteq 1 .. m /\ 1 .. n # 1 .. m
      <3>1. m \in 1 .. m /\ m \notin 1 .. n BY <2>1
      <3>. QED BY <2>1, <3>1
    <2>3. <<1 .. n, 1 .. m>> \in R BY <2>2 DEF StrictSubsetOrdering
    <2>. QED BY <1>2, <1>3, <2>3
  <1>. QED BY <1>4

(* Min is it.                                                              *)
LEMMA MinLeast == ASSUME NEW S \in SUBSET Nat, S # {} PROVE Min(S) \in S /\ \A n \in S : Min(S) <= n
  BY LeastExists, Zenon DEF Min

(* Max of a bounded set of naturals is its greatest element.               *)
LEMMA MaxGreatest ==
  ASSUME NEW N \in Nat, NEW S \in SUBSET (0 .. N), S # {}
  PROVE  Max(S) \in S /\ \A n \in S : n <= Max(S)
  <1> DEFINE T == {N - n : n \in S}
  <1>1. T \in SUBSET Nat /\ T # {}
    <2>1. \A n \in S : N - n \in Nat OBVIOUS
    <2>2. \A k \in T : k \in Nat BY <2>1
    <2>. QED BY <2>2
  <1>2. PICK k \in T : \A j \in T : k <= j BY <1>1, LeastExists, Zenon
  <1>3. PICK m \in S : k = N - m BY <1>2, Zenon
  <1>4. \A n \in S : m >= n
    <2>1. TAKE n \in S
    <2>2. N - m <= N - n BY <1>2, <1>3
    <2>. QED BY <2>2
  <1>5. Max(S) \in S /\ \A n \in S : Max(S) >= n BY <1>4, Zenon DEF Max
  <1>. QED BY <1>5

-----------------------------------------------------------------------------
(* Paths.                                                                  *)

Path == Seq(Names)

(* Paths are equal when their names are.                                   *)
LEMMA PathEqual ==
  ASSUME NEW p \in Path, NEW q \in Path, Len(p) = Len(q), \A i \in 1 .. Len(p) : p[i] = q[i]
  PROVE  p = q
  BY DEF Path

(* The names on a path are positive numbers.                               *)
LEMMA PathElement ==
  ASSUME NEW p \in Path
  PROVE  /\ Len(p) \in Nat /\ DOMAIN p = 1 .. Len(p)
         /\ \A i \in 1 .. Len(p) : p[i] \in Names /\ p[i] \in Nat \ {0}
  <1>1. Len(p) \in Nat /\ DOMAIN p = 1 .. Len(p) /\ \A i \in 1 .. Len(p) : p[i] \in Names
    BY DEF Path
  <1>2. \A n \in Names : n \in Nat \ {0} BY NamesAssumption
  <1>. QED BY <1>1, <1>2

(* A path and one name more.                                               *)
LEMMA PathAppend ==
  ASSUME NEW p \in Path, NEW n \in Names
  PROVE  /\ Append(p, n) \in Path /\ Append(p, n) # <<>>
         /\ Len(Append(p, n)) = Len(p) + 1
         /\ Append(p, n)[Len(p) + 1] = n
         /\ \A i \in 1 .. Len(p) : Append(p, n)[i] = p[i]
  BY DEF Path

(* The beginning of a path is a path.                                      *)
LEMMA PathUpTo ==
  ASSUME NEW p \in Path, NEW k \in 0 .. Len(p)
  PROVE  /\ SubSeq(p, 1, k) \in Path /\ Len(SubSeq(p, 1, k)) = k
         /\ \A i \in 1 .. k : SubSeq(p, 1, k)[i] = p[i]
  BY DEF Path

(* The parent of a path, and its last name.                                *)
LEMMA PathFront ==
  ASSUME NEW p \in Path, p # <<>>
  PROVE  /\ Front(p) \in Path /\ Len(Front(p)) = Len(p) - 1 /\ Len(p) \in Nat \ {0}
         /\ \A i \in 1 .. Len(p) - 1 : Front(p)[i] = p[i]
         /\ Last(p) \in Names /\ p[Len(p)] = Last(p)
         /\ Front(p) = SubSeq(p, 1, Len(p) - 1)
  <1>1. Len(p) \in Nat \ {0} BY DEF Path
  <1>2. Len(p) - 1 \in 0 .. Len(p) BY <1>1
  <1>3. Last(p) \in Names BY <1>1, PathElement DEF Last
  <1>. QED BY <1>1, <1>2, <1>3, PathUpTo DEF Front, Last

(* The parent of a child.                                                  *)
LEMMA FrontAppend ==
  ASSUME NEW p \in Path, NEW n \in Names
  PROVE  Front(Append(p, n)) = p /\ Last(Append(p, n)) = n
  <1> DEFINE a == Append(p, n)
  <1>1. a \in Path /\ a # <<>> /\ Len(a) = Len(p) + 1 /\ a[Len(p) + 1] = n
        /\ \A i \in 1 .. Len(p) : a[i] = p[i] BY PathAppend
  <1>2. Len(p) \in Nat BY PathElement
  <1>. HIDE DEF a
  <1>3. Front(a) \in Path /\ Len(Front(a)) = Len(p) /\ \A i \in 1 .. Len(p) : Front(a)[i] = p[i]
    <2>1. Len(a) - 1 = Len(p) BY <1>1, <1>2
    <2>. QED BY <1>1, <2>1, PathFront
  <1>4. Front(a) = p BY <1>3, PathEqual
  <1>. QED BY <1>1, <1>4 DEF Last, a

(* A path is the child of its parent.                                      *)
LEMMA AppendFrontLast ==
  ASSUME NEW p \in Path, p # <<>>
  PROVE  Append(Front(p), Last(p)) = p
  <1> DEFINE f == Front(p)
             a == Append(f, Last(p))
  <1>1. f \in Path /\ Len(f) = Len(p) - 1 /\ Len(p) \in Nat \ {0} /\ Last(p) \in Names
        /\ p[Len(p)] = Last(p) /\ \A i \in 1 .. Len(p) - 1 : f[i] = p[i] BY PathFront
  <1>. HIDE DEF f
  <1>2. a \in Path /\ Len(a) = Len(f) + 1 /\ a[Len(f) + 1] = Last(p) /\ \A i \in 1 .. Len(f) : a[i] = f[i]
    BY <1>1, PathAppend
  <1>. HIDE DEF a
  <1>3. Len(a) = Len(p) BY <1>1, <1>2
  <1>4. \A i \in 1 .. Len(a) : a[i] = p[i]
    <2>1. TAKE i \in 1 .. Len(a)
    <2>2. i = Len(p) => a[i] = p[i] BY <1>1, <1>2
    <2>3. i # Len(p) => a[i] = p[i] BY <1>1, <1>2, <1>3
    <2>. QED BY <2>2, <2>3
  <1>5. a = p BY <1>1, <1>2, <1>3, <1>4, PathEqual
  <1>. QED BY <1>5 DEF a, f

(* IsPrefix, name by name.                                                 *)
LEMMA PrefixIs ==
  ASSUME NEW p \in Path, NEW q \in Path
  PROVE  IsPrefix(p, q) <=> Len(p) <= Len(q) /\ \A i \in 1 .. Len(p) : p[i] = q[i]
  <1>0. Len(p) \in Nat /\ Len(q) \in Nat BY PathElement
  <1>1. CASE Len(p) <= Len(q)
    <2> DEFINE a == SubSeq(p, 1, Len(p))
               b == SubSeq(q, 1, Len(p))
    <2>1. a \in Path /\ Len(a) = Len(p) /\ \A i \in 1 .. Len(p) : a[i] = p[i] BY <1>0, PathUpTo
    <2>2. b \in Path /\ Len(b) = Len(p) /\ \A i \in 1 .. Len(p) : b[i] = q[i]
      BY <1>0, <1>1, PathUpTo
    <2>. HIDE DEF a, b
    <2>3. a = b <=> \A i \in 1 .. Len(p) : p[i] = q[i]
      <3>1. ASSUME \A i \in 1 .. Len(p) : p[i] = q[i] PROVE a = b BY <2>1, <2>2, <3>1, PathEqual
      <3>2. ASSUME a = b PROVE \A i \in 1 .. Len(p) : p[i] = q[i] BY <2>1, <2>2, <3>2
      <3>. QED BY <3>1, <3>2
    <2>. QED BY <1>1, <2>3 DEF IsPrefix, a, b
  <1>2. CASE ~(Len(p) <= Len(q)) BY <1>2 DEF IsPrefix
  <1>. QED BY <1>1, <1>2

(* IsStrictPrefix, name by name.                                           *)
LEMMA StrictIs ==
  ASSUME NEW p \in Path, NEW q \in Path
  PROVE  IsStrictPrefix(p, q) <=> Len(p) < Len(q) /\ \A i \in 1 .. Len(p) : p[i] = q[i]
  <1>0. Len(p) \in Nat /\ Len(q) \in Nat BY PathElement
  <1>1. IsStrictPrefix(p, q) <=> IsPrefix(p, q) /\ p # q BY DEF IsStrictPrefix
  <1>2. IsPrefix(p, q) /\ Len(p) = Len(q) => p = q BY PrefixIs, PathEqual
  <1>. QED BY <1>0, <1>1, <1>2, PrefixIs

(* The place where a path branches off to the left of another.             *)
At(q, c, k) == k <= Len(q) /\ k <= Len(c) /\ q[k] < c[k] /\ \A i \in 1 .. k - 1 : q[i] = c[i]

LEMMA BeforeIs ==
  ASSUME NEW q \in Path, NEW c \in Path
  PROVE  Before(q, c) <=> \E k \in Nat \ {0} : At(q, c, k)
  <1>1. DOMAIN q = 1 .. Len(q) /\ DOMAIN c = 1 .. Len(c) /\ Len(q) \in Nat /\ Len(c) \in Nat
    BY PathElement
  <1>2. \A k : k \in DOMAIN q \cap DOMAIN c <=> k \in Nat \ {0} /\ k <= Len(q) /\ k <= Len(c)
    BY <1>1
  <1>. QED BY <1>2 DEF Before, At

(* A path is below itself and does not branch off from itself.             *)
LEMMA PrefixOfItself == ASSUME NEW q \in Path PROVE IsPrefix(q, q) /\ ~Before(q, q)
  <1>1. \A i \in 1 .. Len(q) : ~(q[i] < q[i]) BY PathElement
  <1>2. Len(q) \in Nat BY PathElement
  <1>. QED BY <1>1, <1>2, PrefixIs, BeforeIs DEF At

(* Paths above the same path are above one another.                        *)
LEMMA PrefixBoth ==
  ASSUME NEW p \in Path, NEW q \in Path, IsPrefix(p, q), IsPrefix(q, p)
  PROVE  p = q
  <1>1. Len(p) \in Nat /\ Len(q) \in Nat BY PathElement
  <1>. QED BY <1>1, PrefixIs, PathEqual

(* Being above is transitive.                                              *)
LEMMA PrefixThrough ==
  ASSUME NEW p \in Path, NEW q \in Path, NEW r \in Path, IsPrefix(p, q), IsPrefix(q, r)
  PROVE  IsPrefix(p, r)
  <1>1. Len(p) \in Nat /\ Len(q) \in Nat /\ Len(r) \in Nat BY PathElement
  <1>. QED BY <1>1, PrefixIs

(* What is above or below does not branch off.                             *)
LEMMA PrefixNotBefore ==
  ASSUME NEW q \in Path, NEW c \in Path, IsPrefix(q, c) \/ IsPrefix(c, q)
  PROVE  ~Before(q, c)
  <1>1. Len(q) \in Nat /\ Len(c) \in Nat BY PathElement
  <1>2. \A i \in 1 .. Len(q) : ~(q[i] < q[i]) BY PathElement
  <1>3. ASSUME NEW k \in Nat \ {0}, At(q, c, k) PROVE FALSE
    <2>1. q[k] = c[k] BY <1>1, <1>3, PrefixIs DEF At
    <2>. QED BY <1>1, <1>2, <1>3, <2>1 DEF At
  <1>. QED BY <1>3, BeforeIs

(* Below a path that branches off to the left, and against what is below.  *)
LEMMA BeforeBelow ==
  ASSUME NEW q \in Path, NEW c \in Path, Before(q, c),
         NEW r \in Path, IsPrefix(q, r), NEW d \in Path, IsPrefix(c, d)
  PROVE  Before(r, d)
  <1>1. Len(q) \in Nat /\ Len(c) \in Nat /\ Len(r) \in Nat /\ Len(d) \in Nat BY PathElement
  <1>2. PICK k \in Nat \ {0} : At(q, c, k) BY BeforeIs
  <1>3. /\ Len(q) <= Len(r) /\ \A i \in 1 .. Len(q) : q[i] = r[i]
        /\ Len(c) <= Len(d) /\ \A i \in 1 .. Len(c) : c[i] = d[i]
    BY PrefixIs
  <1>4. k \in 1 .. Len(q) /\ k \in 1 .. Len(c) /\ k <= Len(r) /\ k <= Len(d)
    BY <1>1, <1>2, <1>3 DEF At
  <1>5. r[k] < d[k] BY <1>2, <1>3, <1>4 DEF At
  <1>6. \A i \in 1 .. k - 1 : r[i] = d[i]
    <2>1. TAKE i \in 1 .. k - 1
    <2>2. i \in 1 .. Len(q) /\ i \in 1 .. Len(c) BY <1>1, <1>4
    <2>. QED BY <1>2, <1>3, <2>2 DEF At
  <1>7. At(r, d, k) BY <1>4, <1>5, <1>6 DEF At
  <1>. QED BY <1>7, BeforeIs

(* No two paths are each to the left of the other.                         *)
LEMMA BeforeOneWay ==
  ASSUME NEW q \in Path, NEW c \in Path, Before(q, c)
  PROVE  ~Before(c, q)
  <1>1. \A i \in 1 .. Len(q) : q[i] \in Nat BY PathElement
  <1>2. \A i \in 1 .. Len(c) : c[i] \in Nat BY PathElement
  <1>3. Len(q) \in Nat /\ Len(c) \in Nat BY PathElement
  <1>4. PICK k \in Nat \ {0} : At(q, c, k) BY BeforeIs
  <1>5. ASSUME NEW j \in Nat \ {0}, At(c, q, j) PROVE FALSE
    <2>1. CASE j < k
      <3>1. j \in 1 .. k - 1 /\ j \in 1 .. Len(q) BY <1>3, <1>4, <2>1 DEF At
      <3>. QED BY <1>1, <1>4, <1>5, <3>1 DEF At
    <2>2. CASE k < j
      <3>1. k \in 1 .. j - 1 /\ k \in 1 .. Len(q) BY <1>3, <1>4, <2>2 DEF At
      <3>. QED BY <1>1, <1>4, <1>5, <3>1 DEF At
    <2>3. CASE k = j
      <3>1. k \in 1 .. Len(q) /\ k \in 1 .. Len(c) BY <1>3, <1>4 DEF At
      <3>. QED BY <1>1, <1>2, <1>4, <1>5, <2>3, <3>1 DEF At
    <2>. QED BY <2>1, <2>2, <2>3
  <1>. QED BY <1>5, BeforeIs

(* Any two paths: one is above the other or to the left of it.             *)
LEMMA Trichotomy ==
  ASSUME NEW q \in Path, NEW c \in Path
  PROVE  Before(q, c) \/ Before(c, q) \/ IsPrefix(q, c) \/ IsPrefix(c, q)
  <1>1. Len(q) \in Nat /\ Len(c) \in Nat BY PathElement
  <1> DEFINE D == {k \in Nat \ {0} : k <= Len(q) /\ k <= Len(c) /\ q[k] # c[k]}
  <1>2. CASE D = {}
    <2>1. \A k \in Nat \ {0} : k <= Len(q) /\ k <= Len(c) => q[k] = c[k] BY <1>2
    <2>2. Len(q) <= Len(c) => IsPrefix(q, c) BY <1>1, <2>1, PrefixIs
    <2>3. Len(c) <= Len(q) => IsPrefix(c, q) BY <1>1, <2>1, PrefixIs
    <2>. QED BY <1>1, <2>2, <2>3
  <1>3. CASE D # {}
    <2>1. PICK k \in D : \A j \in D : k <= j BY <1>3, LeastExists
    <2>2. k \in Nat \ {0} /\ k <= Len(q) /\ k <= Len(c) /\ q[k] # c[k] OBVIOUS
    <2>3. \A i \in 1 .. k - 1 : q[i] = c[i]
      <3>1. TAKE i \in 1 .. k - 1
      <3>2. i \in Nat \ {0} /\ i < k /\ i <= Len(q) /\ i <= Len(c) BY <1>1, <2>2
      <3>. QED BY <2>1, <3>2
    <2>4. q[k] \in Nat /\ c[k] \in Nat BY <2>2, <1>1, PathElement
    <2>5. At(q, c, k) \/ At(c, q, k) BY <2>2, <2>3, <2>4 DEF At
    <2>. QED BY <2>2, <2>5, BeforeIs
  <1>. QED BY <1>2, <1>3

(* How the order of paths and the children of a path go together.          *)
LEMMA PrefixAppend ==
  ASSUME NEW c \in Path, NEW n \in Names, NEW q \in Path
  PROVE  IsPrefix(Append(c, n), q) <=> IsStrictPrefix(c, q) /\ q[Len(c) + 1] = n
  <1> DEFINE a == Append(c, n)
  <1>1. a \in Path /\ Len(a) = Len(c) + 1 /\ a[Len(c) + 1] = n /\ \A i \in 1 .. Len(c) : a[i] = c[i]
    BY PathAppend
  <1>2. Len(c) \in Nat /\ Len(q) \in Nat BY PathElement
  <1>. HIDE DEF a
  <1>3. IsPrefix(a, q) <=> Len(c) + 1 <= Len(q) /\ \A i \in 1 .. Len(c) + 1 : a[i] = q[i]
    BY <1>1, PrefixIs
  <1>. QED BY <1>1, <1>2, <1>3, StrictIs DEF a

(* What is above a child is above the parent, or the child itself.         *)
LEMMA AppendPrefix ==
  ASSUME NEW c \in Path, NEW n \in Names, NEW q \in Path
  PROVE  IsStrictPrefix(q, Append(c, n)) <=> IsPrefix(q, c)
  <1> DEFINE a == Append(c, n)
  <1>1. a \in Path /\ Len(a) = Len(c) + 1 /\ \A i \in 1 .. Len(c) : a[i] = c[i] BY PathAppend
  <1>2. Len(c) \in Nat /\ Len(q) \in Nat BY PathElement
  <1>. HIDE DEF a
  <1>3. IsStrictPrefix(q, a) <=> Len(q) < Len(c) + 1 /\ \A i \in 1 .. Len(q) : q[i] = a[i]
    BY <1>1, StrictIs
  <1>. QED BY <1>1, <1>2, <1>3, PrefixIs DEF a

(* What branches off to the left of a child.                               *)
LEMMA BeforeAppend ==
  ASSUME NEW c \in Path, NEW n \in Names, NEW q \in Path
  PROVE  Before(q, Append(c, n)) <=> Before(q, c) \/ (IsStrictPrefix(c, q) /\ q[Len(c) + 1] < n)
  <1> DEFINE a == Append(c, n)
  <1>1. a \in Path /\ Len(a) = Len(c) + 1 /\ a[Len(c) + 1] = n /\ \A i \in 1 .. Len(c) : a[i] = c[i]
    BY PathAppend
  <1>2. Len(c) \in Nat /\ Len(q) \in Nat BY PathElement
  <1>. HIDE DEF a
  <1>3. ASSUME NEW k \in Nat \ {0}, At(q, a, k)
        PROVE  At(q, c, k) \/ (IsStrictPrefix(c, q) /\ q[Len(c) + 1] < n)
    <2>1. k <= Len(c) => At(q, c, k) BY <1>1, <1>2, <1>3 DEF At
    <2>2. ASSUME k = Len(c) + 1 PROVE IsStrictPrefix(c, q) /\ q[Len(c) + 1] < n
      <3>1. Len(c) < Len(q) /\ q[Len(c) + 1] < n BY <1>1, <1>2, <1>3, <2>2 DEF At
      <3>2. \A i \in 1 .. Len(c) : c[i] = q[i] BY <1>1, <1>2, <1>3, <2>2 DEF At
      <3>. QED BY <3>1, <3>2, StrictIs
    <2>3. k <= Len(c) + 1 BY <1>1, <1>3 DEF At
    <2>. QED BY <1>2, <2>1, <2>2, <2>3
  <1>4. ASSUME NEW k \in Nat \ {0}, At(q, c, k) PROVE At(q, a, k) BY <1>1, <1>2, <1>4 DEF At
  <1>5. ASSUME IsStrictPrefix(c, q), q[Len(c) + 1] < n PROVE At(q, a, Len(c) + 1)
    BY <1>1, <1>2, <1>5, StrictIs DEF At
  <1>. QED BY <1>1, <1>2, <1>3, <1>4, <1>5, BeforeIs DEF a

-----------------------------------------------------------------------------
(* Trees.                                                                  *)

(* The nodes of a tree are at paths, one of them at the root.              *)
LEMMA TreePath == ASSUME NEW t, IsTree(t) PROVE DOMAIN t \subseteq Path /\ <<>> \in DOMAIN t
  BY DEF IsTree, Path

(* What is above a node is in the tree.                                    *)
LEMMA TreePrefix ==
  ASSUME NEW t, IsTree(t), NEW q \in DOMAIN t, NEW p \in Path, IsPrefix(p, q)
  PROVE  p \in DOMAIN t
  <1>1. q \in Path BY TreePath
  <1>2. Len(p) \in Nat /\ Len(q) \in Nat BY <1>1, PathElement
  <1>3. Len(p) \in 0 .. Len(q) /\ \A i \in 1 .. Len(p) : p[i] = q[i] BY <1>1, <1>2, PrefixIs
  <1> DEFINE s == SubSeq(q, 1, Len(p))
  <1>4. s \in Path /\ Len(s) = Len(p) /\ \A i \in 1 .. Len(p) : s[i] = q[i] BY <1>1, <1>3, PathUpTo
  <1>5. s \in DOMAIN t BY <1>3 DEF IsTree
  <1>. HIDE DEF s
  <1>6. s = p BY <1>3, <1>4, PathEqual
  <1>. QED BY <1>5, <1>6

(* The children of a node have names.                                      *)
LEMMA ChildrenNames ==
  ASSUME NEW t, NEW c
  PROVE  /\ Children(t, c) \in SUBSET Names /\ Children(t, c) \in SUBSET (Nat \ {0})
         /\ \A n \in Children(t, c) : Append(c, n) \in DOMAIN t
  BY NamesAssumption DEF Children

(* What is below a node is below one of its children.                      *)
LEMMA BelowChild ==
  ASSUME NEW t, IsTree(t), NEW q \in DOMAIN t, NEW c \in Path, IsStrictPrefix(c, q)
  PROVE  q[Len(c) + 1] \in Children(t, c)
  <1>1. q \in Path BY TreePath
  <1>2. Len(c) \in Nat /\ Len(q) \in Nat /\ Len(c) < Len(q) BY <1>1, PathElement, StrictIs
  <1>3. Len(c) + 1 \in 1 .. Len(q) BY <1>2
  <1>4. q[Len(c) + 1] \in Names BY <1>1, <1>3, PathElement
  <1> DEFINE n == q[Len(c) + 1]
  <1>5. IsPrefix(Append(c, n), q) BY <1>1, <1>4, PrefixAppend
  <1>6. Append(c, n) \in Path BY <1>4, PathAppend
  <1>7. Append(c, n) \in DOMAIN t BY <1>1, <1>5, <1>6, TreePrefix
  <1>. QED BY <1>4, <1>7 DEF Children

(* The first child: the walk has passed its parent in addition.            *)
LEMMA FirstChild ==
  ASSUME NEW t, IsTree(t), NEW c \in DOMAIN t, Children(t, c) # {}
  PROVE  /\ Child(t, c) \in DOMAIN t /\ Child(t, c) # <<>>
         /\ Passed(t, Child(t, c)) = Passed(t, c) \cup {c}
         /\ IsStrictPrefix(c, Child(t, c)) /\ Front(Child(t, c)) = c
  <1> DEFINE n == Min(Children(t, c))
  <1>0. c \in Path /\ DOMAIN t \subseteq Path BY TreePath
  <1>1. n \in Children(t, c) /\ \A m \in Children(t, c) : n <= m BY ChildrenNames, MinLeast
  <1>2. n \in Names /\ Append(c, n) \in DOMAIN t /\ Child(t, c) = Append(c, n)
    BY <1>1, ChildrenNames DEF Child
  <1>. HIDE DEF n
  <1>3. ASSUME NEW q \in DOMAIN t, IsStrictPrefix(c, q), q[Len(c) + 1] < n PROVE FALSE
    <2>1. q[Len(c) + 1] \in Children(t, c) BY <1>0, <1>3, BelowChild
    <2>2. q[Len(c) + 1] \in Nat /\ n \in Nat BY <1>1, <2>1, ChildrenNames
    <2>. QED BY <1>1, <1>3, <2>1, <2>2
  <1>4. ASSUME NEW q \in DOMAIN t
        PROVE  q \in Passed(t, Child(t, c)) <=> q \in Passed(t, c) \cup {c}
    <2>1. q \in Path BY <1>0
    <2>2. Before(q, Child(t, c)) <=> Before(q, c) BY <1>0, <1>2, <1>3, <2>1, BeforeAppend
    <2>3. IsStrictPrefix(q, Child(t, c)) <=> IsPrefix(q, c) BY <1>0, <1>2, <2>1, AppendPrefix
    <2>4. IsPrefix(q, c) <=> IsStrictPrefix(q, c) \/ q = c
      BY <1>0, <2>1, PrefixOfItself DEF IsStrictPrefix
    <2>. QED BY <2>2, <2>3, <2>4 DEF Passed
  <1>5. Append(c, n) # <<>> BY <1>0, <1>2, PathAppend
  <1>6. IsStrictPrefix(c, Append(c, n)) BY <1>0, <1>2, AppendPrefix, PrefixOfItself
  <1>7. Front(Append(c, n)) = c BY <1>0, <1>2, FrontAppend
  <1>8. Passed(t, Child(t, c)) \subseteq DOMAIN t /\ Passed(t, c) \subseteq DOMAIN t BY DEF Passed
  <1>. QED BY <1>2, <1>4, <1>5, <1>6, <1>7, <1>8

(* The path to a node goes through children.                               *)
LEMMA UpToIsChild ==
  ASSUME NEW c \in Path, NEW k \in 1 .. Len(c)
  PROVE  /\ SubSeq(c, 1, k - 1) \in Path /\ Len(SubSeq(c, 1, k - 1)) = k - 1 /\ c[k] \in Names
         /\ Append(SubSeq(c, 1, k - 1), c[k]) = SubSeq(c, 1, k)
         /\ IsStrictPrefix(SubSeq(c, 1, k - 1), c) /\ IsPrefix(SubSeq(c, 1, k), c)
         /\ SubSeq(c, 1, k) \in Path
  <1> DEFINE f == SubSeq(c, 1, k - 1)
             g == SubSeq(c, 1, k)
             a == Append(f, c[k])
  <1>1. Len(c) \in Nat BY PathElement
  <1>2. k \in Nat \ {0} /\ k <= Len(c) /\ k - 1 \in 0 .. Len(c) /\ k \in 0 .. Len(c) BY <1>1
  <1>3. f \in Path /\ Len(f) = k - 1 /\ \A i \in 1 .. k - 1 : f[i] = c[i] BY <1>2, PathUpTo
  <1>4. g \in Path /\ Len(g) = k /\ \A i \in 1 .. k : g[i] = c[i] BY <1>2, PathUpTo
  <1>5. c[k] \in Names BY PathElement
  <1>. HIDE DEF f, g
  <1>6. a \in Path /\ Len(a) = Len(f) + 1 /\ a[Len(f) + 1] = c[k] /\ \A i \in 1 .. Len(f) : a[i] = f[i]
    BY <1>3, <1>5, PathAppend
  <1>. HIDE DEF a
  <1>7. \A i \in 1 .. k : a[i] = c[i]
    <2>1. TAKE i \in 1 .. k
    <2>2. CASE i = k BY <1>2, <1>3, <1>6, <2>2
    <2>3. CASE i # k
      <3>1. i \in 1 .. k - 1 BY <1>2, <2>3
      <3>. QED BY <1>2, <1>3, <1>6, <3>1
    <2>. QED BY <2>2, <2>3
  <1>8. Len(a) = k BY <1>2, <1>3, <1>6
  <1>9. a = g BY <1>4, <1>6, <1>7, <1>8, PathEqual
  <1>10. IsStrictPrefix(f, c) BY <1>1, <1>2, <1>3, StrictIs
  <1>11. IsPrefix(g, c) BY <1>1, <1>2, <1>4, PrefixIs
  <1>. QED BY <1>3, <1>4, <1>5, <1>9, <1>10, <1>11 DEF a, f, g

(* The children later than the one on the path.                            *)
LEMMA LaterIs ==
  ASSUME NEW t, NEW c \in Path, NEW k \in 1 .. Len(c)
  PROVE  Later(t, SubSeq(c, 1, k)) = {n \in Children(t, SubSeq(c, 1, k - 1)) : n > c[k]}
  <1> DEFINE f == SubSeq(c, 1, k - 1)
  <1>1. f \in Path /\ c[k] \in Names /\ SubSeq(c, 1, k) = Append(f, c[k]) BY UpToIsChild
  <1>2. Front(Append(f, c[k])) = f /\ Last(Append(f, c[k])) = c[k] BY <1>1, FrontAppend
  <1>. QED BY <1>1, <1>2 DEF Later

(* Where a node of the tree branches off to the right, the walk turns.     *)
LEMMA TurnsRight ==
  ASSUME NEW t, IsTree(t), NEW c \in DOMAIN t, NEW q \in DOMAIN t, NEW k \in Nat \ {0}, At(c, q, k)
  PROVE  k \in Turns(t, c)
  <1>0. c \in Path /\ q \in Path BY TreePath
  <1>1. Len(c) \in Nat /\ Len(q) \in Nat /\ k \in 1 .. Len(c) /\ k \in 1 .. Len(q)
    BY <1>0, PathElement DEF At
  <1> DEFINE f == SubSeq(c, 1, k - 1)
  <1>2. f \in Path /\ Len(f) = k - 1 /\ \A i \in 1 .. k - 1 : f[i] = c[i]
    <2>1. k - 1 \in 0 .. Len(c) BY <1>1
    <2>. QED BY <1>0, <2>1, PathUpTo
  <1>. HIDE DEF f
  <1>3. Len(f) < Len(q) /\ \A i \in 1 .. Len(f) : f[i] = q[i] BY <1>1, <1>2 DEF At
  <1>4. IsStrictPrefix(f, q) BY <1>0, <1>2, <1>3, StrictIs
  <1>5. Len(f) + 1 = k BY <1>1, <1>2
  <1>6. q[k] \in Children(t, f) BY <1>2, <1>4, <1>5, BelowChild
  <1>7. q[k] > c[k]
    <2>1. q[k] \in Nat /\ c[k] \in Nat BY <1>0, <1>1, PathElement
    <2>. QED BY <2>1 DEF At
  <1>8. q[k] \in Later(t, SubSeq(c, 1, k)) BY <1>0, <1>1, <1>6, <1>7, LaterIs DEF f
  <1>. QED BY <1>1, <1>8 DEF Turns

(* Nowhere left to turn: the walk is through with the whole tree.          *)
LEMMA AfterLast ==
  ASSUME NEW t, IsTree(t), NEW c \in DOMAIN t, Turns(t, c) = {}
  PROVE  After(t, c) = <<>> /\ DOMAIN t = Passed(t, c) \cup Below(t, c)
  <1>0. DOMAIN t \subseteq Path BY TreePath
  <1>1. ASSUME NEW q \in DOMAIN t PROVE q \in Passed(t, c) \cup Below(t, c)
    <2>1. ~Before(c, q) BY <1>0, TurnsRight, BeforeIs
    <2>2. Before(q, c) \/ IsPrefix(q, c) \/ IsPrefix(c, q) BY <1>0, <2>1, Trichotomy
    <2>3. IsPrefix(c, c) BY <1>0, PrefixOfItself
    <2>. QED BY <2>2, <2>3 DEF Passed, Below, IsStrictPrefix
  <1>. QED BY <1>1 DEF After, Passed, Below

(* The next turn: the walk has passed what is below the cursor as well.    *)
LEMMA AfterTurn ==
  ASSUME NEW t, IsTree(t), NEW c \in DOMAIN t, Turns(t, c) # {}
  PROVE  /\ After(t, c) \in DOMAIN t /\ After(t, c) # <<>>
         /\ Passed(t, After(t, c)) = Passed(t, c) \cup Below(t, c)
  <1> DEFINE K == Max(Turns(t, c))
             f == SubSeq(c, 1, K - 1)
             g == SubSeq(c, 1, K)
             l == c[K]
             m == Min(Later(t, g))
  <1>0. DOMAIN t \subseteq Path /\ c \in Path BY TreePath
  <1>1. Len(c) \in Nat BY <1>0, PathElement
  <1>2. K \in Turns(t, c) /\ \A k \in Turns(t, c) : k <= K
    <2>1. Turns(t, c) \in SUBSET (0 .. Len(c)) BY <1>1 DEF Turns
    <2>. QED BY <1>1, <2>1, MaxGreatest
  <1>3. K \in 1 .. Len(c) /\ Later(t, g) # {} BY <1>2 DEF Turns
  <1>4. /\ f \in Path /\ Len(f) = K - 1 /\ l \in Names /\ Append(f, l) = g
        /\ IsStrictPrefix(f, c) /\ IsPrefix(g, c) /\ g \in Path
    BY <1>0, <1>3, UpToIsChild
  <1>5. Later(t, g) = {n \in Children(t, f) : n > l} BY <1>0, <1>3, LaterIs
  <1>6. /\ m \in Children(t, f) /\ m > l /\ l \in Nat /\ m \in Nat
        /\ \A n \in Children(t, f) : n > l => m <= n
    <2>1. Children(t, f) \in SUBSET Nat BY ChildrenNames
    <2>2. Later(t, g) \in SUBSET Nat BY <1>5, <2>1
    <2>3. m \in Later(t, g) /\ \A n \in Later(t, g) : m <= n BY <1>3, <2>2, MinLeast
    <2>4. l \in Nat BY <1>4, NamesAssumption
    <2>. QED BY <1>5, <2>1, <2>3, <2>4
  <1>7. m \in Names /\ Append(f, m) \in DOMAIN t BY <1>6, ChildrenNames
  <1>8. After(t, c) = Append(f, m)
    <2>1. Front(g) = f BY <1>4, FrontAppend
    <2>. QED BY <2>1 DEF After
  <1>9. Append(f, m) # <<>> BY <1>4, <1>7, PathAppend
  <1>10. Len(f) + 1 = K BY <1>1, <1>3, <1>4
  <1>. HIDE DEF K, f, g, l, m
  <1>11. ASSUME NEW q \in DOMAIN t
         PROVE  q \in Passed(t, Append(f, m)) <=> Before(q, g) \/ IsPrefix(g, q) \/ IsStrictPrefix(q, g)
    <2>0. q \in Path BY <1>0
    <2>1. Before(q, Append(f, m)) <=> Before(q, f) \/ (IsStrictPrefix(f, q) /\ q[K] < m)
      BY <1>4, <1>7, <1>10, <2>0, BeforeAppend
    <2>2. Before(q, g) <=> Before(q, f) \/ (IsStrictPrefix(f, q) /\ q[K] < l)
      BY <1>4, <1>10, <2>0, BeforeAppend
    <2>3. IsPrefix(g, q) <=> IsStrictPrefix(f, q) /\ q[K] = l BY <1>4, <1>10, <2>0, PrefixAppend
    <2>4. ASSUME IsStrictPrefix(f, q) PROVE q[K] < m <=> q[K] < l \/ q[K] = l
      <3>1. q[K] \in Children(t, f) BY <1>4, <1>10, <2>4, BelowChild
      <3>2. q[K] \in Nat BY <3>1, ChildrenNames
      <3>. QED BY <1>6, <3>1, <3>2
    <2>5. IsStrictPrefix(q, Append(f, m)) <=> IsPrefix(q, f) BY <1>4, <1>7, <2>0, AppendPrefix
    <2>6. IsStrictPrefix(q, g) <=> IsPrefix(q, f) BY <1>4, <2>0, AppendPrefix
    <2>. QED BY <2>1, <2>2, <2>3, <2>4, <2>5, <2>6 DEF Passed
  <1>12. ASSUME NEW q \in DOMAIN t, Before(q, g) \/ IsPrefix(g, q) \/ IsStrictPrefix(q, g)
         PROVE  q \in Passed(t, c) \cup Below(t, c)
    <2>0. q \in Path BY <1>0
    <2>1. CASE Before(q, g)
      <3>1. Before(q, c) BY <1>0, <1>4, <2>0, <2>1, BeforeBelow, PrefixOfItself
      <3>. QED BY <3>1 DEF Passed
    <2>2. CASE IsStrictPrefix(q, g)
      <3>1. IsPrefix(q, g) /\ q # g BY <2>2 DEF IsStrictPrefix
      <3>2. IsPrefix(q, c) BY <1>0, <1>4, <2>0, <3>1, PrefixThrough
      <3>3. q # c BY <1>4, <2>0, <3>1, PrefixBoth
      <3>. QED BY <3>2, <3>3 DEF Passed, IsStrictPrefix
    <2>3. CASE IsPrefix(g, q)
      <3>1. ASSUME Before(c, q) PROVE FALSE
        <4>1. PICK k \in Nat \ {0} : At(c, q, k) BY <1>0, <2>0, <3>1, BeforeIs
        <4>2. k \in Turns(t, c) BY <4>1, TurnsRight
        <4>3. k \in 1 .. K BY <1>2, <1>3, <4>2
        <4>4. Len(g) = K BY <1>1, <1>0, <1>3, PathUpTo DEF g
        <4>5. g[k] = q[k] /\ g[k] = c[k] BY <1>0, <1>4, <2>0, <2>3, <4>3, <4>4, PrefixIs
        <4>6. k \in 1 .. Len(c) BY <1>1, <1>3, <4>3
        <4>7. c[k] \in Nat BY <1>0, <4>6, PathElement
        <4>. QED BY <4>1, <4>5, <4>7 DEF At
      <3>2. Before(q, c) \/ IsPrefix(q, c) \/ IsPrefix(c, q) BY <1>0, <2>0, <3>1, Trichotomy
      <3>3. IsPrefix(c, c) BY <1>0, PrefixOfItself
      <3>. QED BY <3>2, <3>3 DEF Passed, Below, IsStrictPrefix
    <2>. QED BY <1>12, <2>1, <2>2, <2>3
  <1>13. ASSUME NEW q \in DOMAIN t, q \in Passed(t, c) \cup Below(t, c)
         PROVE  Before(q, g) \/ IsPrefix(g, q) \/ IsStrictPrefix(q, g)
    <2>0. q \in Path BY <1>0
    <2>1. Before(q, c) \/ IsPrefix(q, c) \/ IsPrefix(c, q)
      BY <1>13 DEF Passed, Below, IsStrictPrefix
    <2>2. ~Before(c, q) BY <1>0, <2>0, <2>1, BeforeOneWay, PrefixNotBefore
    <2>3. ~Before(g, q) BY <1>0, <1>4, <2>0, <2>2, BeforeBelow, PrefixOfItself
    <2>4. Before(q, g) \/ IsPrefix(g, q) \/ IsPrefix(q, g) BY <1>4, <2>0, <2>3, Trichotomy
    <2>5. IsPrefix(g, g) BY <1>4, PrefixOfItself
    <2>. QED BY <2>4, <2>5 DEF IsStrictPrefix
  <1>14. Passed(t, Append(f, m)) = Passed(t, c) \cup Below(t, c)
    <2>1. \A q \in DOMAIN t : q \in Passed(t, Append(f, m)) <=> q \in Passed(t, c) \cup Below(t, c)
      BY <1>11, <1>12, <1>13
    <2>. QED BY <2>1 DEF Passed, Below
  <1>. QED BY <1>7, <1>8, <1>9, <1>14

-----------------------------------------------------------------------------
(* What the deletion has left behind.                                      *)

(* Down to the next child: nothing more.                                   *)
LEMMA LeftDown ==
  ASSUME NEW t, IsTree(t), NEW c \in DOMAIN t, NEW l \in Nat, NEW m \in Names,
         l < m, \A n \in Children(t, c) : n > l => m <= n
  PROVE  Left(t, Append(c, m), 0) = Left(t, c, l)
  <1>0. DOMAIN t \subseteq Path /\ c \in Path BY TreePath
  <1>1. Append(c, m) \in Path BY <1>0, PathAppend
  <1>2. ASSUME NEW q \in DOMAIN t PROVE q \in Left(t, Append(c, m), 0) <=> q \in Left(t, c, l)
    <2>0. q \in Path BY <1>0
    <2>1. Before(q, Append(c, m)) <=> Before(q, c) \/ (IsStrictPrefix(c, q) /\ q[Len(c) + 1] < m)
      BY <1>0, <2>0, BeforeAppend
    <2>2. ASSUME IsStrictPrefix(c, q) PROVE q[Len(c) + 1] < m <=> q[Len(c) + 1] <= l
      <3>1. q[Len(c) + 1] \in Children(t, c) BY <1>0, <2>2, BelowChild
      <3>2. q[Len(c) + 1] \in Nat /\ m \in Nat BY <3>1, ChildrenNames, NamesAssumption
      <3>. QED BY <3>1, <3>2
    <2>3. ASSUME IsStrictPrefix(Append(c, m), q) PROVE ~(q[Len(Append(c, m)) + 1] <= 0)
      <3>1. q[Len(Append(c, m)) + 1] \in Children(t, Append(c, m)) BY <1>1, <2>3, BelowChild
      <3>2. q[Len(Append(c, m)) + 1] \in Nat \ {0} BY <3>1, ChildrenNames
      <3>. QED BY <3>2
    <2>. QED BY <2>1, <2>2, <2>3 DEF Left
  <1>. QED BY <1>2 DEF Left

(* All children done: up, and the node is left behind as well.             *)
LEMMA LeftUp ==
  ASSUME NEW t, IsTree(t), NEW c \in DOMAIN t, NEW l \in Nat, \A n \in Children(t, c) : n <= l
  PROVE  /\ c # <<>> => Left(t, Front(c), Last(c)) = Left(t, c, l) \cup {c}
         /\ Below(t, c) \ Left(t, c, l) = {c}
         /\ c = <<>> => DOMAIN t = Left(t, c, l) \cup {c}
  <1>0. DOMAIN t \subseteq Path /\ c \in Path BY TreePath
  <1>1. ASSUME NEW q \in DOMAIN t
        PROVE  q \in Left(t, c, l) <=> Before(q, c) \/ IsStrictPrefix(c, q)
    <2>1. ASSUME IsStrictPrefix(c, q) PROVE q[Len(c) + 1] <= l
      <3>1. q[Len(c) + 1] \in Children(t, c) BY <1>0, <2>1, BelowChild
      <3>. QED BY <3>1
    <2>. QED BY <2>1 DEF Left
  <1>2. c \notin Left(t, c, l) BY <1>0, <1>1, PrefixOfItself DEF IsStrictPrefix
  <1>3. ASSUME c # <<>> PROVE Left(t, Front(c), Last(c)) = Left(t, c, l) \cup {c}
    <2> DEFINE f == Front(c)
               n == Last(c)
    <2>1. f \in Path /\ n \in Names /\ Append(f, n) = c BY <1>0, <1>3, PathFront, AppendFrontLast
    <2>. HIDE DEF f, n
    <2>2. ASSUME NEW q \in DOMAIN t PROVE q \in Left(t, f, n) <=> q \in Left(t, c, l) \cup {c}
      <3>0. q \in Path BY <1>0
      <3>1. Before(q, c) <=> Before(q, f) \/ (IsStrictPrefix(f, q) /\ q[Len(f) + 1] < n)
        BY <2>1, <3>0, BeforeAppend
      <3>2. IsPrefix(c, q) <=> IsStrictPrefix(f, q) /\ q[Len(f) + 1] = n BY <2>1, <3>0, PrefixAppend
      <3>3. IsPrefix(c, q) <=> IsStrictPrefix(c, q) \/ q = c
        BY <1>0, PrefixOfItself DEF IsStrictPrefix
      <3>4. ASSUME IsStrictPrefix(f, q)
            PROVE  q[Len(f) + 1] <= n <=> q[Len(f) + 1] < n \/ q[Len(f) + 1] = n
        <4>1. q[Len(f) + 1] \in Children(t, f) BY <2>1, <3>4, BelowChild
        <4>2. q[Len(f) + 1] \in Nat /\ n \in Nat BY <2>1, <4>1, ChildrenNames, NamesAssumption
        <4>. QED BY <4>2
      <3>. QED BY <1>1, <3>1, <3>2, <3>3, <3>4 DEF Left
    <2>3. Left(t, f, n) \subseteq DOMAIN t /\ Left(t, c, l) \subseteq DOMAIN t BY DEF Left
    <2>. QED BY <2>2, <2>3 DEF f, n
  <1>4. Below(t, c) \ Left(t, c, l) = {c}
    <2>1. \A q \in DOMAIN t : q \in Below(t, c) <=> q = c \/ IsStrictPrefix(c, q)
      BY <1>0, PrefixOfItself DEF Below, IsStrictPrefix
    <2>. QED BY <1>1, <1>2, <2>1 DEF Below
  <1>5. ASSUME c = <<>> PROVE DOMAIN t = Left(t, c, l) \cup {c}
    <2>1. \A q \in DOMAIN t : q = c \/ IsStrictPrefix(c, q)
      <3>1. TAKE q \in DOMAIN t
      <3>2. q \in Path /\ Len(c) = 0 /\ Len(q) \in Nat BY <1>0, <1>5, PathElement
      <3>3. IsPrefix(c, q) BY <1>0, <3>2, PrefixIs
      <3>. QED BY <3>3 DEF IsStrictPrefix
    <2>. QED BY <1>1, <2>1 DEF Left
  <1>. QED BY <1>3, <1>4, <1>5

-----------------------------------------------------------------------------
(* The cursor stays in the provider's tree, and the trees were checked.    *)

(* What the assumption says of the constants.                              *)
LEMMA Constants_ ==
  /\ NoProvider \notin Providers /\ MayFail \in BOOLEAN
  /\ \A p \in Providers : IsTree(Model[p]) /\ DOMAIN Model[p] \subseteq Paths
  /\ <<>> \in Paths /\ Paths \subseteq Path
  <1>1. \A p \in Providers : IsTree(Model[p]) BY DatamodelAssumption
  <1>2. <<>> \in Path BY DEF Path
  <1>3. \A p \in Providers : DOMAIN Model[p] \subseteq Path BY <1>1, TreePath
  <1>4. \A p \in Providers : DOMAIN Model[p] \subseteq Paths BY DEF Paths
  <1>5. ASSUME NEW q \in Paths PROVE q \in Path
    <2>1. q = <<>> \/ \E p \in Providers : q \in DOMAIN Model[p] BY DEF Paths
    <2>. QED BY <1>2, <1>3, <2>1
  <1>6. <<>> \in Paths BY DEF Paths
  <1>. QED BY <1>1, <1>4, <1>5, <1>6, DatamodelAssumption

(* The cursor of an operation is at a node of the tree it goes through.    *)
LEMMA WalkFacts ==
  ASSUME WalkOk, Running
  PROVE  /\ by \in Providers /\ IsTree(new) /\ cur \in DOMAIN new /\ prev \in DOMAIN new
         /\ cur \in Path /\ prev \in Path /\ DOMAIN new \subseteq Path /\ DOMAIN new \subseteq Paths
         /\ <<>> \in DOMAIN new
  <1>1. by \in Providers /\ cur \in DOMAIN new /\ prev \in DOMAIN new BY DEF WalkOk
  <1>2. IsTree(new) /\ DOMAIN new \subseteq Paths BY <1>1, Constants_ DEF new
  <1>. QED BY <1>1, <1>2, TreePath

(* The children still to do are those after the last one done.             *)
LEMMA ThroughWithIs ==
  ASSUME WalkOk, Running
  PROVE  ThroughWith \in Nat /\ ToDo = {n \in Children(new, cur) : n > ThroughWith}
  <1>1. Children(new, cur) \in SUBSET (Nat \ {0}) BY ChildrenNames
  <1>2. CASE prev # <<>> /\ Front(prev) = cur
    <2>1. ThroughWith = Last(prev) BY <1>2 DEF ThroughWith
    <2>2. Last(prev) \in Nat BY <1>2, WalkFacts, PathFront, NamesAssumption
    <2>. QED BY <1>2, <2>1, <2>2 DEF ToDo
  <1>3. CASE ~(prev # <<>> /\ Front(prev) = cur)
    <2>1. ThroughWith = 0 /\ ToDo = Children(new, cur) BY <1>3 DEF ThroughWith, ToDo
    <2>. QED BY <1>1, <2>1
  <1>. QED BY <1>2, <1>3

(* The next child to do is the first of those.                             *)
LEMMA NextChildIs ==
  ASSUME WalkOk, Running, ToDo # {}
  PROVE  /\ Min(ToDo) \in Names /\ NextChild = Append(cur, Min(ToDo)) /\ NextChild \in DOMAIN new
         /\ ThroughWith < Min(ToDo)
         /\ \A n \in Children(new, cur) : n > ThroughWith => Min(ToDo) <= n
  <1>1. ToDo = {n \in Children(new, cur) : n > ThroughWith} /\ ThroughWith \in Nat BY ThroughWithIs
  <1>2. ToDo \in SUBSET Nat /\ Children(new, cur) \in SUBSET Names BY <1>1, ChildrenNames
  <1>3. Min(ToDo) \in ToDo /\ \A n \in ToDo : Min(ToDo) <= n BY <1>2, MinLeast
  <1>4. Append(cur, Min(ToDo)) \in DOMAIN new BY <1>1, <1>3, ChildrenNames
  <1>. QED BY <1>1, <1>2, <1>3, <1>4 DEF NextChild

(* The parent of the cursor is a node of the tree.                         *)
LEMMA FrontInTree ==
  ASSUME NEW t, IsTree(t), NEW c \in DOMAIN t, c # <<>>
  PROVE  Front(c) \in DOMAIN t /\ IsStrictPrefix(Front(c), c)
  <1>1. c \in Path BY TreePath
  <1>2. Front(c) \in Path /\ Last(c) \in Names /\ Append(Front(c), Last(c)) = c
    BY <1>1, PathFront, AppendFrontLast
  <1>3. IsStrictPrefix(Front(c), c) BY <1>2, AppendPrefix, PrefixOfItself
  <1>. QED BY <1>2, <1>3, TreePrefix DEF IsStrictPrefix

(* So is where the walk turns to.                                          *)
LEMMA AfterInTree ==
  ASSUME NEW t, IsTree(t), NEW c \in DOMAIN t
  PROVE  After(t, c) \in DOMAIN t
  <1>1. Turns(t, c) = {} => After(t, c) \in DOMAIN t BY AfterLast, TreePath
  <1>2. Turns(t, c) # {} => After(t, c) \in DOMAIN t BY AfterTurn
  <1>. QED BY <1>1, <1>2

(* What becomes of the operation in a step of it.                          *)
GoesOn ==
  /\ by' = by /\ registered' = registered
  /\ op' = op \/ (op = "dryRun" /\ op' = "merge")
  /\ cur' \in DOMAIN new /\ prev' \in DOMAIN new
  /\ op' # "delete" /\ cur' # <<>> => prev' # <<>>
Ends ==
  /\ op' = "idle" /\ by' = NoProvider /\ cur' = <<>> /\ prev' = <<>>
  /\ registered' \in {registered, registered \cup {by}, registered \ {by}}
BreaksOff == op' = "crashed" /\ by' = by /\ cur' = cur /\ prev' = prev /\ registered' = registered

(* Steps of the merge.                                                     *)
LEMMA MergeMoves ==
  ASSUME WalkOk, Merge
  PROVE  Running /\ (GoesOn \/ Ends)
  <1> DEFINE Goal == Running /\ (GoesOn \/ Ends)
  <1>0. Running BY DEF Merge, MergeRoot, MergePresent, MergeRefused, MergeAbsent, MergeEnd, Running
  <1>1. by \in Providers /\ IsTree(new) /\ cur \in DOMAIN new /\ prev \in DOMAIN new /\ <<>> \in DOMAIN new
    BY <1>0, WalkFacts
  <1>2. ASSUME MergeRoot PROVE Goal
    <2>1. Children(new, <<>>) # {}
      <3>1. KindsOk(new, <<>>) BY <1>0, <1>1 DEF WalkOk
      <3>2. new[<<>>].type = "MODEL" BY <1>1 DEF IsTree, Node
      <3>. QED BY <3>1, <3>2 DEF KindsOk, NeedsChildren
    <2>2. Child(new, <<>>) \in DOMAIN new /\ Child(new, <<>>) # <<>> BY <1>1, <2>1, FirstChild
    <2>. QED BY <1>0, <1>2, <2>2 DEF MergeRoot, Goto, GoesOn
  <1>7. op # "delete" /\ cur # <<>> => prev # <<>> BY <1>0 DEF WalkOk
  <1>3. ASSUME MergePresent PROVE Goal
    <2>1. Children(new, cur) # {} => Child(new, cur) \in DOMAIN new BY <1>1, FirstChild
    <2>. QED BY <1>0, <1>1, <1>3, <1>7, <2>1 DEF MergePresent, Goto, GoesOn
  <1>4. ASSUME MergeRefused PROVE Goal BY <1>0, <1>4 DEF MergeRefused, End, Ends
  <1>5. ASSUME MergeAbsent PROVE Goal
    <2>1. After(new, cur) \in DOMAIN new BY <1>1, AfterInTree
    <2>. QED BY <1>0, <1>1, <1>5, <1>7, <2>1 DEF MergeAbsent, Goto, GoesOn
  <1>6. ASSUME MergeEnd PROVE Goal BY <1>0, <1>1, <1>6 DEF MergeEnd, End, Ends, GoesOn
  <1>. QED BY <1>2, <1>3, <1>4, <1>5, <1>6 DEF Merge

(* A step up from a node.                                                  *)
LEMMA UpMoves ==
  ASSUME WalkOk, Running, op = "delete", GoUp, cur # <<>> => registered' = registered,
         registered' \in {registered, registered \ {by}}
  PROVE  GoesOn \/ Ends
  <1>1. CASE cur = <<>> BY <1>1 DEF GoUp, End, Ends
  <1>2. CASE cur # <<>>
    <2>1. Front(cur) \in DOMAIN new /\ cur \in DOMAIN new BY <1>2, WalkFacts, FrontInTree
    <2>. QED BY <1>2, <2>1 DEF GoUp, Goto, GoesOn
  <1>. QED BY <1>1, <1>2

(* Steps of the deletion.                                                  *)
LEMMA DeleteMoves ==
  ASSUME WalkOk, Delete
  PROVE  Running /\ op = "delete" /\ (GoesOn \/ Ends \/ BreaksOff)
  <1> DEFINE Goal == GoesOn \/ Ends \/ BreaksOff
  <1>0. Running /\ op = "delete"
    BY DEF Delete, DeleteLeaf, DeleteDown, DeleteMissing, DeleteShrink, DeleteEmpty, Running
  <1>1. ASSUME DeleteLeaf PROVE Goal
    BY <1>0, <1>1, UpMoves DEF DeleteLeaf, Crash, BreaksOff
  <1>2. ASSUME DeleteDown PROVE Goal
    BY <1>0, <1>2, NextChildIs, WalkFacts DEF DeleteDown, Goto, GoesOn
  <1>3. ASSUME DeleteMissing PROVE Goal BY <1>0, <1>3, UpMoves DEF DeleteMissing
  <1>4. ASSUME DeleteShrink PROVE Goal
    <2>1. CASE GoUp /\ registered' = IF cur = <<>> THEN registered \ {by} ELSE registered
      BY <1>0, <2>1, UpMoves
    <2>2. CASE End /\ registered' = registered BY <2>2 DEF End, Ends
    <2>. QED BY <1>4, <2>1, <2>2 DEF DeleteShrink
  <1>5. ASSUME DeleteEmpty PROVE Goal
    <2>1. CASE Crashes(cur) BY <1>5, <2>1 DEF DeleteEmpty, Crash, BreaksOff
    <2>2. CASE ~Crashes(cur) /\ cur = <<>> BY <1>5, <2>2 DEF DeleteEmpty, End, Ends
    <2>3. CASE ~Crashes(cur) /\ cur # <<>> BY <1>0, <1>5, <2>3, UpMoves DEF DeleteEmpty
    <2>. QED BY <2>1, <2>2, <2>3
  <1>. QED BY <1>0, <1>1, <1>2, <1>3, <1>4, <1>5 DEF Delete

(* The cursor stays in the tree in each of them.                           *)
LEMMA WalkStep ==
  ASSUME WalkOk, CheckedTrees, Running, GoesOn \/ Ends \/ BreaksOff, checked' = checked
  PROVE  /\ WalkOk' /\ CheckedTrees'
         /\ by' \in Providers \cup {NoProvider} /\ cur' \in Paths /\ prev' \in Paths
         /\ op' \in {"idle", "dryRun", "merge", "delete", "crashed"}
         /\ checked' = checked /\ registered' \subseteq registered \cup {by}
  <1>1. by \in Providers /\ DOMAIN new \subseteq Paths /\ cur \in DOMAIN new /\ prev \in DOMAIN new
    BY WalkFacts
  <1>2. \A q \in DOMAIN new : KindsOk(new, q) BY DEF WalkOk
  <1>3. registered' \subseteq registered \cup {by} BY DEF GoesOn, Ends, BreaksOff
  <1>4. CheckedTrees' BY <1>2, <1>3 DEF CheckedTrees, new
  <1>5. WalkOk'
    <2>1. CASE GoesOn
      <3>1. new' = new BY <2>1 DEF GoesOn, new
      <3>2. Own(by)' <=> Own(by) BY <2>1 DEF GoesOn, Own
      <3>3. op = "dryRun" => by \notin registered BY DEF WalkOk, Running
      <3>4. Running' BY <2>1 DEF GoesOn, Running
      <3>. QED BY <1>1, <1>2, <2>1, <3>1, <3>2, <3>3, <3>4 DEF WalkOk, GoesOn, Running
    <2>2. CASE Ends BY <2>2 DEF Ends, WalkOk, Running
    <2>3. CASE BreaksOff BY <2>3 DEF BreaksOff, WalkOk, Running
    <2>. QED BY <2>1, <2>2, <2>3
  <1>6. /\ by' \in Providers \cup {NoProvider} /\ cur' \in Paths /\ prev' \in Paths
        /\ op' \in {"idle", "dryRun", "merge", "delete", "crashed"}
    BY <1>1, Constants_ DEF GoesOn, Ends, BreaksOff, Running
  <1>. QED BY <1>3, <1>4, <1>5, <1>6

(* The datamodel and what goes with it stay in their types.                *)
Data ==
  /\ DOMAIN tree \subseteq Paths /\ holes \subseteq Paths /\ checked \subseteq Local
  /\ lost \subseteq Providers /\ degraded \in BOOLEAN

(* freeNode keeps the types.                                               *)
LEMMA FreeData ==
  ASSUME Data, registered \subseteq Providers, cur \in Paths, freeNode(cur), degraded' = degraded,
         checked' = checked
  PROVE  Data'
  BY DatamodelAssumption DEF Data, freeNode

(* The merge keeps the types.                                              *)
LEMMA MergeData ==
  ASSUME Data, registered \subseteq Providers, WalkOk, Merge
  PROVE  Data'
  <1>0. Running BY MergeMoves
  <1>1. DOMAIN new \subseteq Paths BY <1>0, WalkFacts
  <1>2. degraded \in BOOLEAN BY DEF Data
  <1>3. CASE MergeAbsent
    <2>1. CASE op = "merge"
      <3>1. addSubtree(cur) /\ holes' = holes /\ checked' = checked /\ lost' = lost
        BY <1>3, <2>1 DEF MergeAbsent
      <3>2. DOMAIN tree' \subseteq Paths
        <4>1. DOMAIN tree' = DOMAIN tree \/ DOMAIN tree' = DOMAIN tree \cup Below(new, cur)
          BY <3>1 DEF addSubtree
        <4>. QED BY <1>1, <4>1 DEF Below, Data
      <3>3. degraded' \in BOOLEAN BY <1>2, <3>1 DEF addSubtree
      <3>. QED BY <3>1, <3>2, <3>3 DEF Data
    <2>2. CASE op # "merge" BY <1>3, <2>2 DEF MergeAbsent, Data
    <2>. QED BY <2>1, <2>2
  <1>4. CASE MergeRefused
    <2>1. degraded' \in BOOLEAN BY <1>2, <1>4 DEF MergeRefused
    <2>. QED BY <1>4, <2>1 DEF MergeRefused, Data
  <1>5. CASE MergeRoot \/ MergePresent \/ MergeEnd
    BY <1>5 DEF MergeRoot, MergePresent, MergeEnd, End, Data
  <1>. QED BY <1>3, <1>4, <1>5 DEF Merge

(* The deletion keeps the types.                                           *)
LEMMA DeleteData ==
  ASSUME Data, registered \subseteq Providers, cur \in Paths, Delete
  PROVE  Data'
  <1>0. degraded \in BOOLEAN /\ <<>> \in Paths BY Constants_ DEF Data
  <1>1. CASE DeleteLeaf
    <2>1. CASE Crashes(cur) BY <1>1, <2>1 DEF DeleteLeaf, Crash, Data
    <2>2. CASE ~Crashes(cur) BY <1>1, <2>2, FreeData DEF DeleteLeaf
    <2>. QED BY <2>1, <2>2
  <1>2. CASE DeleteDown BY <1>2 DEF DeleteDown, Data
  <1>3. CASE DeleteMissing BY <1>3 DEF DeleteMissing, Data
  <1>4. CASE DeleteShrink
    <2>1. holes' \subseteq holes BY <1>4 DEF DeleteShrink
    <2>2. degraded' \in BOOLEAN BY <1>0, <1>4 DEF DeleteShrink
    <2>. QED BY <1>4, <2>1, <2>2 DEF DeleteShrink, Data
  <1>5. CASE DeleteEmpty
    <2>1. CASE Crashes(cur) BY <1>5, <2>1 DEF DeleteEmpty, Crash, Data
    <2>2. CASE ~Crashes(cur) /\ cur = <<>> BY <1>0, <1>5, <2>2 DEF DeleteEmpty, Root, Data
    <2>3. CASE ~Crashes(cur) /\ cur # <<>> BY <1>5, <2>3, FreeData DEF DeleteEmpty
    <2>. QED BY <2>1, <2>2, <2>3
  <1>. QED BY <1>1, <1>2, <1>3, <1>4, <1>5 DEF Delete

(* The beginning of an operation.                                          *)
Call(p) == registerProvider(p) \/ unregisterProvider(p) \/ ReceiveAdd(p) \/ ReceiveDel(p)

(* What all the calls do: the tree was checked, here or in the other       *)
(* layer.                                                                  *)
LEMMA CallIs ==
  ASSUME NEW p \in Providers, CheckedTrees, Call(p)
  PROVE  /\ Idle /\ by' = p /\ cur' = <<>> /\ prev' = <<>> /\ op' \in {"dryRun", "merge", "delete"}
         /\ op' = "dryRun" => p \in checked \ registered
         /\ op' = "merge" => ~Own(p)
         /\ op' = "delete" <=> p \in registered
         /\ \A q \in DOMAIN Model[p] : KindsOk(Model[p], q)
         /\ checked' = checked \ {p} /\ UNCHANGED <<tree, holes, registered>>
         /\ degraded' = (degraded \/ \E r \in registered \ {p} : Entangled(p, r))
         /\ lost' = IF op' = "delete" THEN lost \ {p} ELSE lost
  <1>1. ASSUME NEW what, Begin(what, p)
        PROVE  /\ Idle /\ by' = p /\ cur' = <<>> /\ prev' = <<>> /\ op' = what
               /\ checked' = checked \ {p} /\ UNCHANGED <<tree, holes>>
               /\ degraded' = (degraded \/ \E r \in registered \ {p} : Entangled(p, r))
               /\ lost' = IF what = "delete" THEN lost \ {p} ELSE lost
    BY <1>1 DEF Begin
  <1>2. p \in registered \cup checked => \A q \in DOMAIN Model[p] : KindsOk(Model[p], q)
    BY DEF CheckedTrees
  <1>3. ~Own(p) => \A q \in DOMAIN Model[p] : KindsOk(Model[p], q) BY DatamodelAssumption DEF Own
  <1>4. CASE registerProvider(p)
    <2>1. Begin("dryRun", p) /\ p \in checked \ registered /\ registered' = registered
      BY <1>4 DEF registerProvider
    <2>. QED BY <1>1, <1>2, <2>1
  <1>5. CASE unregisterProvider(p)
    <2>1. Begin("delete", p) /\ p \in registered /\ registered' = registered
      BY <1>5 DEF unregisterProvider
    <2>. QED BY <1>1, <1>2, <2>1
  <1>6. CASE ReceiveAdd(p)
    <2>1. Begin("merge", p) /\ ~Own(p) /\ p \notin registered /\ registered' = registered
      BY <1>6 DEF ReceiveAdd
    <2>. QED BY <1>1, <1>3, <2>1
  <1>7. CASE ReceiveDel(p)
    <2>1. Begin("delete", p) /\ p \in registered /\ registered' = registered
      BY <1>7 DEF ReceiveDel
    <2>. QED BY <1>1, <1>2, <2>1
  <1>. QED BY <1>4, <1>5, <1>6, <1>7 DEF Call

(* The beginning of an operation keeps Base.                               *)
LEMMA CallBase == ASSUME Base, NEW p \in Providers, Call(p) PROVE Base'
  <1>1. /\ Idle /\ by' = p /\ cur' = <<>> /\ prev' = <<>> /\ op' \in {"dryRun", "merge", "delete"}
        /\ op' = "dryRun" => p \in checked
        /\ op' = "delete" <=> p \in registered
        /\ \A q \in DOMAIN Model[p] : KindsOk(Model[p], q)
        /\ checked' = checked \ {p} /\ UNCHANGED <<tree, holes, registered>>
        /\ degraded' = (degraded \/ \E r \in registered \ {p} : Entangled(p, r))
        /\ lost' \subseteq lost
    BY CallIs DEF Base
  <1>2. <<>> \in DOMAIN Model[p] BY Constants_, TreePath
  <1>3. TypeOK' BY <1>1, Constants_ DEF Base, TypeOK
  <1>4. op' = "dryRun" => Own(p) BY <1>1 DEF Base, TypeOK, Own
  <1>5. WalkOk' BY <1>1, <1>2, <1>4 DEF WalkOk, Running, new, Own
  <1>6. CheckedTrees' BY <1>1 DEF Base, CheckedTrees
  <1>. QED BY <1>3, <1>5, <1>6 DEF Base

(* The check before an operation keeps Base.                               *)
LEMMA CheckBase == ASSUME Base, NEW p \in Providers, Check(p) PROVE Base'
  <1>1. /\ p \in Local /\ p # by /\ checked' = checked \cup {p} /\ lost' \subseteq lost
        /\ UNCHANGED <<tree, holes, op, by, cur, prev, registered, degraded>>
    BY DEF Check, walk, Own
  <1>2. \A q \in DOMAIN Model[p] : KindsOk(Model[p], q)
    BY DEF Check, checkDataModelSyntax, NodeSyntaxOk
  <1>3. TypeOK' BY <1>1 DEF Base, TypeOK
  <1>4. WalkOk' BY <1>1 DEF Base, WalkOk, Running, new, Own
  <1>5. CheckedTrees' BY <1>1, <1>2 DEF Base, CheckedTrees
  <1>. QED BY <1>3, <1>4, <1>5 DEF Base

(* The datamodel begins with the root alone.                               *)
LEMMA InitBase == ASSUME Init PROVE Base
  <1>1. <<>> \in Paths BY Constants_
  <1>2. DOMAIN Root = {<<>>} BY DEF Root
  <1>3. TypeOK BY <1>1, <1>2 DEF Init, TypeOK
  <1>4. WalkOk /\ CheckedTrees BY DEF Init, WalkOk, CheckedTrees, Running
  <1>. QED BY <1>3, <1>4 DEF Base

(* Every step keeps Base.                                                  *)
LEMMA NextBase == ASSUME Base, [Next]_vars PROVE Base'
  <1>0. TypeOK /\ WalkOk /\ CheckedTrees BY DEF Base
  <1>1. Data /\ registered \subseteq Providers /\ cur \in Paths BY <1>0 DEF TypeOK, Data
  <1>2. ASSUME Running, GoesOn \/ Ends \/ BreaksOff, checked' = checked, Data' PROVE Base'
    <2>1. /\ WalkOk' /\ CheckedTrees'
          /\ by' \in Providers \cup {NoProvider} /\ cur' \in Paths /\ prev' \in Paths
          /\ op' \in {"idle", "dryRun", "merge", "delete", "crashed"}
          /\ registered' \subseteq registered \cup {by}
      BY <1>0, <1>2, WalkStep
    <2>2. by \in Providers BY <1>0, <1>2, WalkFacts
    <2>3. TypeOK' BY <1>1, <1>2, <2>1, <2>2 DEF TypeOK, Data
    <2>. QED BY <2>1, <2>3 DEF Base
  <1>9. Merge \/ Delete => checked' = checked
    BY DEF Merge, MergeRoot, MergePresent, MergeRefused, MergeAbsent, MergeEnd,
           Delete, DeleteLeaf, DeleteDown, DeleteMissing, DeleteShrink, DeleteEmpty
  <1>3. CASE Merge BY <1>0, <1>1, <1>2, <1>3, <1>9, MergeMoves, MergeData
  <1>4. CASE Delete BY <1>0, <1>1, <1>2, <1>4, <1>9, DeleteMoves, DeleteData
  <1>5. ASSUME NEW p \in Providers, Call(p) PROVE Base' BY <1>5, CallBase
  <1>6. ASSUME NEW p \in Providers, Check(p) PROVE Base' BY <1>6, CheckBase
  <1>7. CASE Race
    <2>1. op' = "raced" /\ UNCHANGED <<tree, holes, by, cur, prev, checked, registered, lost, degraded>>
      BY <1>7 DEF Race
    <2>2. TypeOK' BY <1>0, <2>1 DEF TypeOK
    <2>3. WalkOk' BY <2>1 DEF WalkOk, Running
    <2>4. CheckedTrees' BY <1>0, <2>1 DEF CheckedTrees
    <2>. QED BY <2>2, <2>3, <2>4 DEF Base
  <1>8. CASE UNCHANGED vars
    <2>1. UNCHANGED <<tree, holes, op, by, cur, prev, registered, lost, degraded, checked>>
      BY <1>8 DEF vars, walk
    <2>2. TypeOK' BY <1>0, <2>1 DEF TypeOK
    <2>3. WalkOk' BY <1>0, <2>1 DEF WalkOk, Running, new, Own
    <2>4. CheckedTrees' BY <1>0, <2>1 DEF CheckedTrees
    <2>. QED BY <2>2, <2>3, <2>4 DEF Base
  <1>. QED BY <1>3, <1>4, <1>5, <1>6, <1>7, <1>8 DEF Next, Call

(* For any trees that pass the check, the cursors never leave the tree     *)
(* they go through, and nothing but paths of registered trees comes into   *)
(* the datamodel.                                                          *)
THEOREM TypeCorrect == Spec => []TypeOK
  <1>1. Base => TypeOK BY DEF Base
  <1>. QED BY <1>1, InitBase, NextBase, PTL DEF Spec

-----------------------------------------------------------------------------
(* What the datamodel has of a tree, and how a step changes that.          *)

(* Standing by cases, in a state and in the next one.                      *)
LEMMA StandingIs ==
  ASSUME NEW p
  PROVE  /\ p = by /\ op = "merge" => Standing(p) = Visited
         /\ p = by /\ op = "delete" => Standing(p) = DOMAIN new \ Finished
         /\ ~(p = by /\ op \in {"merge", "delete"}) =>
              Standing(p) = IF p \in registered THEN DOMAIN Model[p] ELSE {}
  <1>1. CASE p = by /\ op = "merge" BY <1>1, Zenon DEF Standing
  <1>2. CASE p = by /\ op = "delete" BY <1>2 DEF Standing
  <1>3. CASE ~(p = by /\ op \in {"merge", "delete"})
    BY <1>3 DEF Standing
  <1>. QED BY <1>1, <1>2, <1>3

LEMMA StandingNext ==
  ASSUME NEW p
  PROVE  /\ p = by' /\ op' = "merge" => Standing(p)' = Visited'
         /\ p = by' /\ op' = "delete" => Standing(p)' = DOMAIN new' \ Finished'
         /\ ~(p = by' /\ op' \in {"merge", "delete"}) =>
              Standing(p)' = IF p \in registered' THEN DOMAIN Model[p] ELSE {}
  <1>1. CASE p = by' /\ op' = "merge" BY <1>1, Zenon DEF Standing
  <1>2. CASE p = by' /\ op' = "delete" BY <1>2 DEF Standing
  <1>3. CASE ~(p = by' /\ op' \in {"merge", "delete"})
    BY <1>3 DEF Standing
  <1>. QED BY <1>1, <1>2, <1>3

(* Only nodes of its tree stand for a provider.                            *)
LEMMA StandingInTree == ASSUME NEW p PROVE Standing(p) \subseteq DOMAIN Model[p]
  <1>1. Visited \subseteq DOMAIN new BY DEF Visited, Passed
  <1>. QED BY <1>1, StandingIs DEF new

(* A step that changes neither the datamodel nor what there is of a tree.  *)
LEMMA TreeStays ==
  ASSUME TreeStands, SharedFit, tree' = tree, \A p \in Providers : Standing(p)' = Standing(p)
  PROVE  TreeStands' /\ SharedFit'
  <1>1. TreeStands' BY DEF TreeStands
  <1>2. SharedFit' BY DEF SharedFit, Fits
  <1>. QED BY <1>1, <1>2

(* The merge gets on.                                                      *)
LEMMA RootPassed == ASSUME NEW t, IsTree(t) PROVE Passed(t, <<>>) = {} /\ Left(t, <<>>, 0) = {}
  <1> DEFINE r == <<>>
  <1>0. DOMAIN t \subseteq Path /\ r \in Path /\ Len(r) = 0 BY TreePath
  <1>. HIDE DEF r
  <1>1. \A q \in DOMAIN t : ~Before(q, r)
    <2>1. TAKE q \in DOMAIN t
    <2>2. q \in Path /\ Len(q) \in Nat BY <1>0, PathElement
    <2>3. IsPrefix(r, q) BY <1>0, <2>2, PrefixIs
    <2>. QED BY <1>0, <2>2, <2>3, PrefixNotBefore
  <1>2. \A q \in DOMAIN t : ~IsStrictPrefix(q, r)
    <2>1. TAKE q \in DOMAIN t
    <2>2. q \in Path /\ Len(q) \in Nat BY <1>0, PathElement
    <2>. QED BY <1>0, <2>2, StrictIs
  <1>3. \A q \in DOMAIN t : IsStrictPrefix(r, q) => ~(q[Len(r) + 1] <= 0)
    <2>1. TAKE q \in DOMAIN t
    <2>2. HAVE IsStrictPrefix(r, q)
    <2>3. q[Len(r) + 1] \in Children(t, r) BY <1>0, <2>2, BelowChild
    <2>4. q[Len(r) + 1] \in Nat \ {0} BY <2>3, ChildrenNames
    <2>. QED BY <2>4
  <1>. QED BY <1>1, <1>2, <1>3 DEF Passed, Left, r

(* What a step of the merge passes.                                        *)
LEMMA VisitedGrows ==
  ASSUME WalkOk, Merge, GoesOn, op' = op
  PROVE  /\ MergeRoot => Visited = {} /\ Visited' = {<<>>}
         /\ MergePresent /\ Children(new, cur) # {} => Visited' = Visited \cup {cur}
         /\ MergePresent /\ Children(new, cur) = {} => Visited' = Visited
         /\ MergeAbsent => Visited' = Visited \cup Below(new, cur)
  <1>0. Running /\ op \in {"dryRun", "merge"}
    BY DEF Merge, MergeRoot, MergePresent, MergeRefused, MergeAbsent, MergeEnd, Running
  <1>1. IsTree(new) /\ cur \in DOMAIN new /\ <<>> \in DOMAIN new BY <1>0, WalkFacts
  <1>2. new' = new BY DEF GoesOn, new
  <1>3. op # "delete" /\ cur # <<>> => prev # <<>> BY <1>0 DEF WalkOk
  <1>4. ASSUME MergeRoot PROVE Visited = {} /\ Visited' = {<<>>}
    <2>1. KindsOk(new, <<>>) /\ new[<<>>].type = "MODEL" BY <1>0, <1>1 DEF WalkOk, IsTree, Node
    <2>2. Children(new, <<>>) # {} BY <2>1 DEF KindsOk, NeedsChildren
    <2>3. Passed(new, Child(new, <<>>)) = {<<>>} BY <1>1, <2>2, FirstChild, RootPassed
    <2>4. cur' = Child(new, <<>>) /\ cur' # <<>> BY <1>1, <1>4, <2>2, FirstChild DEF MergeRoot, Goto
    <2>. QED BY <1>2, <1>4, <2>3, <2>4 DEF MergeRoot, Visited
  <1>5. ASSUME MergePresent, Children(new, cur) # {} PROVE Visited' = Visited \cup {cur}
    <2>1. cur # <<>> /\ cur' = Child(new, cur) BY <1>5 DEF MergePresent, Goto
    <2>2. cur' # <<>> /\ Passed(new, cur') = Passed(new, cur) \cup {cur}
      BY <1>1, <1>5, <2>1, FirstChild
    <2>. QED BY <1>2, <2>1, <2>2 DEF Visited
  <1>6. ASSUME MergePresent, Children(new, cur) = {} PROVE Visited' = Visited
    <2>1. cur' = cur /\ prev' = prev BY <1>6 DEF MergePresent, Goto
    <2>. QED BY <1>2, <2>1 DEF Visited
  <1>7. ASSUME MergeAbsent PROVE Visited' = Visited \cup Below(new, cur)
    <2>1. cur # <<>> /\ cur' = After(new, cur) /\ prev' = prev /\ prev # <<>>
      BY <1>0, <1>3, <1>7 DEF MergeAbsent, Goto
    <2>2. CASE Turns(new, cur) = {}
      <3>1. cur' = <<>> /\ DOMAIN new = Passed(new, cur) \cup Below(new, cur)
        BY <1>1, <2>1, <2>2, AfterLast
      <3>. QED BY <1>2, <2>1, <3>1 DEF Visited
    <2>3. CASE Turns(new, cur) # {}
      <3>1. cur' # <<>> /\ Passed(new, cur') = Passed(new, cur) \cup Below(new, cur)
        BY <1>1, <2>1, <2>3, AfterTurn
      <3>. QED BY <1>2, <2>1, <3>1 DEF Visited
    <2>. QED BY <2>2, <2>3
  <1>. QED BY <1>4, <1>5, <1>6, <1>7

(* A node that is present and not refused fits all that have it.           *)
LEMMA PresentFits ==
  ASSUME WalkOk, TreeStands, SharedFit, Mergeable, op \in {"dryRun", "merge"}, cur # <<>>,
         ~Refused(tree[cur].node), NEW r \in registered, registered \subseteq Providers,
         cur \in DOMAIN Model[r]
  PROVE  Fits(by, r, cur)
  <1>0. Running BY DEF Running
  <1>1. /\ by \in Providers /\ IsTree(new) /\ cur \in DOMAIN new /\ new = Model[by] /\ r \in Providers
        /\ IsTree(Model[r]) /\ by # r
    <2>1. op # "delete" OBVIOUS
    <2>. QED BY <1>0, <2>1, WalkFacts, Constants_ DEF new, WalkOk
  <1>2. Standing(r) = DOMAIN Model[r] BY <1>1, StandingIs
  <1> DEFINE n == new[cur]
             o == Model[r][cur]
             f == Front(cur)
  <1>3. tree[cur].node = o BY <1>1, <1>2 DEF TreeStands
  <1>4. /\ o.type = n.type /\ o.array = n.array /\ n.type \notin {"COMPLEX", "SOURCE", "EVENT"}
        /\ n.type = "OBJECT" => o.info = n.info
    BY <1>3 DEF Refused
  <1>5. f \in DOMAIN new /\ f \in DOMAIN Model[r] /\ IsStrictPrefix(f, cur) BY <1>1, FrontInTree
  <1>6. f \in Visited BY <1>5 DEF Visited, Passed
  <1>7. Fits(by, r, f)
    <2>1. CASE op = "dryRun" BY <1>5, <1>6, <2>1 DEF Mergeable
    <2>2. CASE op = "merge"
      <3>1. Standing(by) = Visited BY <2>2, StandingIs
      <3>. QED BY <1>1, <1>2, <1>5, <1>6, <3>1 DEF SharedFit
    <2>. QED BY <2>1, <2>2
  <1>8. n.type \in AllowedTypes(new[f].type)
    <2>1. cur \in Path BY <1>1, TreePath
    <2>2. Append(f, Last(cur)) = cur /\ Last(cur) \in Names BY <2>1, AppendFrontLast, PathFront
    <2>3. Last(cur) \in Children(new, f) BY <1>1, <2>2 DEF Children
    <2>4. KindsOk(new, f) BY <1>0, <1>5 DEF WalkOk
    <2>5. \A m \in Children(new, f) : new[Append(f, m)].type \in AllowedTypes(new[f].type)
      BY <2>4, Zenon DEF KindsOk
    <2>. QED BY <2>2, <2>3, <2>5
  <1>9. n.type \in {"NAMESPACE", "OBJECT"}
    <2>1. new[f].type \in Shareable BY <1>1, <1>7 DEF Fits
    <2>2. AllowedTypes("MODEL") = {"NAMESPACE"} BY DEF AllowedTypes
    <2>3. AllowedTypes("NAMESPACE") = {"NAMESPACE", "SOURCE", "EVENT", "OBJECT", "COMPLEX"}
      BY DEF AllowedTypes
    <2>4. AllowedTypes("OBJECT") = {"SOURCE", "EVENT"} BY DEF AllowedTypes
    <2>. HIDE DEF n
    <2>. QED BY <1>4, <1>8, <2>1, <2>2, <2>3, <2>4 DEF Shareable
  <1>10. o.info = n.info BY <1>1, <1>4, <1>9 DEF IsTree
  <1>11. n = Node(n.type, n.array, n.info) /\ o = Node(o.type, o.array, o.info) BY <1>1 DEF IsTree
  <1>12. o = n
    <2>. HIDE DEF n, o
    <2>. QED BY <1>4, <1>10, <1>11
  <1>. QED BY <1>1, <1>9, <1>12 DEF Fits, Shareable

(* The merge goes on and is through with the nodes X as well.              *)
LEMMA MergeStep ==
  ASSUME Base, Sound, op \in {"dryRun", "merge"}, GoesOn, op' = op, UNCHANGED <<holes, checked, lost>>,
         NEW X \in SUBSET DOMAIN new, Visited' = Visited \cup X,
         \A r \in registered : \A q \in X \cap DOMAIN Model[r] : Fits(by, r, q),
         op = "dryRun" => tree' = tree,
         op = "merge" => /\ DOMAIN tree' = DOMAIN tree \cup X
                         /\ \A q \in DOMAIN tree : tree'[q] = tree[q]
                         /\ \A q \in X : tree'[q].node = new[q]
  PROVE  Sound'
  <1>0. /\ TreeStands /\ SharedFit /\ Mergeable /\ Untangled /\ HolesOnPath /\ NamesStand
        /\ WalkOk /\ registered \subseteq Providers
    BY DEF Sound, Base, TypeOK
  <1>1. /\ op \notin {"delete", "crashed"} /\ op' \notin {"delete", "crashed"} /\ Running /\ Running'
        /\ by' = by /\ registered' = registered /\ new' = new
    BY DEF Running, GoesOn, new
  <1>2. DOMAIN tree \subseteq DOMAIN tree' OBVIOUS
  <1>3. \A p \in Providers : p # by \/ op = "dryRun" => Standing(p)' = Standing(p)
    <2>1. TAKE p \in Providers
    <2>2. HAVE p # by \/ op = "dryRun"
    <2>3. Standing(p) = IF p \in registered THEN DOMAIN Model[p] ELSE {} BY <2>2, <1>1, StandingIs
    <2>4. Standing(p)' = IF p \in registered' THEN DOMAIN Model[p] ELSE {}
      <3>1. ~(p = by' /\ op' \in {"merge", "delete"}) BY <2>2, <1>1
      <3>. QED BY <3>1, StandingNext
    <2>. QED BY <1>1, <2>3, <2>4
  <1>4. op = "merge" => Standing(by)' = Standing(by) \cup X
    <2>1. HAVE op = "merge"
    <2>2. Standing(by) = Visited BY <2>1, StandingIs
    <2>3. Standing(by)' = Visited' BY <1>1, <2>1 DEF Standing
    <2>. QED BY <2>2, <2>3
  <1>5. TreeStands' /\ SharedFit'
    <2>1. CASE op = "dryRun" BY <1>0, <1>3, <2>1, TreeStays
    <2>2. CASE op = "merge"
      <3>1. by \in Providers BY <1>0, <1>1, WalkFacts
      <3>2. <<>> \in DOMAIN tree BY <1>0 DEF TreeStands
      <3>3. tree'[<<>>].node = Node("MODEL", FALSE, "-") BY <1>0, <2>2, <3>2 DEF TreeStands
      <3>4. UNION {Standing(p)' : p \in Providers} = X \cup UNION {Standing(p) : p \in Providers}
        <4>1. \A q : (\E p \in Providers : q \in Standing(p)') <=>
                       (\E p \in Providers : q \in Standing(p)) \/ q \in X
          BY <1>1, <1>3, <1>4, <2>2, <3>1
        <4>. QED BY <4>1
      <3>5. DOMAIN tree' = {<<>>} \cup UNION {Standing(p)' : p \in Providers}
        BY <1>0, <2>2, <3>4 DEF TreeStands
      <3>6. \A p \in Providers : \A q \in Standing(p)' : tree'[q].node = Model[p][q]
        <4>1. \A p \in Providers : \A q \in Standing(p) : q \in DOMAIN tree /\ tree[q].node = Model[p][q]
          BY <1>0 DEF TreeStands
        <4>. QED BY <1>1, <1>3, <1>4, <2>2, <4>1 DEF new
      <3>7. ASSUME NEW p \in Providers, NEW r \in Providers, p # r,
                   NEW q \in Standing(p)' \cap Standing(r)'
            PROVE  Fits(p, r, q)
        <4>1. CASE p # by /\ r # by BY <1>0, <1>3, <3>7, <4>1 DEF SharedFit
        <4>2. ASSUME NEW s \in Providers, s # by, q \in Standing(s)', q \in Standing(by)'
              PROVE  Fits(by, s, q)
          <5>1. q \in Standing(s) BY <1>3, <4>2
          <5>2. CASE q \in Standing(by) BY <1>0, <3>1, <4>2, <5>1, <5>2 DEF SharedFit
          <5>3. CASE q \in X
            <6>1. s \in registered /\ q \in DOMAIN Model[s] BY <4>2, <5>1, StandingIs
            <6>. QED BY <5>3, <6>1
          <5>. QED BY <1>1, <1>4, <2>2, <4>2, <5>2, <5>3
        <4>3. CASE p = by BY <1>1, <3>7, <4>2, <4>3
        <4>4. CASE r = by
          <5>1. Fits(by, p, q) BY <1>1, <3>7, <4>2, <4>4
          <5>. QED BY <4>4, <5>1 DEF Fits
        <4>. QED BY <4>1, <4>3, <4>4
      <3>8. SharedFit' BY <3>7 DEF SharedFit, Fits
      <3>9. TreeStands' BY <3>3, <3>5, <3>6 DEF TreeStands
      <3>. QED BY <3>8, <3>9
    <2>. QED BY <2>1, <2>2
  <1>6. Mergeable'
    <2>1. \A r \in registered : op = "dryRun" =>
            \A q \in Visited' \cap DOMAIN Model[r] : Fits(by, r, q)
      BY <1>0 DEF Mergeable
    <2>2. \A r \in registered : op = "merge" /\ Own(by) =>
            \A q \in DOMAIN new \cap DOMAIN Model[r] : Fits(by, r, q)
      BY <1>0, Zenon DEF Mergeable
    <2>. QED BY <1>1, <2>1, <2>2 DEF Mergeable, Fits, Own
  <1>7. Untangled' BY <1>0, <1>1 DEF Untangled, Entangled, Childless
  <1>8. HolesOnPath' BY <1>0, <1>1 DEF HolesOnPath
  <1>9. NamesStand'
    <2>1. \A p : Uses(p)' = Uses(p) BY DEF Uses
    <2>2. \A p \in (registered \cap Local) \ lost : Uses(p) \subseteq DOMAIN tree
      BY <1>0, <1>1 DEF NamesStand
    <2>3. Own(by) /\ by \notin lost => Uses(by) \subseteq DOMAIN tree \cup DOMAIN new
      BY <1>0 DEF NamesStand
    <2>4. \A p \in checked \ (registered \cup lost) : Uses(p) \subseteq DOMAIN tree \cup DOMAIN Model[p]
      BY <1>0 DEF NamesStand
    <2>. QED BY <1>1, <1>2, <2>1, <2>2, <2>3, <2>4 DEF NamesStand, Own
  <1>. QED BY <1>5, <1>6, <1>7, <1>8, <1>9 DEF Sound

(* Who has a node that is present at the cursor.                           *)
LEMMA PresentHad ==
  ASSUME WalkOk, TreeStands, op \in {"dryRun", "merge"}, cur # <<>>, Present
  PROVE  \E r \in registered \cap Providers : cur \in DOMAIN Model[r] /\ tree[cur].node = Model[r][cur]
  <1>1. Running BY DEF Running
  <1>2. PICK r \in Providers : cur \in Standing(r) BY DEF Present, TreeStands
  <1>3. cur \notin Visited
    <2>1. cur \in Path BY <1>1, WalkFacts
    <2>. QED BY <2>1, PrefixOfItself DEF Visited, Passed, IsStrictPrefix
  <1>4. ~(r = by /\ op \in {"merge", "delete"}) BY <1>2, <1>3, StandingIs
  <1>5. r \in registered /\ cur \in DOMAIN Model[r] BY <1>2, <1>4, StandingIs
  <1>. QED BY <1>2, <1>5 DEF TreeStands

(* A node that is not present has nothing below it either.                 *)
LEMMA AbsentBelow ==
  ASSUME WalkOk, TreeStands, op \in {"dryRun", "merge"}, cur # <<>>, ~Present
  PROVE  /\ Below(new, cur) \cap DOMAIN tree = {}
         /\ \A r \in registered \cap Providers : Below(new, cur) \cap DOMAIN Model[r] = {}
  <1>1. Running /\ op # "delete" BY DEF Running
  <1>2. IsTree(new) /\ cur \in DOMAIN new /\ cur \in Path /\ DOMAIN new \subseteq Path /\ by \notin registered
    BY <1>1, WalkFacts DEF WalkOk
  <1>3. ASSUME NEW r \in registered \cap Providers, NEW q \in Below(new, cur), q \in DOMAIN Model[r]
        PROVE  FALSE
    <2>1. cur \in DOMAIN Model[r] BY <1>2, <1>3, TreePrefix, Constants_ DEF Below
    <2>2. Standing(r) = DOMAIN Model[r] BY <1>2, <1>3, StandingIs
    <2>. QED BY <2>1, <2>2 DEF TreeStands, Present
  <1>4. ASSUME NEW q \in Below(new, cur), q \in DOMAIN tree PROVE FALSE
    <2>1. q \in Path /\ IsPrefix(cur, q) BY <1>2 DEF Below
    <2>2. q # <<>>
      <3>1. SUFFICES ASSUME q = <<>> PROVE FALSE OBVIOUS
      <3>2. Len(cur) <= 0 /\ Len(cur) \in Nat BY <1>2, <2>1, <3>1, PrefixIs, PathElement
      <3>. QED BY <1>2, <3>2 DEF Path
    <2>3. PICK r \in Providers : q \in Standing(r) BY <1>4, <2>2 DEF TreeStands
    <2>4. q \notin Visited
      <3>1. ~Before(q, cur) BY <1>2, <2>1, PrefixNotBefore
      <3>2. ~IsStrictPrefix(q, cur) BY <1>2, <2>1, PrefixBoth DEF IsStrictPrefix
      <3>. QED BY <3>1, <3>2 DEF Visited, Passed
    <2>5. r \in registered /\ q \in DOMAIN Model[r]
      <3>1. ~(r = by /\ op \in {"merge", "delete"}) BY <1>1, <2>3, <2>4, StandingIs
      <3>. QED BY <2>3, <3>1, StandingIs
    <2>. QED BY <1>3, <2>5
  <1>. QED BY <1>3, <1>4

(* A step of a walk that goes on.                                          *)
LEMMA MergeOn ==
  ASSUME Base, Sound, MergeRoot \/ MergePresent \/ MergeAbsent, ~degraded'
  PROVE  Sound'
  <1>0. /\ TreeStands /\ SharedFit /\ Mergeable /\ WalkOk /\ registered \subseteq Providers
    BY DEF Sound, Base, TypeOK
  <1>1. /\ op \in {"dryRun", "merge"} /\ op' = op /\ Merge
    BY DEF Merge, MergeRoot, MergePresent, MergeAbsent, Goto
  <1>2. Running /\ GoesOn BY <1>0, <1>1, MergeMoves DEF Ends
  <1>3. IsTree(new) /\ cur \in DOMAIN new /\ by \in Providers /\ <<>> \in DOMAIN new
    BY <1>0, <1>2, WalkFacts
  <1>4. CASE MergeRoot
    <2>1. Visited' = Visited \cup {<<>>} BY <1>0, <1>1, <1>2, <1>4, VisitedGrows
    <2>2. new[<<>>] = Node("MODEL", FALSE, "-") BY <1>3 DEF IsTree
    <2>3. ASSUME NEW r \in registered PROVE Fits(by, r, <<>>)
      <3>1. Model[r][<<>>] = Node("MODEL", FALSE, "-") BY <1>0, Constants_ DEF IsTree
      <3>. QED BY <2>2, <3>1 DEF Fits, new, Shareable, Node
    <2>4. tree' = tree /\ UNCHANGED <<holes, checked, lost>> BY <1>4 DEF MergeRoot
    <2>5. <<>> \in DOMAIN tree /\ tree[<<>>].node = Node("MODEL", FALSE, "-") BY <1>0 DEF TreeStands
    <2> DEFINE X == {<<>>}
    <2>6. X \in SUBSET DOMAIN new /\ Visited' = Visited \cup X /\ \A q \in X : q = <<>>
      BY <1>3, <2>1
    <2>7. DOMAIN tree = DOMAIN tree \cup X BY <2>5
    <2>. HIDE DEF X
    <2>. QED BY <1>1, <1>2, <2>2, <2>3, <2>4, <2>5, <2>6, <2>7, MergeStep
  <1>5. CASE MergePresent
    <2>1. tree' = tree /\ UNCHANGED <<holes, checked, lost>> /\ cur # <<>> /\ Present
          /\ ~Refused(tree[cur].node) BY <1>5 DEF MergePresent
    <2>2. CASE Children(new, cur) = {}
      <3>1. Visited' = Visited \cup {} BY <1>0, <1>1, <1>2, <1>5, <2>2, VisitedGrows
      <3> DEFINE X == {}
      <3>2. X \in SUBSET DOMAIN new /\ Visited' = Visited \cup X /\ \A q \in X : FALSE BY <3>1
      <3>3. DOMAIN tree = DOMAIN tree \cup X OBVIOUS
      <3>. HIDE DEF X
      <3>. QED BY <1>1, <1>2, <2>1, <3>2, <3>3, MergeStep
    <2>3. CASE Children(new, cur) # {}
      <3>1. Visited' = Visited \cup {cur} BY <1>0, <1>1, <1>2, <1>5, <2>3, VisitedGrows
      <3>2. \A r \in registered : cur \in DOMAIN Model[r] => Fits(by, r, cur)
        BY <1>0, <1>1, <2>1, PresentFits
      <3>3. tree[cur].node = new[cur] /\ cur \in DOMAIN tree
        <4>1. PICK r \in registered : cur \in DOMAIN Model[r] /\ tree[cur].node = Model[r][cur]
          BY <1>0, <1>1, <2>1, PresentHad
        <4>. QED BY <2>1, <3>2, <4>1 DEF Fits, new, Present
      <3> DEFINE X == {cur}
      <3>4. X \in SUBSET DOMAIN new /\ Visited' = Visited \cup X /\ \A q \in X : q = cur
        BY <1>3, <3>1
      <3>5. DOMAIN tree = DOMAIN tree \cup X BY <3>3
      <3>. HIDE DEF X
      <3>. QED BY <1>1, <1>2, <2>1, <3>2, <3>3, <3>4, <3>5, MergeStep
    <2>. QED BY <2>2, <2>3
  <1>6. CASE MergeAbsent
    <2>1. UNCHANGED <<holes, checked, lost>> /\ cur # <<>> /\ ~Present BY <1>6 DEF MergeAbsent
    <2>2. /\ Below(new, cur) \cap DOMAIN tree = {}
          /\ \A r \in registered : Below(new, cur) \cap DOMAIN Model[r] = {}
      BY <1>0, <1>1, <2>1, AbsentBelow
    <2>3. op = "dryRun" => tree' = tree BY <1>6 DEF MergeAbsent
    <2> DEFINE X == Below(new, cur)
    <2>4. X \in SUBSET DOMAIN new BY DEF Below
    <2>5. Visited' = Visited \cup X BY <1>0, <1>1, <1>2, <1>6, VisitedGrows
    <2>6. ASSUME op = "merge"
          PROVE  /\ DOMAIN tree' = DOMAIN tree \cup X
                 /\ \A q \in DOMAIN tree : tree'[q] = tree[q]
                 /\ \A q \in X : tree'[q].node = new[q]
      <3> DEFINE C == Copy(new, Own(by))
                 g(r) == IF r \in DOMAIN tree THEN tree[r] ELSE C[r]
      <3>1. tree' = [r \in DOMAIN tree \cup X |-> g(r)]
        BY <1>6, <2>6 DEF MergeAbsent, addSubtree
      <3>2. \A q \in X : C[q].node = new[q] BY <2>4 DEF Copy
      <3>3. X \cap DOMAIN tree = {} BY <2>2
      <3>4. \A q \in DOMAIN tree : g(q) = tree[q] OBVIOUS
      <3>5. \A q \in X : g(q) = C[q] BY <3>3
      <3>. HIDE DEF X, C, g
      <3>6. DOMAIN tree' = DOMAIN tree \cup X BY <3>1
      <3>7. \A q \in DOMAIN tree : tree'[q] = tree[q] BY <3>1, <3>4
      <3>8. \A q \in X : tree'[q] = C[q] BY <3>1, <3>5
      <3>. QED BY <3>2, <3>6, <3>7, <3>8
    <2>7. \A r \in registered : \A q \in X \cap DOMAIN Model[r] : Fits(by, r, q) BY <2>2
    <2>. HIDE DEF X
    <2>. QED BY <1>1, <1>2, <2>1, <2>3, <2>4, <2>5, <2>6, <2>7, MergeStep
  <1>. QED BY <1>4, <1>5, <1>6

(* A registration that the dry run let pass is not refused.                *)
LEMMA NotRefused ==
  ASSUME Base, Sound, op = "merge", Own(by), cur # <<>>, Present
  PROVE  ~Refused(tree[cur].node)
  <1>0. TreeStands /\ Mergeable /\ WalkOk BY DEF Sound, Base
  <1>1. Running BY DEF Running
  <1>2. PICK r \in registered \cap Providers : cur \in DOMAIN Model[r] /\ tree[cur].node = Model[r][cur]
    BY <1>0, PresentHad
  <1>3. cur \in DOMAIN new BY <1>0, <1>1, WalkFacts
  <1>4. Fits(by, r, cur) BY <1>0, <1>2, <1>3, Zenon DEF Mergeable
  <1>5. tree[cur].node = new[cur] /\ new[cur].type \in Shareable BY <1>2, <1>4 DEF Fits, new
  <1>. QED BY <1>5 DEF Refused, Shareable

(* The end of an operation.                                                *)
LEMMA IdleSound ==
  ASSUME Base, op' = "idle", by' = NoProvider, holes' = {}, TreeStands', SharedFit',
         \A p \in (registered' \cap Local) \ lost' : Uses(p) \subseteq DOMAIN tree',
         \A p \in checked' \ (registered' \cup lost') : Uses(p) \subseteq DOMAIN tree' \cup DOMAIN Model[p]
  PROVE  Sound'
  <1>1. Mergeable' /\ HolesOnPath' BY DEF Mergeable, HolesOnPath
  <1>2. Untangled' BY DEF Untangled, Running
  <1>3. \A p : Uses(p)' = Uses(p) BY DEF Uses
  <1>4. NamesStand' BY <1>3 DEF NamesStand
  <1>. QED BY <1>1, <1>2, <1>4 DEF Sound

(* The merge keeps the invariant.                                          *)
LEMMA MergeSound ==
  ASSUME Base, Sound, Merge, ~degraded'
  PROVE  Sound'
  <1>0. /\ TreeStands /\ SharedFit /\ Mergeable /\ Untangled /\ HolesOnPath /\ NamesStand
        /\ WalkOk /\ registered \subseteq Providers
    BY DEF Sound, Base, TypeOK
  <1>1. Running /\ op \in {"dryRun", "merge"} /\ op \notin {"delete", "crashed"} /\ holes = {}
    <2>1. op \in {"dryRun", "merge"}
      BY DEF Merge, MergeRoot, MergePresent, MergeRefused, MergeAbsent, MergeEnd
    <2>. QED BY <1>0, <2>1 DEF Running, HolesOnPath
  <1>2. by \in Providers /\ by \notin registered /\ NoProvider \notin Providers
    BY <1>0, <1>1, WalkFacts, Constants_ DEF WalkOk
  <1>3. op = "dryRun" => Own(by) BY <1>0, <1>1 DEF WalkOk
  <1>4. \A p \in Providers : p # by \/ op = "dryRun" =>
          Standing(p) = IF p \in registered THEN DOMAIN Model[p] ELSE {}
    BY <1>1, StandingIs
  <1>5. /\ \A p \in (registered \cap Local) \ lost : Uses(p) \subseteq DOMAIN tree
        /\ \A p \in checked \ (registered \cup lost) : Uses(p) \subseteq DOMAIN tree \cup DOMAIN Model[p]
    BY <1>0, <1>1 DEF NamesStand
  <1>6. CASE MergeRefused
    <2>1. cur # <<>> /\ Present /\ Refused(tree[cur].node) BY <1>6 DEF MergeRefused
    <2>2. op = "dryRun" /\ Own(by)
      <3>1. Own(by) BY <1>6 DEF MergeRefused
      <3>2. op # "merge" BY <2>1, <3>1, NotRefused
      <3>. QED BY <1>1, <3>1, <3>2
    <2>3. op' = "idle" /\ by' = NoProvider /\ registered' = registered /\ UNCHANGED <<tree, holes, checked, lost>>
      BY <1>6, <2>2 DEF MergeRefused, End
    <2>4. \A p \in Providers : Standing(p)' = IF p \in registered' THEN DOMAIN Model[p] ELSE {}
      BY <2>3, StandingNext
    <2>5. TreeStands' /\ SharedFit' BY <1>0, <1>4, <2>2, <2>3, <2>4, TreeStays
    <2>. QED BY <1>0, <1>1, <1>5, <2>3, <2>5, IdleSound
  <1>7. CASE MergeEnd
    <2>1. cur = <<>> /\ prev # <<>> /\ UNCHANGED <<tree, holes, checked, lost>> BY <1>7 DEF MergeEnd
    <2>2. Visited = DOMAIN new BY <2>1 DEF Visited
    <2>3. CASE op = "dryRun"
      <3>1. op' = "merge" /\ prev' = <<>> /\ cur' = <<>> /\ by' = by /\ registered' = registered
        BY <1>7, <2>1, <2>3 DEF MergeEnd
      <3>2. Visited' = {} BY <3>1 DEF Visited
      <3>3. \A p \in Providers : Standing(p)' = IF p \in registered' THEN DOMAIN Model[p] ELSE {}
        <4>1. TAKE p \in Providers
        <4>2. CASE p = by BY <1>2, <3>1, <3>2, <4>2, StandingNext
        <4>3. CASE p # by BY <3>1, <4>3, StandingNext
        <4>. QED BY <4>2, <4>3
      <3>4. TreeStands' /\ SharedFit' BY <1>0, <1>4, <2>1, <2>3, <3>1, <3>3, TreeStays
      <3>5. Mergeable'
        <4>1. \A r \in registered : \A q \in DOMAIN new \cap DOMAIN Model[r] : Fits(by, r, q)
          BY <1>0, <2>2, <2>3 DEF Mergeable
        <4>. QED BY <3>1, <4>1 DEF Mergeable, new, Fits
      <3>6. Untangled' BY <1>0, <1>1, <3>1 DEF Untangled, Entangled, Childless
      <3>7. HolesOnPath' BY <1>1, <2>1, <3>1 DEF HolesOnPath
      <3>8. NamesStand'
        <4>1. \A p : Uses(p)' = Uses(p) BY DEF Uses
        <4>2. Own(by) /\ by \notin lost => Uses(by) \subseteq DOMAIN tree \cup DOMAIN new
          BY <1>0, <1>1 DEF NamesStand
        <4>. QED BY <1>5, <2>1, <3>1, <4>1, <4>2 DEF NamesStand, Own, new
      <3>. QED BY <1>0, <2>1, <3>4, <3>5, <3>6, <3>7, <3>8 DEF Sound
    <2>4. CASE op = "merge"
      <3>1. op' = "idle" /\ by' = NoProvider /\ registered' = registered \cup {by}
        BY <1>7, <2>4 DEF MergeEnd, End
      <3>2. Standing(by) = DOMAIN new BY <2>2, <2>4, StandingIs
      <3>3. \A p \in Providers : Standing(p)' = IF p \in registered' THEN DOMAIN Model[p] ELSE {}
        BY <3>1, StandingNext
      <3>4. \A p \in Providers : Standing(p)' = Standing(p)
        <4>1. TAKE p \in Providers
        <4>2. CASE p = by BY <3>1, <3>2, <3>3, <4>2 DEF new
        <4>3. CASE p # by BY <1>4, <3>1, <3>3, <4>3
        <4>. QED BY <4>2, <4>3
      <3>5. TreeStands' /\ SharedFit' BY <1>0, <2>1, <3>4, TreeStays
      <3>6. DOMAIN new \subseteq DOMAIN tree
        <4>1. \A p \in Providers : Standing(p) \subseteq DOMAIN tree BY <1>0 DEF TreeStands
        <4>. QED BY <1>2, <3>2, <4>1
      <3>7. Own(by) /\ by \notin lost => Uses(by) \subseteq DOMAIN tree
        BY <1>0, <2>4, <3>6 DEF NamesStand
      <3>8. \A p \in (registered' \cap Local) \ lost' : Uses(p) \subseteq DOMAIN tree'
        BY <1>5, <2>1, <3>1, <3>7 DEF Own
      <3>9. \A p \in checked' \ (registered' \cup lost') : Uses(p) \subseteq DOMAIN tree' \cup DOMAIN Model[p]
        BY <1>5, <2>1, <3>1
      <3>. QED BY <1>0, <1>1, <2>1, <3>1, <3>5, <3>8, <3>9, IdleSound
    <2>. QED BY <1>1, <2>3, <2>4
  <1>8. CASE MergeRoot \/ MergePresent \/ MergeAbsent BY <1>8, MergeOn
  <1>. QED BY <1>6, <1>7, <1>8 DEF Merge

-----------------------------------------------------------------------------
(* The deletion gets on.                                                   *)

(* What holds all through a deletion.                                      *)
LEMMA DeleteFacts ==
  ASSUME Base, Sound, op = "delete"
  PROVE  /\ Running /\ WalkOk /\ TreeStands /\ SharedFit /\ registered \subseteq Providers
         /\ by \in Providers /\ by \in registered /\ IsTree(new)
         /\ cur \in DOMAIN new /\ cur \in Path /\ DOMAIN new \subseteq Path
         /\ Standing(by) = DOMAIN new \ Finished
         /\ \A p \in Providers : p # by => Standing(p) = IF p \in registered THEN DOMAIN Model[p] ELSE {}
  <1>1. Running /\ WalkOk /\ TreeStands /\ SharedFit /\ registered \subseteq Providers
    BY DEF Running, Base, Sound, TypeOK
  <1>2. by \in registered BY <1>1 DEF WalkOk
  <1>. QED BY <1>1, <1>2, WalkFacts, StandingIs

(* With all children done the deletion is through with all below the       *)
(* cursor.                                                                 *)
LEMMA AllDone ==
  ASSUME WalkOk, op = "delete", ToDo = {}
  PROVE  /\ cur \notin Finished
         /\ Below(new, cur) \ Finished = {cur}
         /\ cur # <<>> => Left(new, Front(cur), Last(cur)) = Finished \cup {cur}
         /\ cur = <<>> => DOMAIN new = Finished \cup {cur}
  <1>1. Running BY DEF Running
  <1>2. IsTree(new) /\ cur \in DOMAIN new BY <1>1, WalkFacts
  <1>3. ThroughWith \in Nat /\ ToDo = {n \in Children(new, cur) : n > ThroughWith}
    BY <1>1, ThroughWithIs
  <1>4. \A n \in Children(new, cur) : n <= ThroughWith
    <2>1. \A n \in Children(new, cur) : n \in Nat /\ ~(n > ThroughWith) BY <1>3, ChildrenNames
    <2>. QED BY <1>3, <2>1
  <1> DEFINE l == ThroughWith
             F == Left(new, cur, l)
  <1>5. l \in Nat /\ \A n \in Children(new, cur) : n <= l BY <1>3, <1>4
  <1>. HIDE DEF l
  <1>6. /\ cur # <<>> => Left(new, Front(cur), Last(cur)) = F \cup {cur}
        /\ Below(new, cur) \ F = {cur}
        /\ cur = <<>> => DOMAIN new = F \cup {cur}
    BY <1>2, <1>5, LeftUp
  <1>7. cur \notin F BY <1>6
  <1>. QED BY <1>6, <1>7 DEF Finished, l

(* One step up it has left the cursor behind as well.                      *)
LEMMA UpFinished ==
  ASSUME WalkOk, op = "delete", ToDo = {}, cur # <<>>, GoUp
  PROVE  Finished' = Finished \cup {cur} /\ op' = op /\ by' = by /\ new' = new /\ cur' = Front(cur)
  <1>1. op' = op /\ by' = by /\ cur' = Front(cur) /\ prev' = cur BY DEF GoUp, Goto
  <1>2. new' = new BY <1>1 DEF new
  <1>3. ThroughWith' = Last(cur) BY <1>1 DEF ThroughWith
  <1>4. Finished' = Left(new, Front(cur), Last(cur)) BY <1>1, <1>2, <1>3 DEF Finished
  <1>. QED BY <1>1, <1>2, <1>4, AllDone

(* Below the cursor there is only what other providers have.               *)
LEMMA BelowCursor ==
  ASSUME Base, Sound, op = "delete", ToDo = {}
  PROVE  /\ cur \in DOMAIN tree /\ cur \in Standing(by)
         /\ \A q \in Below(tree, cur) \ {cur} : \E r \in registered \ {by} : q \in DOMAIN Model[r]
  <1>1. cur \in Standing(by) BY DeleteFacts, AllDone
  <1>2. cur \in DOMAIN tree BY <1>1, DeleteFacts DEF TreeStands
  <1>3. ASSUME NEW q \in Below(tree, cur) \ {cur} PROVE \E r \in registered \ {by} : q \in DOMAIN Model[r]
    <2>1. q \in DOMAIN tree /\ IsPrefix(cur, q) /\ q # cur BY <1>3 DEF Below
    <2>2. q # <<>>
      <3>1. SUFFICES ASSUME q = <<>> PROVE FALSE OBVIOUS
      <3>2. q \in Path BY <3>1 DEF Path
      <3>3. Len(cur) <= 0 /\ Len(cur) \in Nat
        BY <2>1, <3>1, <3>2, DeleteFacts, PrefixIs, PathElement
      <3>4. cur = <<>> BY <3>3, DeleteFacts DEF Path
      <3>. QED BY <2>1, <3>1, <3>4
    <2>3. PICK r \in Providers : q \in Standing(r) BY <2>1, <2>2, DeleteFacts DEF TreeStands
    <2>4. r # by
      <3>1. SUFFICES ASSUME r = by PROVE FALSE OBVIOUS
      <3>2. q \in Below(new, cur) \ Finished BY <2>1, <2>3, <3>1, DeleteFacts DEF Below
      <3>. QED BY <2>1, <3>2, DeleteFacts, AllDone
    <2>5. r \in registered /\ q \in DOMAIN Model[r] BY <2>3, <2>4, DeleteFacts
    <2>. QED BY <2>4, <2>5
  <1>. QED BY <1>1, <1>2, <1>3

(* A node that goes is no other provider's.                                *)
LEMMA GoesAlone ==
  ASSUME Base, Sound, op = "delete", ToDo = {}, Children(new, cur) = {} \/ Children(tree, cur) = {},
         NEW r \in registered \ {by}
  PROVE  cur \notin DOMAIN Model[r]
  <1>1. SUFFICES ASSUME cur \in DOMAIN Model[r] PROVE FALSE OBVIOUS
  <1>2. r \in Providers /\ Standing(r) = DOMAIN Model[r] /\ by \in Providers BY DeleteFacts
  <1>3. Fits(by, r, cur) BY <1>1, <1>2, BelowCursor, DeleteFacts DEF SharedFit
  <1>4. new[cur] = Model[r][cur] /\ new[cur].type \in Shareable BY <1>3 DEF Fits, new
  <1>5. KindsOk(new, cur) /\ KindsOk(Model[r], cur)
    <2>1. KindsOk(new, cur) BY DeleteFacts DEF WalkOk
    <2>2. KindsOk(Model[r], cur) BY <1>1 DEF Base, CheckedTrees
    <2>. QED BY <2>1, <2>2
  <1>6. ~Entangled(by, r) BY DeleteFacts DEF Sound, Untangled
  <1>7. CASE Children(new, cur) = {}
    <2>1. new[cur].type = "OBJECT" BY <1>4, <1>5, <1>7 DEF KindsOk, NeedsChildren, Shareable
    <2>2. cur \in Childless(by) BY <1>7, <2>1, DeleteFacts DEF Childless, new
    <2>. QED BY <1>1, <1>6, <2>2 DEF Entangled
  <1>8. CASE Children(tree, cur) = {}
    <2>1. DOMAIN Model[r] \subseteq DOMAIN tree
      <3>1. \A p \in Providers : Standing(p) \subseteq DOMAIN tree BY DeleteFacts DEF TreeStands
      <3>. QED BY <1>2, <3>1
    <2>2. Children(Model[r], cur) = {} BY <1>8, <2>1 DEF Children
    <2>3. Model[r][cur].type = "OBJECT" BY <1>4, <1>5, <2>2 DEF KindsOk, NeedsChildren, Shareable
    <2>4. cur \in Childless(r) BY <1>1, <2>2, <2>3 DEF Childless
    <2>5. cur \in DOMAIN Model[by] BY DeleteFacts DEF new
    <2>. QED BY <1>6, <2>4, <2>5 DEF Entangled
  <1>. QED BY <1>7, <1>8

(* Up again: the cursor's node, done with, is gone or another's.           *)
LEMMA DeleteUp ==
  ASSUME Base, Sound, op = "delete", ToDo = {}, cur # <<>>, GoUp, registered' = registered,
         degraded' = degraded
  PROVE  /\ Standing(by)' = Standing(by) \ {cur}
         /\ \A p \in Providers : p # by => Standing(p)' = Standing(p)
         /\ Mergeable' /\ Untangled' /\ by' = by /\ op' = op /\ cur' = Front(cur)
  <1>1. Finished' = Finished \cup {cur} /\ op' = op /\ by' = by /\ new' = new /\ cur' = Front(cur)
    BY DeleteFacts, UpFinished
  <1>2. Standing(by)' = DOMAIN new' \ Finished' BY <1>1 DEF Standing
  <1>3. Standing(by)' = Standing(by) \ {cur} BY <1>1, <1>2, DeleteFacts
  <1>4. ASSUME NEW p \in Providers, p # by PROVE Standing(p)' = Standing(p)
    <2>1. Standing(p)' = IF p \in registered' THEN DOMAIN Model[p] ELSE {}
      BY <1>1, <1>4, StandingNext
    <2>. QED BY <1>4, <2>1, DeleteFacts
  <1>5. Mergeable' BY <1>1 DEF Mergeable
  <1>6. Untangled' BY <1>1 DEF Untangled, Sound, Entangled, Childless, Running
  <1>. QED BY <1>1, <1>3, <1>4, <1>5, <1>6

(* The node at the cursor goes, and nothing of another provider with it.   *)
LEMMA FreeSound ==
  ASSUME Base, Sound, op = "delete", ToDo = {}, cur # <<>>, GoUp, registered' = registered,
         degraded' = degraded, checked' = checked, freeNode(cur),
         Children(new, cur) = {} \/ Children(tree, cur) = {}
  PROVE  Sound'
  <1>0. /\ SharedFit /\ TreeStands /\ HolesOnPath /\ NamesStand /\ WalkOk /\ Running
        /\ IsTree(new) /\ cur \in DOMAIN new /\ cur \in Path /\ by \in Providers
        /\ registered \subseteq Providers
    BY DeleteFacts DEF Sound
  <1>1. /\ Standing(by)' = Standing(by) \ {cur}
        /\ \A p \in Providers : p # by => Standing(p)' = Standing(p)
        /\ Mergeable' /\ Untangled' /\ by' = by /\ op' = op /\ cur' = Front(cur)
    BY DeleteUp
  <1>2. \A r \in registered \ {by} : cur \notin DOMAIN Model[r] BY GoesAlone
  <1>3. Below(tree, cur) = {cur}
    <2>1. \A q \in Below(tree, cur) \ {cur} : \E r \in registered \ {by} : q \in DOMAIN Model[r]
      BY BelowCursor
    <2>2. \A q \in Below(tree, cur) \ {cur} : FALSE
      <3>1. TAKE q \in Below(tree, cur) \ {cur}
      <3>2. PICK r \in registered \ {by} : q \in DOMAIN Model[r] BY <2>1
      <3>3. IsPrefix(cur, q) /\ IsTree(Model[r]) BY <1>0, <3>1, Constants_ DEF Below
      <3>4. cur \in DOMAIN Model[r] BY <1>0, <3>2, <3>3, TreePrefix
      <3>. QED BY <1>2, <3>4
    <2>3. cur \in Below(tree, cur) BY <1>0, BelowCursor, PrefixOfItself DEF Below
    <2>. QED BY <2>2, <2>3
  <1>4. /\ tree' = [r \in DOMAIN tree \ {cur} |-> tree[r]]
        /\ holes' = {r \in holes : ~IsPrefix(cur, r)} \cup {cur}
        /\ lost' = lost \cup {p \in (registered \cup checked) \ {by} : Uses(p) \cap {cur} # {}}
    BY <1>3 DEF freeNode
  <1>5. DOMAIN tree' = DOMAIN tree \ {cur} /\ \A q \in DOMAIN tree' : tree'[q] = tree[q] BY <1>4
  <1>6. \A p \in Providers : p # by => cur \notin Standing(p)
    <2>1. TAKE p \in Providers
    <2>2. HAVE p # by
    <2>3. Standing(p) = IF p \in registered THEN DOMAIN Model[p] ELSE {} BY <2>2, DeleteFacts
    <2>. QED BY <1>2, <2>2, <2>3
  <1>7. \A p \in Providers : Standing(p)' = Standing(p) \ {cur} BY <1>1, <1>6
  <1>8. TreeStands'
    <2>1. /\ DOMAIN tree = {<<>>} \cup UNION {Standing(p) : p \in Providers}
          /\ tree[<<>>].node = Node("MODEL", FALSE, "-")
          /\ \A p \in Providers : \A q \in Standing(p) : tree[q].node = Model[p][q]
      BY <1>0 DEF TreeStands
    <2>2. \A q : (\E p \in Providers : q \in Standing(p)') <=>
                   (\E p \in Providers : q \in Standing(p)) /\ q # cur BY <1>7
    <2>3. UNION {Standing(p)' : p \in Providers} = (UNION {Standing(p) : p \in Providers}) \ {cur}
      BY <2>2
    <2>4. DOMAIN tree' = {<<>>} \cup UNION {Standing(p)' : p \in Providers}
      <3>1. <<>> \in DOMAIN tree' BY <1>5, <2>1
      <3>. QED BY <1>5, <2>1, <2>3, <3>1
    <2>5. tree'[<<>>].node = Node("MODEL", FALSE, "-") BY <1>5, <2>1, <2>4
    <2>6. \A p \in Providers : \A q \in Standing(p)' : tree'[q].node = Model[p][q]
      <3>0. TAKE p \in Providers
      <3>1. TAKE q \in Standing(p)'
      <3>2. q \in Standing(p) /\ q \in DOMAIN tree' BY <1>7, <2>4
      <3>. QED BY <1>5, <2>1, <3>2
    <2>. QED BY <2>4, <2>5, <2>6 DEF TreeStands
  <1>9. SharedFit' BY <1>0, <1>7 DEF SharedFit, Fits
  <1>10. HolesOnPath'
    <2>1. \A h \in holes : h # <<>> /\ IsPrefix(Front(h), cur) BY <1>0 DEF HolesOnPath
    <2>2. cur' \in Path /\ IsStrictPrefix(cur', cur) BY <1>0, <1>1, FrontInTree, TreePath
    <2>3. ASSUME NEW h \in holes' PROVE h # <<>> /\ IsPrefix(Front(h), cur')
      <3>1. CASE h = cur BY <1>1, <2>2, <3>1, PrefixOfItself, Zenon
      <3>2. CASE h \in holes /\ ~IsPrefix(cur, h)
        <4>1. h \in Path /\ h # <<>> /\ IsPrefix(Front(h), cur)
          BY <2>1, <3>2, Constants_ DEF Base, TypeOK
        <4>2. Front(h) \in Path /\ Last(h) \in Names /\ Append(Front(h), Last(h)) = h
          BY <4>1, PathFront, AppendFrontLast
        <4>3. IsPrefix(Front(h), h)
          <5>1. IsPrefix(Front(h), Front(h)) BY <4>2, PrefixOfItself
          <5>2. IsStrictPrefix(Front(h), Append(Front(h), Last(h))) BY <4>2, <5>1, AppendPrefix
          <5>. QED BY <4>2, <5>2 DEF IsStrictPrefix
        <4>4. Front(h) # cur BY <3>2, <4>3
        <4>5. IsStrictPrefix(Front(h), Append(Front(cur), Last(cur)))
          BY <1>0, <4>1, <4>4, AppendFrontLast DEF IsStrictPrefix
        <4>6. IsPrefix(Front(h), Front(cur)) BY <1>0, <4>2, <4>5, AppendPrefix, PathFront
        <4>. QED BY <1>1, <4>1, <4>6
      <3>. QED BY <1>4, <2>3, <3>1, <3>2
    <2>. QED BY <1>1, <2>3 DEF HolesOnPath
  <1>11. NamesStand'
    <2>1. \A p : Uses(p)' = Uses(p) BY DEF Uses
    <2>2. ASSUME NEW p \in (registered \cap Local) \ lost', p # by PROVE Uses(p) \subseteq DOMAIN tree'
      <3>1. p \notin lost /\ Uses(p) \cap {cur} = {} BY <1>4, <2>2
      <3>2. Uses(p) \subseteq DOMAIN tree BY <1>0, <2>2, <3>1 DEF NamesStand
      <3>. QED BY <1>5, <3>1, <3>2
    <2>3. ASSUME NEW p \in checked \ (registered \cup lost')
          PROVE  Uses(p) \subseteq DOMAIN tree' \cup DOMAIN Model[p]
      <3>1. p # by BY <1>0, <2>3 DEF WalkOk
      <3>2. p \notin lost /\ Uses(p) \cap {cur} = {} BY <1>4, <2>3, <3>1
      <3>3. Uses(p) \subseteq DOMAIN tree \cup DOMAIN Model[p] BY <1>0, <2>3, <3>2 DEF NamesStand
      <3>. QED BY <1>5, <3>2, <3>3
    <2>. QED BY <1>1, <2>1, <2>2, <2>3 DEF NamesStand
  <1>. QED BY <1>1, <1>8, <1>9, <1>10, <1>11 DEF Sound

(* Nothing but the root is above the root.                                 *)
LEMMA RootPrefix == ASSUME NEW p \in Path, IsPrefix(p, <<>>) PROVE p = <<>>
  <1> DEFINE r == <<>>
  <1>1. r \in Path /\ Len(r) = 0 /\ IsPrefix(p, r) BY DEF Path
  <1>. HIDE DEF r
  <1>2. Len(p) \in Nat /\ Len(p) <= 0 BY <1>1, PrefixIs, PathElement
  <1>3. Len(p) = Len(r) /\ \A i \in 1 .. Len(p) : p[i] = r[i] BY <1>1, <1>2
  <1>. QED BY <1>1, <1>3, PathEqual DEF r

(* The node at the cursor stays because another provider has it.           *)
LEMMA ShrinkSound ==
  ASSUME Base, Sound, op = "delete", ToDo = {}, cur # <<>>, GoUp, registered' = registered,
         degraded' = degraded, Children(tree, cur) # {}, holes' = {q \in holes : Front(q) # cur},
         UNCHANGED <<tree, checked, lost>>
  PROVE  Sound'
  <1>0. /\ SharedFit /\ TreeStands /\ HolesOnPath /\ NamesStand /\ WalkOk /\ Running
        /\ IsTree(new) /\ cur \in DOMAIN new /\ cur \in Path /\ by \in Providers
        /\ registered \subseteq Providers
    BY DeleteFacts DEF Sound
  <1>1. /\ Standing(by)' = Standing(by) \ {cur}
        /\ \A p \in Providers : p # by => Standing(p)' = Standing(p)
        /\ Mergeable' /\ Untangled' /\ by' = by /\ op' = op /\ cur' = Front(cur)
    BY DeleteUp
  <1>2. PICK r \in registered \ {by} : cur \in DOMAIN Model[r]
    <2>1. PICK n \in Children(tree, cur) : TRUE BY DEF Children
    <2>2. n \in Names /\ Append(cur, n) \in DOMAIN tree BY <2>1, ChildrenNames
    <2>3. IsStrictPrefix(cur, Append(cur, n)) BY <1>0, <2>2, AppendPrefix, PrefixOfItself
    <2>4. Append(cur, n) \in Below(tree, cur) \ {cur} BY <2>2, <2>3 DEF Below, IsStrictPrefix
    <2>5. PICK r \in registered \ {by} : Append(cur, n) \in DOMAIN Model[r] BY <2>4, BelowCursor
    <2>6. IsTree(Model[r]) BY <1>0, Constants_
    <2>7. cur \in DOMAIN Model[r] BY <1>0, <2>3, <2>5, <2>6, TreePrefix DEF IsStrictPrefix
    <2>. QED BY <2>5, <2>7
  <1>3. r \in Providers /\ r # by /\ cur \in Standing(r) BY <1>0, <1>2, DeleteFacts
  <1>4. TreeStands'
    <2>1. /\ DOMAIN tree = {<<>>} \cup UNION {Standing(p) : p \in Providers}
          /\ tree[<<>>].node = Node("MODEL", FALSE, "-")
          /\ \A p \in Providers : \A q \in Standing(p) : tree[q].node = Model[p][q]
      BY <1>0 DEF TreeStands
    <2>2. \A q : (\E p \in Providers : q \in Standing(p)') <=> (\E p \in Providers : q \in Standing(p))
      BY <1>1, <1>3
    <2>3. UNION {Standing(p)' : p \in Providers} = UNION {Standing(p) : p \in Providers} BY <2>2
    <2>4. \A p \in Providers : Standing(p)' \subseteq Standing(p) BY <1>1
    <2>. QED BY <2>1, <2>3, <2>4 DEF TreeStands
  <1>5. SharedFit'
    <2>1. \A p \in Providers : Standing(p)' \subseteq Standing(p) BY <1>1
    <2>. QED BY <1>0, <2>1 DEF SharedFit, Fits
  <1>6. HolesOnPath'
    <2>1. \A h \in holes : h # <<>> /\ IsPrefix(Front(h), cur) BY <1>0 DEF HolesOnPath
    <2>2. ASSUME NEW h \in holes' PROVE h # <<>> /\ IsPrefix(Front(h), cur')
      <3>1. h \in Path /\ h # <<>> /\ IsPrefix(Front(h), cur) /\ Front(h) # cur
        BY <2>1, <2>2, Constants_ DEF Base, TypeOK
      <3>2. Front(h) \in Path BY <3>1, PathFront
      <3>3. IsStrictPrefix(Front(h), Append(Front(cur), Last(cur)))
        BY <1>0, <3>1, AppendFrontLast DEF IsStrictPrefix
      <3>4. IsPrefix(Front(h), Front(cur)) BY <1>0, <3>2, <3>3, AppendPrefix, PathFront
      <3>. QED BY <1>1, <3>1, <3>4
    <2>. QED BY <1>1, <2>2 DEF HolesOnPath
  <1>7. NamesStand'
    <2>1. \A p : Uses(p)' = Uses(p) BY DEF Uses
    <2>. QED BY <1>0, <1>1, <2>1 DEF NamesStand
  <1>. QED BY <1>0, <1>1, <1>4, <1>5, <1>6, <1>7 DEF Sound

(* The end of a deletion: nothing of the tree is left that is not another's*)
LEMMA RootDone ==
  ASSUME Base, Sound, op = "delete", ToDo = {}, cur = <<>>, op' = "idle", by' = NoProvider,
         registered' = registered \ {by}
  PROVE  /\ Standing(by) = {<<>>}
         /\ \A p \in Providers :
              Standing(p)' = IF p = by THEN {} ELSE Standing(p)
         /\ \A h \in holes : Front(h) = cur
  <1>1. Standing(by) = {<<>>}
    <2>1. DOMAIN new = Finished \cup {cur} /\ cur \notin Finished BY DeleteFacts, AllDone
    <2>. QED BY <2>1, DeleteFacts
  <1>2. ASSUME NEW p \in Providers PROVE Standing(p)' = IF p = by THEN {} ELSE Standing(p)
    <2>1. Standing(p)' = IF p \in registered' THEN DOMAIN Model[p] ELSE {} BY StandingNext
    <2>. QED BY <2>1, DeleteFacts
  <1>3. ASSUME NEW h \in holes PROVE Front(h) = cur
    <2>1. h \in Path /\ h # <<>> /\ IsPrefix(Front(h), <<>>)
      BY Constants_ DEF Base, TypeOK, Sound, HolesOnPath
    <2>. QED BY <2>1, PathFront, RootPrefix
  <1>. QED BY <1>1, <1>2, <1>3

(* The deletion ends and others have trees in the datamodel.               *)
LEMMA ShrinkRootSound ==
  ASSUME Base, Sound, op = "delete", ToDo = {}, cur = <<>>, op' = "idle", by' = NoProvider,
         registered' = registered \ {by}, holes' = {q \in holes : Front(q) # cur},
         UNCHANGED <<tree, checked, lost>>
  PROVE  Sound'
  <1>0. /\ SharedFit /\ TreeStands /\ NamesStand /\ WalkOk /\ Running
        /\ by \in Providers /\ registered \subseteq Providers
    BY DeleteFacts DEF Sound
  <1>1. /\ Standing(by) = {<<>>}
        /\ \A p \in Providers : Standing(p)' = IF p = by THEN {} ELSE Standing(p)
        /\ holes' = {}
    BY RootDone
  <1>2. TreeStands'
    <2>1. /\ DOMAIN tree = {<<>>} \cup UNION {Standing(p) : p \in Providers}
          /\ tree[<<>>].node = Node("MODEL", FALSE, "-")
          /\ \A p \in Providers : \A q \in Standing(p) : tree[q].node = Model[p][q]
      BY <1>0 DEF TreeStands
    <2>2. \A q : q = <<>> \/ (\E p \in Providers : q \in Standing(p)') <=>
                 q = <<>> \/ (\E p \in Providers : q \in Standing(p))
      BY <1>1
    <2>3. {<<>>} \cup UNION {Standing(p)' : p \in Providers} = {<<>>} \cup UNION {Standing(p) : p \in Providers}
      BY <2>2
    <2>4. \A p \in Providers : Standing(p)' \subseteq Standing(p) BY <1>1
    <2>. QED BY <2>1, <2>3, <2>4 DEF TreeStands
  <1>3. SharedFit'
    <2>1. \A p \in Providers : Standing(p)' \subseteq Standing(p) BY <1>1
    <2>. QED BY <1>0, <2>1 DEF SharedFit, Fits
  <1>4. \A p \in (registered' \cap Local) \ lost' : Uses(p) \subseteq DOMAIN tree'
    BY <1>0 DEF NamesStand
  <1>5. ASSUME NEW p \in checked' \ (registered' \cup lost')
        PROVE  Uses(p) \subseteq DOMAIN tree' \cup DOMAIN Model[p]
    <2>1. p # by BY <1>0, <1>5 DEF WalkOk
    <2>2. p \in checked \ (registered \cup lost) BY <1>5, <2>1
    <2>. QED BY <1>0, <2>2 DEF NamesStand
  <1>. QED BY <1>0, <1>1, <1>2, <1>3, <1>4, <1>5, IdleSound

(* The deletion ends and leaves nothing: the root is made anew.            *)
LEMMA EmptyRootSound ==
  ASSUME Base, Sound, op = "delete", ToDo = {}, cur = <<>>, op' = "idle", by' = NoProvider,
         registered' = registered \ {by}, Children(tree, cur) = {},
         tree' = Root, holes' = {}, checked' = checked, lost' = lost
  PROVE  Sound'
  <1>0. /\ SharedFit /\ TreeStands /\ NamesStand /\ WalkOk /\ Running
        /\ by \in Providers /\ registered \subseteq Providers
    BY DeleteFacts DEF Sound
  <1>1. /\ Standing(by) = {<<>>}
        /\ \A p \in Providers : Standing(p)' = IF p = by THEN {} ELSE Standing(p)
    BY RootDone
  <1>2. registered \ {by} = {}
    <2>1. ASSUME NEW r \in registered \ {by} PROVE FALSE
      <3>1. cur \notin DOMAIN Model[r] BY GoesAlone
      <3>2. <<>> \in DOMAIN Model[r] BY <1>0, Constants_, TreePath
      <3>. QED BY <3>1, <3>2
    <2>. QED BY <2>1
  <1>3. \A p \in Providers : p # by => Standing(p) = {} BY <1>2, DeleteFacts
  <1>4. \A p \in Providers : Standing(p)' = {} BY <1>1, <1>3
  <1>5. DOMAIN tree' = {<<>>} /\ tree'[<<>>].node = Node("MODEL", FALSE, "-") BY DEF Root
  <1>6. TreeStands'
    <2>1. UNION {Standing(p)' : p \in Providers} = {} BY <1>4
    <2>. QED BY <1>4, <1>5, <2>1 DEF TreeStands
  <1>7. SharedFit' BY <1>4 DEF SharedFit
  <1>8. ASSUME NEW p \in checked' \ (registered' \cup lost')
        PROVE  Uses(p) \subseteq DOMAIN tree' \cup DOMAIN Model[p]
    <2>1. \A q \in DOMAIN tree : q = <<>> BY <1>0, <1>1, <1>3 DEF TreeStands
    <2>2. p # by BY <1>0, <1>8 DEF WalkOk
    <2>3. p \in checked \ (registered \cup lost) BY <1>8, <2>2
    <2>4. Uses(p) \subseteq DOMAIN tree \cup DOMAIN Model[p] BY <1>0, <2>3 DEF NamesStand
    <2>. QED BY <1>5, <2>1, <2>4
  <1>9. \A p \in (registered' \cap Local) \ lost' : Uses(p) \subseteq DOMAIN tree' BY <1>2
  <1>. QED BY <1>6, <1>7, <1>8, <1>9, IdleSound

(* The next child of a registered tree is always there.                    *)
LEMMA NotMissing == ASSUME Base, Sound, op = "delete", ToDo # {} PROVE Found(NextChild)
  <1> DEFINE m == Min(ToDo)
             c == NextChild
  <1>1. m \in Names /\ c = Append(cur, m) /\ c \in DOMAIN new /\ ThroughWith < m
    BY DeleteFacts, NextChildIs
  <1>2. cur \in Path /\ c \in Path /\ IsTree(new) BY <1>1, DeleteFacts
  <1>. HIDE DEF m, c
  <1>3. IsStrictPrefix(cur, c) /\ c[Len(cur) + 1] = m BY <1>1, <1>2, PrefixAppend, PrefixOfItself
  <1>4. ~Before(c, cur) BY <1>2, <1>3, PrefixNotBefore DEF IsStrictPrefix
  <1>5. m \in Nat /\ ThroughWith \in Nat BY <1>1, NamesAssumption, ThroughWithIs, DeleteFacts
  <1> DEFINE l == ThroughWith
  <1>. HIDE DEF l
  <1>9. m \in Nat /\ l \in Nat /\ l < m BY <1>1, <1>5 DEF l
  <1>10. ~(c[Len(cur) + 1] <= l) BY <1>3, <1>9
  <1>11. c \notin Left(new, cur, l) BY <1>4, <1>10 DEF Left
  <1>6. c \notin Finished BY <1>11 DEF Finished, l
  <1>7. c \in Standing(by) BY <1>1, <1>6, DeleteFacts
  <1>8. c \in DOMAIN tree /\ tree[c].node = new[c] BY <1>7, DeleteFacts DEF TreeStands, new
  <1>. QED BY <1>8 DEF Found, c

(* The deletion goes down to the next child.                               *)
LEMMA DownSound ==
  ASSUME Base, Sound, DeleteDown
  PROVE  Sound'
  <1>0. op = "delete" /\ ToDo # {} BY DEF DeleteDown
  <1>1. /\ op' = op /\ by' = by /\ registered' = registered /\ new' = new /\ prev' = cur /\ cur' = NextChild
        /\ UNCHANGED <<tree, holes, checked, lost>>
    BY DEF DeleteDown, Goto, new
  <1>2. /\ Min(ToDo) \in Names /\ NextChild = Append(cur, Min(ToDo)) /\ ThroughWith < Min(ToDo)
        /\ \A n \in Children(new, cur) : n > ThroughWith => Min(ToDo) <= n
        /\ ThroughWith \in Nat
    BY <1>0, NextChildIs, ThroughWithIs, DeleteFacts
  <1>3. cur \in Path /\ cur \in DOMAIN new /\ IsTree(new) BY <1>0, DeleteFacts
  <1> DEFINE m == Min(ToDo)
             l == ThroughWith
  <1>. HIDE DEF m, l
  <1>4. m \in Names /\ cur' = Append(cur, m) /\ l < m /\ l \in Nat
        /\ \A n \in Children(new, cur) : n > l => m <= n
    BY <1>1, <1>2 DEF m, l
  <1>5. ThroughWith' = 0
    <2>1. ASSUME cur # <<>>, Front(cur) = Append(cur, m) PROVE FALSE
      <3>1. Len(Front(cur)) = Len(cur) - 1 /\ Len(Append(cur, m)) = Len(cur) + 1 /\ Len(cur) \in Nat
        BY <1>3, <1>4, <2>1, PathFront, PathAppend, PathElement
      <3>. QED BY <2>1, <3>1
    <2>. QED BY <1>1, <1>4, <2>1 DEF ThroughWith
  <1>6. Left(new, Append(cur, m), 0) = Left(new, cur, l) BY <1>3, <1>4, LeftDown
  <1>7. Finished' = Finished BY <1>1, <1>4, <1>5, <1>6 DEF Finished, l
  <1>8. \A p \in Providers : Standing(p)' = Standing(p)
    <2>1. TAKE p \in Providers
    <2>2. CASE p = by
      <3>1. Standing(p)' = DOMAIN new' \ Finished' BY <1>0, <1>1, <2>2, StandingNext
      <3>. QED BY <1>0, <1>1, <1>7, <2>2, <3>1, DeleteFacts
    <2>3. CASE p # by
      <3>1. Standing(p)' = IF p \in registered' THEN DOMAIN Model[p] ELSE {}
        BY <1>1, <2>3, StandingNext
      <3>. QED BY <1>0, <1>1, <2>3, <3>1, DeleteFacts
    <2>. QED BY <2>2, <2>3
  <1>9. TreeStands' /\ SharedFit' BY <1>1, <1>8, TreeStays DEF Sound
  <1>10. Mergeable' BY <1>0, <1>1 DEF Mergeable
  <1>11. Untangled' BY <1>1 DEF Sound, Untangled, Entangled, Childless, Running
  <1>12. HolesOnPath'
    <2>1. \A h \in holes : h # <<>> /\ h \in Path /\ IsPrefix(Front(h), cur)
      BY <1>0, Constants_ DEF Sound, HolesOnPath, Base, TypeOK
    <2>2. IsPrefix(cur, cur') /\ cur' \in Path
      BY <1>3, <1>4, AppendPrefix, PathAppend, PrefixOfItself DEF IsStrictPrefix
    <2>3. ASSUME NEW h \in holes PROVE h # <<>> /\ IsPrefix(Front(h), cur')
      <3>1. h # <<>> /\ Front(h) \in Path /\ IsPrefix(Front(h), cur) BY <2>1, <2>3, PathFront
      <3>2. IsPrefix(Front(h), cur') BY <1>3, <2>2, <3>1, PrefixThrough, Zenon
      <3>. QED BY <3>1, <3>2
    <2>. QED BY <1>0, <1>1, <2>3 DEF HolesOnPath
  <1>13. NamesStand'
    <2>1. \A p : Uses(p)' = Uses(p) BY DEF Uses
    <2>. QED BY <1>1, <2>1 DEF Sound, NamesStand, Own, new
  <1>. QED BY <1>9, <1>10, <1>11, <1>12, <1>13 DEF Sound

(* The deletion keeps the invariant.                                       *)
LEMMA DeleteSound ==
  ASSUME Base, Sound, Delete, ~degraded'
  PROVE  op' = "crashed" \/ Sound'
  <1> DEFINE Goal == op' = "crashed" \/ Sound'
  <1>0. op = "delete"
    BY DEF Delete, DeleteLeaf, DeleteDown, DeleteMissing, DeleteShrink, DeleteEmpty
  <1>1. Sound' => Goal OBVIOUS
  <1>2. ASSUME Crash PROVE Goal BY <1>2 DEF Crash
  <1>3. checked' = checked
    BY DEF Delete, DeleteLeaf, DeleteDown, DeleteMissing, DeleteShrink, DeleteEmpty
  <1>. HIDE DEF Goal
  <1>4. ASSUME DeleteLeaf PROVE Goal
    <2>1. Children(new, cur) = {} /\ registered' = registered /\ degraded' = degraded
      BY <1>4 DEF DeleteLeaf
    <2>2. ToDo = {} BY <2>1 DEF ToDo
    <2>3. cur # <<>>
      <3>1. SUFFICES ASSUME cur = <<>> PROVE FALSE OBVIOUS
      <3>2. new[<<>>].type = "MODEL" BY <1>0, DeleteFacts DEF IsTree, Node
      <3>3. KindsOk(new, <<>>) BY <1>0, <3>1, DeleteFacts DEF WalkOk
      <3>. QED BY <2>1, <3>1, <3>2, <3>3 DEF KindsOk, NeedsChildren
    <2>4. CASE Crashes(cur) BY <1>2, <1>4, <2>4 DEF DeleteLeaf
    <2>5. CASE ~Crashes(cur)
      <3>1. freeNode(cur) /\ GoUp BY <1>4, <2>5 DEF DeleteLeaf
      <3>2. Sound' BY <1>0, <1>3, <2>1, <2>2, <2>3, <3>1, FreeSound
      <3>. QED BY <1>1, <3>2
    <2>. QED BY <2>4, <2>5
  <1>5. ASSUME DeleteDown PROVE Goal BY <1>1, <1>5, DownSound
  <1>6. ASSUME DeleteMissing PROVE Goal BY <1>0, <1>6, NotMissing DEF DeleteMissing
  <1>7. ASSUME DeleteShrink PROVE Goal
    <2>1. ToDo = {} /\ Children(tree, cur) # {} /\ UNCHANGED <<tree, checked, lost>>
          /\ holes' = {q \in holes : Front(q) # cur} /\ GoUp /\ degraded' = degraded
          /\ registered' = IF cur = <<>> THEN registered \ {by} ELSE registered
      BY <1>7 DEF DeleteShrink
    <2>2. CASE cur = <<>>
      <3>1. op' = "idle" /\ by' = NoProvider BY <2>1, <2>2 DEF GoUp, End
      <3>. QED BY <1>0, <1>1, <2>1, <2>2, <3>1, ShrinkRootSound
    <2>3. CASE cur # <<>> BY <1>0, <1>1, <2>1, <2>3, ShrinkSound
    <2>. QED BY <2>2, <2>3
  <1>8. ASSUME DeleteEmpty PROVE Goal
    <2>1. ToDo = {} /\ Children(tree, cur) = {} /\ degraded' = degraded BY <1>8 DEF DeleteEmpty
    <2>2. CASE Crashes(cur) BY <1>2, <1>8, <2>2 DEF DeleteEmpty
    <2>3. CASE ~Crashes(cur) /\ cur = <<>>
      <3>1. /\ tree' = Root /\ holes' = {} /\ lost' = lost
            /\ op' = "idle" /\ by' = NoProvider /\ registered' = registered \ {by}
        BY <1>8, <2>3 DEF DeleteEmpty, End
      <3>. QED BY <1>0, <1>1, <1>3, <2>1, <2>3, <3>1, EmptyRootSound
    <2>4. CASE ~Crashes(cur) /\ cur # <<>>
      <3>1. freeNode(cur) /\ GoUp /\ registered' = registered BY <1>8, <2>4 DEF DeleteEmpty
      <3>2. Sound' BY <1>0, <1>3, <2>1, <2>4, <3>1, FreeSound
      <3>. QED BY <1>1, <3>2
    <2>. QED BY <2>2, <2>3, <2>4
  <1>9. Goal BY <1>4, <1>5, <1>6, <1>7, <1>8 DEF Delete
  <1>. QED BY <1>9 DEF Goal

-----------------------------------------------------------------------------
(* The calls, and all steps together.                                      *)

(* The beginning of an operation keeps the invariant.                      *)
LEMMA CallSound ==
  ASSUME Base, Sound, NEW p \in Providers, Call(p), ~degraded'
  PROVE  Sound'
  <1>1. /\ op = "idle" /\ by' = p /\ cur' = <<>> /\ prev' = <<>> /\ op' \in {"dryRun", "merge", "delete"}
        /\ op' = "dryRun" => p \in checked \ registered
        /\ op' = "merge" => ~Own(p)
        /\ op' = "delete" <=> p \in registered
        /\ checked' = checked \ {p} /\ UNCHANGED <<tree, holes, registered>>
        /\ degraded' = (degraded \/ \E r \in registered \ {p} : Entangled(p, r))
        /\ lost' = IF op' = "delete" THEN lost \ {p} ELSE lost
    BY CallIs DEF Base, Idle
  <1>2. new' = Model[p] /\ IsTree(Model[p]) BY <1>1, DatamodelAssumption DEF new
  <1>3. Visited' = {} BY <1>1 DEF Visited
  <1>4. ThroughWith' = 0 BY <1>1 DEF ThroughWith
  <1>5. Finished' = {} BY <1>1, <1>2, <1>4, RootPassed DEF Finished
  <1>6. \A r \in Providers : Standing(r)' = Standing(r)
    <2>1. TAKE r \in Providers
    <2>2. Standing(r) = IF r \in registered THEN DOMAIN Model[r] ELSE {} BY <1>1, StandingIs
    <2>3. CASE r = p /\ op' = "merge"
      <3>1. Standing(r)' = Visited' BY <1>1, <2>3, StandingNext
      <3>. QED BY <1>1, <1>3, <2>2, <2>3, <3>1
    <2>4. CASE r = p /\ op' = "delete"
      <3>1. Standing(r)' = DOMAIN new' \ Finished' BY <1>1, <2>4, StandingNext
      <3>. QED BY <1>1, <1>2, <1>5, <2>2, <2>4, <3>1
    <2>5. CASE ~(r = p /\ op' \in {"merge", "delete"})
      <3>1. Standing(r)' = IF r \in registered' THEN DOMAIN Model[r] ELSE {}
        BY <1>1, <2>5, StandingNext
      <3>. QED BY <1>1, <2>2, <3>1
    <2>. QED BY <2>3, <2>4, <2>5
  <1>7. TreeStands' /\ SharedFit' BY <1>1, <1>6, TreeStays DEF Sound
  <1>8. Mergeable' BY <1>1, <1>3 DEF Mergeable, Own
  <1>9. Untangled'
    <2>1. \A r \in registered \ {p} : ~Entangled(p, r) BY <1>1
    <2>. QED BY <1>1, <2>1 DEF Untangled, Entangled, Childless
  <1>10. HolesOnPath' BY <1>1 DEF Sound, HolesOnPath
  <1>11. NamesStand'
    <2>1. \A r : Uses(r)' = Uses(r) BY DEF Uses
    <2>2. ASSUME NEW r \in (registered' \cap Local) \ lost', ~(r = by' /\ op' = "delete")
          PROVE  Uses(r) \subseteq DOMAIN tree
      <3>1. r \in (registered \cap Local) \ lost BY <1>1, <2>2
      <3>. QED BY <1>1, <3>1 DEF Sound, NamesStand
    <2>3. ASSUME op' \in {"dryRun", "merge"}, Own(p), p \notin lost'
          PROVE  Uses(p) \subseteq DOMAIN tree \cup DOMAIN Model[p]
      <3>1. p \in checked \ (registered \cup lost) BY <1>1, <2>3
      <3>. QED BY <3>1 DEF Sound, NamesStand
    <2>4. ASSUME NEW r \in checked' \ (registered' \cup lost')
          PROVE  Uses(r) \subseteq DOMAIN tree \cup DOMAIN Model[r]
      <3>1. r \in checked \ (registered \cup lost) BY <1>1, <2>4
      <3>. QED BY <3>1 DEF Sound, NamesStand
    <2>. QED BY <1>1, <1>2, <2>1, <2>2, <2>3, <2>4 DEF NamesStand, Own
  <1>. QED BY <1>7, <1>8, <1>9, <1>10, <1>11 DEF Sound

(* A step that leaves the datamodel and the operation on it alone.         *)
LEMMA StillSound ==
  ASSUME Sound, UNCHANGED <<tree, holes, op, by, cur, prev, registered>>, NamesStand'
  PROVE  Sound'
  <1>2. new' = new BY DEF new
  <1>3. Visited' = Visited BY <1>2 DEF Visited
  <1>4. Finished' = Finished BY <1>2 DEF Finished, ThroughWith
  <1>5. ASSUME NEW p \in Providers PROVE Standing(p)' = Standing(p)
    <2>1. CASE p = by /\ op = "merge" BY <1>3, <2>1, StandingIs, StandingNext
    <2>2. CASE p = by /\ op = "delete" BY <1>2, <1>4, <2>2, StandingIs, StandingNext
    <2>3. CASE ~(p = by /\ op \in {"merge", "delete"})
      <3>1. Standing(p)' = IF p \in registered' THEN DOMAIN Model[p] ELSE {} BY <2>3, StandingNext
      <3>. QED BY <2>3, <3>1, StandingIs
    <2>. QED BY <2>1, <2>2, <2>3
  <1>6. TreeStands' /\ SharedFit' BY <1>5, TreeStays DEF Sound
  <1>7. Mergeable' BY <1>2, <1>3 DEF Sound, Mergeable, Own
  <1>8. Untangled' BY DEF Sound, Untangled, Running, Entangled, Childless
  <1>9. HolesOnPath' BY DEF Sound, HolesOnPath
  <1>. QED BY <1>6, <1>7, <1>8, <1>9 DEF Sound

(* The names that the check has found are there, and stay there while      *)
(* whoever asked waits for slcLock, unless they are counted as lost.       *)
LEMMA CheckSound == ASSUME Sound, NEW p \in Providers, Check(p) PROVE Sound'
  <1>1. /\ p # by /\ checked' = checked \cup {p} /\ checkDataModelSyntax(Plainly(tree), Model[p])
        /\ lost' = IF p \in registered THEN lost ELSE lost \ {p}
        /\ UNCHANGED <<tree, holes, op, by, cur, prev, registered>>
    BY DEF Check, walk
  <1>2. Uses(p) \subseteq DOMAIN tree \cup DOMAIN Model[p]
    <2>1. \A q \in DOMAIN Model[p] : NodeSyntaxOk(Plainly(tree), Model[p], q)
      BY <1>1 DEF checkDataModelSyntax
    <2>2. DOMAIN Plainly(tree) = DOMAIN tree BY DEF Plainly
    <2>3. \A q \in DOMAIN Model[p] : RefPath(Model[p][q]) \subseteq DOMAIN tree \cup DOMAIN Model[p]
      BY <2>1, <2>2 DEF NodeSyntaxOk, getDescription
    <2>. QED BY <2>3 DEF Uses
  <1>3. NamesStand'
    <2>1. \A r : Uses(r)' = Uses(r) BY DEF Uses
    <2>2. new' = new BY <1>1 DEF new
    <2>3. NamesStand BY DEF Sound
    <2>4. ASSUME NEW r \in (registered \cap Local) \ lost', ~(r = by /\ op = "delete")
          PROVE  Uses(r) \subseteq DOMAIN tree
      <3>1. r \notin lost BY <1>1, <2>4
      <3>. QED BY <2>3, <2>4, <3>1 DEF NamesStand
    <2>5. ASSUME op \in {"dryRun", "merge"}, Own(by), by \notin lost'
          PROVE  Uses(by) \subseteq DOMAIN tree \cup DOMAIN new
      <3>1. by \notin lost BY <1>1, <2>5
      <3>. QED BY <2>3, <2>5, <3>1 DEF NamesStand
    <2>6. ASSUME NEW r \in checked' \ (registered \cup lost')
          PROVE  Uses(r) \subseteq DOMAIN tree \cup DOMAIN Model[r]
      <3>1. CASE r = p BY <1>2, <3>1
      <3>2. CASE r # p
        <4>1. r \in checked \ (registered \cup lost) BY <1>1, <2>6, <3>2
        <4>. QED BY <2>3, <4>1 DEF NamesStand
      <3>. QED BY <3>1, <3>2
    <2>. QED BY <1>1, <2>1, <2>2, <2>4, <2>5, <2>6 DEF NamesStand, Own
  <1>. QED BY <1>1, <1>3, StillSound

(* What went wrong once is not forgotten.                                  *)
LEMMA DegradedStays == ASSUME Base, [Next]_vars, ~degraded' PROVE ~degraded
  <1>1. CASE Merge
    BY <1>1 DEF Merge, MergeRoot, MergePresent, MergeRefused, MergeAbsent, MergeEnd, addSubtree
  <1>2. CASE Delete
    BY <1>2 DEF Delete, DeleteLeaf, DeleteDown, DeleteMissing, DeleteShrink, DeleteEmpty
  <1>3. ASSUME NEW p \in Providers, Call(p) PROVE ~degraded BY <1>3, CallIs DEF Base
  <1>4. ASSUME NEW p \in Providers, Check(p) PROVE ~degraded BY <1>4 DEF Check
  <1>5. CASE Race \/ UNCHANGED vars BY <1>5 DEF Race, vars
  <1>. QED BY <1>1, <1>2, <1>3, <1>4, <1>5 DEF Next, Call

-----------------------------------------------------------------------------
(* The datamodel stays a tree, whatever goes wrong.                        *)

(* A part of a tree with all that is above its nodes has the beginnings of *)
(* their paths.                                                            *)
LEMMA ClosedUpwards ==
  ASSUME NEW D, D \subseteq Path, \A q \in D : \A p \in Path : IsPrefix(p, q) => p \in D
  PROVE  \A q \in D : \A k \in 0 .. Len(q) : SubSeq(q, 1, k) \in D
  <1>1. TAKE q \in D
  <1>2. TAKE k \in 0 .. Len(q)
  <1>3. q \in Path /\ Len(q) \in Nat BY <1>1, PathElement
  <1> DEFINE s == SubSeq(q, 1, k)
  <1>4. s \in Path /\ Len(s) = k /\ \A i \in 1 .. k : s[i] = q[i] BY <1>2, <1>3, PathUpTo
  <1>. HIDE DEF s
  <1>5. IsPrefix(s, q) BY <1>2, <1>3, <1>4, PrefixIs
  <1>. QED BY <1>1, <1>4, <1>5 DEF s

(* What is above a node is the node itself or above its parent.            *)
LEMMA PrefixFront ==
  ASSUME NEW c \in Path, c # <<>>, NEW p \in Path, IsPrefix(p, c), p # c
  PROVE  IsPrefix(p, Front(c))
  <1>1. Front(c) \in Path /\ Last(c) \in Names /\ Append(Front(c), Last(c)) = c
    BY PathFront, AppendFrontLast
  <1>2. IsStrictPrefix(p, c) BY DEF IsStrictPrefix
  <1>. QED BY <1>1, <1>2, AppendPrefix

(* Of two paths above the same one, one is above the other.                *)
LEMMA PrefixesMeet ==
  ASSUME NEW c \in Path, NEW p \in Path, NEW q \in Path, IsPrefix(p, q), IsPrefix(c, q)
  PROVE  IsPrefix(p, c) \/ IsPrefix(c, p)
  <1>1. Len(p) \in Nat /\ Len(q) \in Nat /\ Len(c) \in Nat BY PathElement
  <1>2. /\ Len(p) <= Len(q) /\ \A i \in 1 .. Len(p) : p[i] = q[i]
        /\ Len(c) <= Len(q) /\ \A i \in 1 .. Len(c) : c[i] = q[i]
    BY PrefixIs
  <1>3. CASE Len(p) <= Len(c) BY <1>1, <1>2, <1>3, PrefixIs
  <1>4. CASE Len(c) <= Len(p) BY <1>1, <1>2, <1>4, PrefixIs
  <1>. QED BY <1>1, <1>3, <1>4

(* A node of another tree is added with what is below it.                  *)
LEMMA AddTree ==
  ASSUME NEW t, IsTree(t), NEW m, IsTree(m), NEW c \in DOMAIN m, c # <<>>, Front(c) \in DOMAIN t,
         NEW s, s = [r \in DOMAIN t \cup Below(m, c) |-> IF r \in DOMAIN t THEN t[r] ELSE m[r]]
  PROVE  IsTree(s)
  <1>1. DOMAIN t \subseteq Path /\ DOMAIN m \subseteq Path /\ <<>> \in DOMAIN t BY TreePath
  <1>2. Below(m, c) \subseteq DOMAIN m BY DEF Below
  <1> DEFINE D == DOMAIN t \cup Below(m, c)
  <1>3. DOMAIN s = D /\ D \subseteq Path /\ <<>> \in D BY <1>1, <1>2
  <1>4. IsFiniteSet(D)
    <2>1. IsFiniteSet(DOMAIN t) /\ IsFiniteSet(DOMAIN m) BY DEF IsTree
    <2>2. IsFiniteSet(Below(m, c)) BY <1>2, <2>1, FS_Subset
    <2>. QED BY <2>1, <2>2, FS_Union
  <1>5. ASSUME NEW q \in D, NEW p \in Path, IsPrefix(p, q) PROVE p \in D
    <2>1. CASE q \in DOMAIN t BY <1>5, <2>1, TreePrefix
    <2>2. CASE q \in Below(m, c)
      <3>1. q \in DOMAIN m /\ q \in Path /\ c \in Path /\ IsPrefix(c, q) BY <1>1, <2>2 DEF Below
      <3>2. p \in DOMAIN m BY <1>5, <3>1, TreePrefix
      <3>3. CASE IsPrefix(c, p) BY <3>2, <3>3 DEF Below
      <3>4. CASE IsPrefix(p, c) /\ p # c
        <4>1. IsPrefix(p, Front(c)) BY <1>5, <3>1, <3>4, PrefixFront
        <4>2. p \in DOMAIN t BY <1>5, <4>1, TreePrefix
        <4>. QED BY <4>2
      <3>5. CASE p = c BY <3>1, <3>5, PrefixOfItself DEF Below
      <3>. QED BY <1>5, <3>1, <3>3, <3>4, <3>5, PrefixesMeet
    <2>. QED BY <2>1, <2>2
  <1>. HIDE DEF D
  <1>6. \A q \in D : \A k \in 0 .. Len(q) : SubSeq(q, 1, k) \in D BY <1>3, <1>5, ClosedUpwards
  <1>7. \A q \in D : (s[q] = t[q] /\ q \in DOMAIN t) \/ (s[q] = m[q] /\ q \in DOMAIN m)
    <2>1. TAKE q \in D
    <2>2. s[q] = IF q \in DOMAIN t THEN t[q] ELSE m[q] BY DEF D
    <2>3. q \in DOMAIN t \/ q \in DOMAIN m BY <1>2 DEF D
    <2>. QED BY <2>2, <2>3
  <1>8. s[<<>>] = t[<<>>] BY <1>1 DEF D
  <1>9. \A q \in D :
          /\ s[q] = Node(s[q].type, s[q].array, s[q].info)
          /\ s[q].type = "NAMESPACE" => s[q].info = "-"
          /\ s[q].type = "REF" => s[q].info \in Seq(Names)
          /\ s[q].array => s[q].type \in Plain
    <2>1. TAKE q \in D
    <2>2. CASE s[q] = t[q] /\ q \in DOMAIN t BY <2>2 DEF IsTree
    <2>3. CASE s[q] = m[q] /\ q \in DOMAIN m BY <2>3 DEF IsTree
    <2>. QED BY <1>7, <2>2, <2>3
  <1>10. t[<<>>] = Node("MODEL", FALSE, "-") BY DEF IsTree
  <1>. QED BY <1>3, <1>4, <1>6, <1>8, <1>9, <1>10 DEF IsTree, Path

(* A node is freed with what is below it.                                  *)
LEMMA FreeTree ==
  ASSUME NEW t, IsTree(t), NEW c \in Path, c # <<>>, NEW s, s = [r \in DOMAIN t \ Below(t, c) |-> t[r]]
  PROVE  IsTree(s)
  <1> DEFINE D == DOMAIN t \ Below(t, c)
  <1>1. DOMAIN t \subseteq Path /\ <<>> \in DOMAIN t BY TreePath
  <1>2. DOMAIN s = D /\ D \subseteq Path /\ D \subseteq DOMAIN t BY <1>1
  <1>3. <<>> \in D
    <2>1. ~IsPrefix(c, <<>>) BY RootPrefix
    <2>. QED BY <1>1, <2>1 DEF Below
  <1>4. IsFiniteSet(D)
    <2>1. IsFiniteSet(DOMAIN t) BY DEF IsTree
    <2>. QED BY <1>2, <2>1, FS_Subset
  <1>5. ASSUME NEW q \in D, NEW p \in Path, IsPrefix(p, q) PROVE p \in D
    <2>1. p \in DOMAIN t BY <1>5, TreePrefix
    <2>2. ASSUME IsPrefix(c, p) PROVE FALSE
      <3>1. q \in Path BY <1>2
      <3>2. IsPrefix(c, q) BY <1>5, <2>2, <3>1, PrefixThrough
      <3>. QED BY <3>2 DEF Below
    <2>. QED BY <2>1, <2>2 DEF Below
  <1>6. \A q \in D : s[q] = t[q] /\ q \in DOMAIN t OBVIOUS
  <1>. HIDE DEF D
  <1>7. \A q \in D : \A k \in 0 .. Len(q) : SubSeq(q, 1, k) \in D BY <1>2, <1>5, ClosedUpwards
  <1>. QED BY <1>2, <1>3, <1>4, <1>6, <1>7 DEF IsTree, Path

(* A tree that passed the check has every node where its kind is allowed.  *)
LEMMA CheckedKinds ==
  ASSUME NEW t, IsTree(t), \A q \in DOMAIN t : KindsOk(t, q)
  PROVE  KindsFit(t)
  <1>1. SUFFICES ASSUME NEW q \in DOMAIN t, q # <<>> PROVE t[q].type \in AllowedTypes(t[Front(q)].type)
    BY DEF KindsFit
  <1>2. Front(q) \in DOMAIN t /\ q \in Path BY <1>1, FrontInTree, TreePath
  <1>3. Append(Front(q), Last(q)) = q /\ Last(q) \in Names BY <1>1, <1>2, AppendFrontLast, PathFront
  <1>4. Last(q) \in Children(t, Front(q)) BY <1>3 DEF Children
  <1>5. KindsOk(t, Front(q)) BY <1>2
  <1>. QED BY <1>3, <1>4, <1>5 DEF KindsOk

(* So has the datamodel when a node is added below one of the same type.   *)
LEMMA AddKinds ==
  ASSUME NEW t, IsTree(t), NEW m, IsTree(m), NEW c \in DOMAIN m, c # <<>>, c \notin DOMAIN t,
         Front(c) \in DOMAIN t, t[Front(c)].type = m[Front(c)].type, KindsFit(t), KindsFit(m),
         NEW s, s = [r \in DOMAIN t \cup Below(m, c) |-> IF r \in DOMAIN t THEN t[r] ELSE m[r]]
  PROVE  KindsFit(s)
  <1>0. DOMAIN t \subseteq Path /\ DOMAIN m \subseteq Path BY TreePath
  <1>1. SUFFICES ASSUME NEW q \in DOMAIN s, q # <<>> PROVE s[q].type \in AllowedTypes(s[Front(q)].type)
    BY DEF KindsFit
  <1>2. DOMAIN s = DOMAIN t \cup Below(m, c) /\ \A r \in DOMAIN t : s[r] = t[r] OBVIOUS
  <1>3. \A r \in Below(m, c) \ DOMAIN t : s[r] = m[r] OBVIOUS
  <1>4. CASE q \in DOMAIN t
    <2>1. Front(q) \in DOMAIN t BY <1>1, <1>4, FrontInTree
    <2>2. t[q].type \in AllowedTypes(t[Front(q)].type) BY <1>1, <1>4 DEF KindsFit
    <2>. QED BY <1>2, <1>4, <2>1, <2>2
  <1>5. CASE q \notin DOMAIN t
    <2>1. q \in DOMAIN m /\ IsPrefix(c, q) BY <1>2, <1>5 DEF Below
    <2>2. m[q].type \in AllowedTypes(m[Front(q)].type) BY <1>1, <2>1 DEF KindsFit
    <2>3. s[q] = m[q] BY <1>2, <1>3, <1>5
    <2>4. Front(q) \in DOMAIN m BY <1>1, <2>1, FrontInTree
    <2>5. CASE q = c BY <1>2, <2>2, <2>3, <2>5
    <2>6. CASE q # c
      <3>1. IsPrefix(c, Front(q)) BY <1>0, <1>1, <2>1, <2>6, PrefixFront
      <3>2. Front(q) \in Below(m, c) BY <2>4, <3>1 DEF Below
      <3>3. Front(q) \notin DOMAIN t BY <1>0, <3>1, TreePrefix
      <3>. QED BY <1>3, <2>2, <2>3, <3>2, <3>3
    <2>. QED BY <2>5, <2>6
  <1>. QED BY <1>4, <1>5

(* And when one is freed.                                                  *)
LEMMA FreeKinds ==
  ASSUME NEW t, IsTree(t), KindsFit(t), NEW c \in Path,
         NEW s, s = [r \in DOMAIN t \ Below(t, c) |-> t[r]]
  PROVE  KindsFit(s)
  <1>0. DOMAIN t \subseteq Path BY TreePath
  <1>1. SUFFICES ASSUME NEW q \in DOMAIN s, q # <<>> PROVE s[q].type \in AllowedTypes(s[Front(q)].type)
    BY DEF KindsFit
  <1>2. q \in DOMAIN t /\ ~IsPrefix(c, q) /\ s[q] = t[q] BY DEF Below
  <1>3. Front(q) \in DOMAIN t /\ IsPrefix(Front(q), q) BY <1>1, <1>2, FrontInTree DEF IsStrictPrefix
  <1>4. ~IsPrefix(c, Front(q)) BY <1>0, <1>2, <1>3, PrefixThrough
  <1>5. s[Front(q)] = t[Front(q)] BY <1>3, <1>4 DEF Below
  <1>. QED BY <1>1, <1>2, <1>5 DEF KindsFit

(* Where the walk turns to is the child of a node above the cursor.        *)
LEMMA AfterFront ==
  ASSUME NEW t, IsTree(t), NEW c \in DOMAIN t, After(t, c) # <<>>
  PROVE  c # <<>> /\ IsPrefix(Front(After(t, c)), Front(c)) /\ Front(After(t, c)) \in Path
  <1> DEFINE K == Max(Turns(t, c))
             g == SubSeq(c, 1, K)
             f == SubSeq(c, 1, K - 1)
             m == Min(Later(t, g))
  <1>0. c \in Path BY TreePath
  <1>1. Len(c) \in Nat BY <1>0, PathElement
  <1>2. Turns(t, c) # {} BY DEF After
  <1>3. K \in 1 .. Len(c) /\ Later(t, g) # {}
    <2>1. Turns(t, c) \in SUBSET (0 .. Len(c)) BY <1>1 DEF Turns
    <2>2. K \in Turns(t, c) BY <1>1, <1>2, <2>1, MaxGreatest
    <2>. QED BY <2>2 DEF Turns
  <1>4. f \in Path /\ c[K] \in Names /\ Append(f, c[K]) = g /\ IsStrictPrefix(f, c)
    BY <1>0, <1>3, UpToIsChild
  <1>5. m \in Names
    <2>1. Later(t, g) \in SUBSET Nat /\ Later(t, g) \subseteq Names BY ChildrenNames DEF Later
    <2>. QED BY <1>3, <2>1, MinLeast
  <1>6. After(t, c) = Append(f, m)
    <2>1. Front(g) = f BY <1>4, FrontAppend
    <2>. QED BY <1>2, <2>1 DEF After
  <1>. HIDE DEF f, m, g, K
  <1>7. Front(After(t, c)) = f BY <1>4, <1>5, <1>6, FrontAppend
  <1>8. c # <<>> BY <1>1, <1>3
  <1>9. IsPrefix(f, c) /\ f # c BY <1>4 DEF IsStrictPrefix
  <1>. QED BY <1>0, <1>4, <1>7, <1>8, <1>9, PrefixFront

(* The merge keeps the datamodel a tree and the cursor at it.              *)
LEMMA MergeRooted ==
  ASSUME Base, IsRooted, Merge
  PROVE  IsRooted'
  <1> DEFINE Above(q) == q \in DOMAIN tree /\ tree[q].node.type = new[q].type
  <1>0. WalkOk /\ Running BY MergeMoves DEF Base
  <1>1. /\ by \in Providers /\ IsTree(new) /\ cur \in DOMAIN new /\ cur \in Path /\ <<>> \in DOMAIN new
        /\ DOMAIN new \subseteq Path
    BY <1>0, WalkFacts
  <1>2. IsTree(Plainly(tree)) /\ KindsFit(Plainly(tree)) /\ Above(<<>>)
    <2>1. IsTree(Plainly(tree)) /\ KindsFit(Plainly(tree)) BY DEF IsRooted
    <2>2. <<>> \in DOMAIN Plainly(tree) BY <2>1, TreePath
    <2>3. Plainly(tree)[<<>>].type = "MODEL" /\ new[<<>>].type = "MODEL" BY <1>1, <2>1 DEF IsTree, Node
    <2>. QED BY <2>1, <2>2, <2>3 DEF Plainly
  <1>3. ASSUME tree' = tree, op' \in {"dryRun", "merge"} /\ cur' # <<>> =>
                 by' = by /\ \A q \in DOMAIN new : IsStrictPrefix(q, cur') => Above(q)
        PROVE  IsRooted'
    BY <1>2, <1>3 DEF IsRooted, Plainly, new
  <1>10. ASSUME op \in {"dryRun", "merge"}, cur # <<>>, NEW q \in DOMAIN new, IsStrictPrefix(q, cur)
         PROVE  Above(q)
    BY <1>10 DEF IsRooted
  <1>11. ASSUME Children(new, cur) # {}, NEW q \in DOMAIN new, IsStrictPrefix(q, Child(new, cur))
         PROVE  q = cur \/ IsStrictPrefix(q, cur)
    <2> DEFINE n == Min(Children(new, cur))
    <2>1. n \in Names BY <1>11, ChildrenNames, MinLeast
    <2>. HIDE DEF n
    <2>2. Child(new, cur) = Append(cur, n) BY DEF Child, n
    <2>3. IsPrefix(q, cur) BY <1>1, <1>11, <2>1, <2>2, AppendPrefix
    <2>. QED BY <2>3 DEF IsStrictPrefix
  <1>4. CASE MergeRoot
    <2>1. Children(new, <<>>) # {}
      <3>1. KindsOk(new, <<>>) BY <1>0, <1>1 DEF WalkOk
      <3>2. new[<<>>].type = "MODEL" BY <1>1 DEF IsTree, Node
      <3>. QED BY <3>1, <3>2 DEF KindsOk, NeedsChildren
    <2>2. tree' = tree /\ cur = <<>> /\ cur' = Child(new, <<>>) /\ by' = by BY <1>4 DEF MergeRoot, Goto
    <2>3. \A q \in DOMAIN new : IsStrictPrefix(q, cur') => q = <<>>
      <3>1. ASSUME NEW q \in DOMAIN new, IsStrictPrefix(q, <<>>) PROVE FALSE
        BY <1>1, <3>1, RootPrefix DEF IsStrictPrefix
      <3>. QED BY <1>11, <2>1, <2>2, <3>1
    <2>. QED BY <1>2, <1>3, <2>2, <2>3
  <1>5. CASE MergePresent
    <2>1. tree' = tree /\ Above(cur) /\ cur # <<>> /\ op \in {"dryRun", "merge"} /\ by' = by
          /\ cur' = IF Children(new, cur) # {} THEN Child(new, cur) ELSE cur
      BY <1>5 DEF MergePresent, Goto, Present, Refused
    <2>2. \A q \in DOMAIN new : IsStrictPrefix(q, cur') => q = cur \/ IsStrictPrefix(q, cur)
      BY <1>11, <2>1
    <2>. QED BY <1>3, <1>10, <2>1, <2>2
  <1>6. CASE MergeRefused
    <2>1. tree' = tree /\ op' = "idle" BY <1>6 DEF MergeRefused, End
    <2>. QED BY <1>3, <2>1
  <1>7. CASE MergeEnd
    <2>1. tree' = tree /\ cur' = <<>> BY <1>7 DEF MergeEnd, End
    <2>. QED BY <1>3, <2>1
  <1>8. CASE MergeAbsent
    <2>1. /\ cur # <<>> /\ op \in {"dryRun", "merge"} /\ cur' = After(new, cur) /\ op' = op /\ by' = by
          /\ cur \notin DOMAIN tree
      BY <1>8 DEF MergeAbsent, Goto, Present
    <2>2. ASSUME cur' # <<>>, NEW q \in DOMAIN new, IsStrictPrefix(q, cur') PROVE Above(q)
      <3>1. IsPrefix(Front(cur'), Front(cur)) /\ Front(cur') \in Path
        BY <1>1, <2>1, <2>2, AfterFront
      <3>2. cur' \in DOMAIN new BY <1>1, <2>1, AfterInTree
      <3>3. cur' \in Path /\ q \in Path /\ IsPrefix(q, cur') /\ q # cur'
        BY <1>1, <2>2, <3>2 DEF IsStrictPrefix
      <3>4. IsPrefix(q, Front(cur')) BY <2>2, <3>3, PrefixFront
      <3>5. Front(cur) \in DOMAIN new /\ IsStrictPrefix(Front(cur), cur) BY <1>1, <2>1, FrontInTree
      <3>6. Front(cur) \in Path BY <1>1, <3>5
      <3>7. IsPrefix(q, Front(cur)) BY <3>1, <3>3, <3>4, <3>6, PrefixThrough
      <3>8. IsStrictPrefix(q, cur)
        <4>1. cur = Append(Front(cur), Last(cur)) /\ Last(cur) \in Names
          BY <1>1, <2>1, AppendFrontLast, PathFront
        <4>. QED BY <3>3, <3>6, <3>7, <4>1, AppendPrefix
      <3>. QED BY <1>10, <2>1, <3>8
    <2>3. CASE tree' = tree BY <1>3, <2>1, <2>2, <2>3
    <2>4. CASE tree' = [r \in DOMAIN tree \cup Below(new, cur) |->
                         IF r \in DOMAIN tree THEN tree[r] ELSE Copy(new, Own(by))[r]]
      <3> DEFINE s == [r \in DOMAIN tree \cup Below(new, cur) |->
                        IF r \in DOMAIN tree THEN Plainly(tree)[r] ELSE new[r]]
      <3>1. Below(new, cur) \subseteq DOMAIN new BY DEF Below
      <3>2. Plainly(tree)' = s
        <4>1. Plainly(tree)' = [r \in DOMAIN tree' |-> tree'[r].node] BY DEF Plainly
        <4>2. DOMAIN tree' = DOMAIN tree \cup Below(new, cur) BY <2>4
        <4>3. ASSUME NEW r \in DOMAIN tree' PROVE tree'[r].node = s[r]
          <5>1. CASE r \in DOMAIN tree BY <2>4, <4>3, <5>1 DEF Plainly
          <5>2. CASE r \notin DOMAIN tree
            <6>1. tree'[r] = [node |-> new[r], own |-> Own(by)] BY <2>4, <3>1, <4>2, <4>3, <5>2 DEF Copy
            <6>2. s[r] = new[r] BY <4>2, <4>3, <5>2
            <6>. QED BY <6>1, <6>2
          <5>. QED BY <5>1, <5>2
        <4>. HIDE DEF s
        <4>. QED BY <4>1, <4>2, <4>3 DEF s
      <3>3. IsTree(s) /\ KindsFit(s)
        <4>1. DOMAIN Plainly(tree) = DOMAIN tree BY DEF Plainly
        <4>2. Front(cur) \in DOMAIN new /\ IsStrictPrefix(Front(cur), cur) BY <1>1, <2>1, FrontInTree
        <4>3. Above(Front(cur)) BY <1>10, <2>1, <4>2
        <4>4. Plainly(tree)[Front(cur)].type = new[Front(cur)].type BY <4>3 DEF Plainly
        <4>8. \A q \in DOMAIN new : KindsOk(new, q) BY <1>0 DEF WalkOk
        <4>5. KindsFit(new)
          <5>. HIDE DEF new
          <5>. QED BY <1>1, <4>8, CheckedKinds
        <4>9. Front(cur) \in DOMAIN Plainly(tree) BY <4>1, <4>3
        <4>10. s = [r \in DOMAIN Plainly(tree) \cup Below(new, cur) |->
                     IF r \in DOMAIN Plainly(tree) THEN Plainly(tree)[r] ELSE new[r]]
          BY <4>1
        <4>. HIDE DEF s, Above, new
        <4>6. IsTree(s) BY <1>1, <1>2, <2>1, <4>9, <4>10, AddTree
        <4>7. KindsFit(s) BY <1>1, <1>2, <2>1, <4>1, <4>4, <4>5, <4>9, <4>10, AddKinds
        <4>. QED BY <4>6, <4>7
      <3>4. DOMAIN tree \subseteq DOMAIN tree' /\ \A q \in DOMAIN tree : tree'[q] = tree[q] BY <2>4
      <3>5. new' = new BY <2>1 DEF new
      <3>. HIDE DEF s
      <3>. QED BY <2>2, <3>2, <3>3, <3>4, <3>5 DEF IsRooted
    <2>. QED BY <1>8, <2>3, <2>4 DEF MergeAbsent, addSubtree
  <1>. QED BY <1>4, <1>5, <1>6, <1>7, <1>8 DEF Merge

(* The root alone is a tree.                                               *)
LEMMA RootIsTree == IsTree(Plainly(Root)) /\ KindsFit(Plainly(Root))
  <1> DEFINE t == Plainly(Root)
  <1>1. DOMAIN t = {<<>>} /\ t[<<>>] = Node("MODEL", FALSE, "-") BY DEF Root, Plainly
  <1>. HIDE DEF t
  <1>2. <<>> \in Seq(Names) /\ Len(<<>>) = 0 OBVIOUS
  <1>3. \A k \in 0 .. Len(<<>>) : SubSeq(<<>>, 1, k) = <<>>
    <2>1. SubSeq(<<>>, 1, 0) = <<>> OBVIOUS
    <2>2. \A k \in 0 .. Len(<<>>) : k = 0 BY <1>2
    <2>. QED BY <2>1, <2>2
  <1>4. IsFiniteSet(DOMAIN t) BY <1>1, FS_Singleton
  <1>5. /\ t[<<>>] = Node(t[<<>>].type, t[<<>>].array, t[<<>>].info)
        /\ t[<<>>].type # "NAMESPACE" /\ t[<<>>].type # "REF" /\ ~t[<<>>].array
    BY <1>1 DEF Node
  <1>6. \A q \in DOMAIN t : q = <<>> BY <1>1
  <1>7. DOMAIN t \subseteq Seq(Names) /\ <<>> \in DOMAIN t BY <1>1, <1>2
  <1>8. \A q \in DOMAIN t : \A k \in 0 .. Len(q) : SubSeq(q, 1, k) \in DOMAIN t
    BY <1>3, <1>6, <1>7
  <1>9. \A q \in DOMAIN t :
          /\ t[q] = Node(t[q].type, t[q].array, t[q].info)
          /\ t[q].type = "NAMESPACE" => t[q].info = "-"
          /\ t[q].type = "REF" => t[q].info \in Seq(Names)
          /\ t[q].array => t[q].type \in Plain
    BY <1>5, <1>6
  <1>10. IsTree(t) BY <1>1, <1>4, <1>7, <1>8, <1>9, Zenon DEF IsTree
  <1>11. KindsFit(t) BY <1>6 DEF KindsFit
  <1>. QED BY <1>10, <1>11 DEF t

(* So does the deletion.                                                   *)
LEMMA DeleteRooted ==
  ASSUME Base, IsRooted, Delete
  PROVE  IsRooted'
  <1>0. WalkOk /\ Running /\ op = "delete" /\ (GoesOn \/ Ends \/ BreaksOff) BY DeleteMoves DEF Base
  <1>1. by \in Providers /\ IsTree(new) /\ cur \in DOMAIN new /\ cur \in Path
    BY <1>0, WalkFacts
  <1>2. op' \notin {"dryRun", "merge"} BY <1>0 DEF GoesOn, Ends, BreaksOff
  <1> DEFINE Good(t) == IsTree(t) /\ KindsFit(t)
  <1>3. Good(Plainly(tree)) /\ (tree' = tree => Good(Plainly(tree)'))
    <2>1. tree' = tree => Plainly(tree)' = Plainly(tree) BY DEF Plainly
    <2>. QED BY <2>1 DEF IsRooted
  <1>4. ASSUME freeNode(cur), cur # <<>> PROVE Good(Plainly(tree)')
    <2> DEFINE t == Plainly(tree)
               s == [r \in DOMAIN t \ Below(t, cur) |-> t[r]]
    <2>1. DOMAIN t = DOMAIN tree /\ Below(t, cur) = Below(tree, cur) BY DEF Plainly, Below
    <2>2. tree' = [r \in DOMAIN tree \ Below(tree, cur) |-> tree[r]] BY <1>4 DEF freeNode
    <2>3. Plainly(tree)' = s BY <2>1, <2>2 DEF Plainly
    <2>4. Good(s) BY <1>1, <1>3, <1>4, FreeTree, FreeKinds
    <2>. QED BY <2>3, <2>4
  <1>5. Good(Plainly(tree)')
    <2>. HIDE DEF Good
    <2>1. CASE DeleteLeaf
      <3>1. cur # <<>>
        <4>1. KindsOk(new, cur) BY <1>0, <1>1 DEF WalkOk
        <4>2. new[<<>>].type = "MODEL" BY <1>1 DEF IsTree, Node
        <4>. QED BY <2>1, <4>1, <4>2 DEF KindsOk, NeedsChildren, DeleteLeaf
      <3>. QED BY <1>3, <1>4, <2>1, <3>1 DEF DeleteLeaf, Crash
    <2>2. CASE DeleteEmpty
      <3>1. CASE Crashes(cur) BY <1>3, <2>2, <3>1 DEF DeleteEmpty, Crash
      <3>2. CASE ~Crashes(cur) /\ cur = <<>>
        <4>1. tree' = Root BY <2>2, <3>2 DEF DeleteEmpty
        <4>2. Plainly(tree)' = Plainly(Root) BY <4>1 DEF Plainly
        <4>. QED BY <4>2, RootIsTree DEF Good
      <3>3. CASE ~Crashes(cur) /\ cur # <<>> BY <1>4, <2>2, <3>3 DEF DeleteEmpty
      <3>. QED BY <3>1, <3>2, <3>3
    <2>3. CASE DeleteDown \/ DeleteMissing \/ DeleteShrink
      BY <1>3, <2>3 DEF DeleteDown, DeleteMissing, DeleteShrink
    <2>. QED BY <2>1, <2>2, <2>3 DEF Delete
  <1>. QED BY <1>2, <1>5 DEF IsRooted

(* Every step does.                                                        *)
LEMMA NextRooted == ASSUME Base, IsRooted, [Next]_vars PROVE IsRooted'
  <1>1. CASE Merge BY <1>1, MergeRooted
  <1>2. CASE Delete BY <1>2, DeleteRooted
  <1>3. ASSUME tree' = tree, cur' = <<>> \/ (op' = op /\ cur' = cur /\ by' = by) PROVE IsRooted'
    BY <1>3 DEF IsRooted, Plainly, new
  <1>4. ASSUME NEW p \in Providers, Call(p) PROVE IsRooted'
    <2>1. tree' = tree /\ cur' = <<>> BY <1>4, CallIs DEF Base
    <2>. QED BY <1>3, <2>1
  <1>5. ASSUME NEW p \in Providers, Check(p) PROVE IsRooted'
    BY <1>3, <1>5 DEF Check, walk
  <1>6. CASE Race BY <1>6 DEF Race, IsRooted, Plainly
  <1>7. CASE UNCHANGED vars BY <1>3, <1>7 DEF vars, walk
  <1>. QED BY <1>1, <1>2, <1>4, <1>5, <1>6, <1>7 DEF Next, Call

-----------------------------------------------------------------------------
(* The invariant.                                                          *)

(* The invariant holds at first.                                           *)
LEMMA InitInv == ASSUME Init PROVE IInv
  <1>1. Base BY InitBase
  <1>2. op = "idle" /\ registered = {} /\ holes = {} /\ checked = {} /\ tree = Root BY DEF Init
  <1>3. \A p \in Providers : Standing(p) = {} BY <1>2, StandingIs
  <1>4. DOMAIN tree = {<<>>} /\ tree[<<>>].node = Node("MODEL", FALSE, "-") BY <1>2 DEF Root
  <1>5. TreeStands
    <2>1. UNION {Standing(p) : p \in Providers} = {} BY <1>3
    <2>. QED BY <1>3, <1>4, <2>1 DEF TreeStands
  <1>6. SharedFit BY <1>3 DEF SharedFit
  <1>7. Mergeable /\ HolesOnPath BY <1>2 DEF Mergeable, HolesOnPath
  <1>8. Untangled BY <1>2 DEF Untangled, Running
  <1>9. NamesStand BY <1>2 DEF NamesStand
  <1>10. IsRooted BY <1>2, RootIsTree DEF IsRooted
  <1>. QED BY <1>1, <1>2, <1>5, <1>6, <1>7, <1>8, <1>9, <1>10 DEF IInv, Sound

(* Every step keeps the invariant.                                         *)
LEMMA NextInv == ASSUME IInv, [Next]_vars PROVE IInv'
  <1> DEFINE Fine == op \notin {"crashed", "raced"} => Sound
  <1>1. Base /\ Base' /\ IsRooted' BY NextBase, NextRooted DEF IInv
  <1>2. SUFFICES ASSUME ~degraded' PROVE Fine' BY <1>1 DEF IInv
  <1>3. ~degraded BY <1>1, <1>2, DegradedStays
  <1>4. Fine BY <1>3 DEF IInv
  <1>5. CASE Merge
    <2>1. op \in {"dryRun", "merge"}
      BY <1>5 DEF Merge, MergeRoot, MergePresent, MergeRefused, MergeAbsent, MergeEnd
    <2>2. Sound BY <1>4, <2>1
    <2>3. Sound' BY <1>1, <1>2, <1>5, <2>2, MergeSound
    <2>. QED BY <2>3 DEF Sound
  <1>6. CASE Delete
    <2>1. op = "delete"
      BY <1>6 DEF Delete, DeleteLeaf, DeleteDown, DeleteMissing, DeleteShrink, DeleteEmpty
    <2>2. Sound BY <1>4, <2>1
    <2>. QED BY <1>1, <1>2, <1>6, <2>2, DeleteSound
  <1>7. ASSUME NEW p \in Providers, Call(p) PROVE Fine'
    <2>1. op = "idle" BY <1>1, <1>7, CallIs DEF Base, Idle
    <2>2. Sound BY <1>4, <2>1
    <2>3. Sound' BY <1>1, <1>2, <1>7, <2>2, CallSound
    <2>. QED BY <2>3 DEF Sound
  <1>8. ASSUME NEW p \in Providers, Check(p) PROVE Fine'
    <2>1. op \notin {"crashed", "raced"} BY <1>8 DEF Check
    <2>. QED BY <1>4, <1>8, <2>1, CheckSound
  <1>9. CASE Race BY <1>9 DEF Race
  <1>10. CASE UNCHANGED vars
    <2>1. UNCHANGED <<tree, holes, op, by, cur, prev, registered, lost, checked>>
      BY <1>10 DEF vars, walk
    <2>2. CASE op \in {"crashed", "raced"} BY <2>1, <2>2
    <2>3. CASE op \notin {"crashed", "raced"}
      <3>1. Sound BY <1>4, <2>3
      <3>2. \A p : Uses(p)' = Uses(p) BY DEF Uses
      <3>3. NamesStand' BY <2>1, <3>1, <3>2 DEF Sound, NamesStand, Own, new
      <3>. QED BY <2>1, <3>1, <3>3, StillSound
    <2>. QED BY <2>2, <2>3
  <1>. QED BY <1>5, <1>6, <1>7, <1>8, <1>9, <1>10 DEF Next, Call

(* While an operation goes through a tree, the datamodel has exactly what  *)
(* the cursor says it has, for any trees, any order of calls and messages, *)
(* and any number of calls that have checked their names and wait for      *)
(* slcLock, until an allocation fails, two trees disagree about an OBJECT  *)
(* with and without children, or the two layers about a node, or two       *)
(* operations or an operation and a look-up meet.                          *)
THEOREM Invariant == Spec => []IInv
  <1>. QED BY InitInv, NextInv, PTL DEF Spec

(* Between operations every registered tree stands whole.                  *)
LEMMA IdleStands ==
  ASSUME IInv, Idle, ~degraded
  PROVE  /\ Sound /\ op = "idle" /\ by = NoProvider /\ registered \subseteq Providers
         /\ \A p \in Providers : Standing(p) = IF p \in registered THEN DOMAIN Model[p] ELSE {}
  <1>1. op = "idle" BY DEF Idle
  <1>2. Sound /\ by = NoProvider /\ registered \subseteq Providers
    BY <1>1 DEF IInv, Base, WalkOk, TypeOK
  <1>. QED BY <1>1, <1>2, StandingIs

(* Between operations the datamodel is the union of the registered trees,  *)
(* node by node, with no entry that is NULL.                               *)
THEOREM DatamodelIsUnion == Spec => []TreeIsUnion
  <1>1. ASSUME IInv PROVE TreeIsUnion
    <2>1. SUFFICES ASSUME Idle, ~degraded
                   PROVE  /\ holes = {} /\ DOMAIN tree = Union
                          /\ \A p \in registered : \A q \in DOMAIN Model[p] : tree[q].node = Model[p][q]
      BY DEF TreeIsUnion
    <2>2. /\ Sound /\ op = "idle" /\ registered \subseteq Providers
          /\ \A p \in Providers : Standing(p) = IF p \in registered THEN DOMAIN Model[p] ELSE {}
      BY <1>1, <2>1, IdleStands
    <2>3. holes = {} BY <2>2 DEF Sound, HolesOnPath
    <2>4. UNION {Standing(p) : p \in Providers} = UNION {DOMAIN Model[p] : p \in registered}
      <3>1. \A q : (\E p \in Providers : q \in Standing(p)) <=> (\E p \in registered : q \in DOMAIN Model[p])
        BY <2>2
      <3>. QED BY <3>1
    <2>5. DOMAIN tree = Union BY <2>2, <2>4 DEF Sound, TreeStands, Union
    <2>6. \A p \in registered : \A q \in DOMAIN Model[p] : tree[q].node = Model[p][q]
      BY <2>2 DEF Sound, TreeStands
    <2>. QED BY <2>3, <2>5, <2>6
  <1>. QED BY <1>1, Invariant, PTL

(* A name of a type that was looked up before a provider of this layer     *)
(* registered leads somewhere ever after, unless its node was freed since  *)
(* the look-up, before the provider got slcLock or after.                  *)
THEOREM NamesLeadSomewhere == Spec => []NamesResolve
  <1>1. ASSUME IInv PROVE NamesResolve
    <2>1. SUFFICES ASSUME Idle, ~degraded
                   PROVE  \A p \in (registered \cap Local) \ lost : Uses(p) \subseteq DOMAIN tree
      BY DEF NamesResolve
    <2>2. Sound /\ op = "idle" BY <1>1, <2>1, IdleStands
    <2>. QED BY <2>2 DEF Sound, NamesStand
  <1>. QED BY <1>1, Invariant, PTL

(* A tree at every step, whatever fails half way.                          *)
THEOREM AlwaysTree == Spec => []AlwaysATree
  <1>1. IInv => AlwaysATree BY DEF IInv, IsRooted, AlwaysATree
  <1>. QED BY <1>1, Invariant, PTL

-----------------------------------------------------------------------------
(* The copy for the other layer.                                           *)

(* Induction: a set with 0 that is closed under + 1 has every number.      *)
LEMMA Induction ==
  ASSUME NEW T, 0 \in T, \A n \in Nat : n \in T => n + 1 \in T
  PROVE  \A n \in Nat : n \in T
  <1>1. SUFFICES ASSUME Nat \ T # {} PROVE FALSE OBVIOUS
  <1>2. PICK x \in Nat \ T : \A y \in Nat \ T : x <= y BY <1>1, LeastExists
  <1>3. x # 0 /\ x - 1 \in Nat BY <1>2
  <1>4. x - 1 \in T BY <1>2, <1>3
  <1>. QED BY <1>2, <1>3, <1>4

(* A node has as many children as there are, and some bytes.               *)
LEMMA ChildrenFinite ==
  ASSUME NEW t, IsTree(t), NEW p \in DOMAIN t
  PROVE  IsFiniteSet(Children(t, p)) /\ Cardinality(Children(t, p)) \in Nat
  <1> DEFINE f == [n \in Children(t, p) |-> Append(p, n)]
  <1>0. p \in Path BY TreePath
  <1>1. f \in [Children(t, p) -> DOMAIN t] BY ChildrenNames
  <1>2. ASSUME NEW n \in Children(t, p), NEW m \in Children(t, p), f[n] = f[m] PROVE n = m
    <2>1. n \in Names /\ m \in Names BY ChildrenNames
    <2>2. Last(Append(p, n)) = n /\ Last(Append(p, m)) = m BY <1>0, <2>1, FrontAppend
    <2>. QED BY <1>2, <2>2
  <1>. HIDE DEF f
  <1>3. f \in Injection(Children(t, p), DOMAIN t) BY <1>1, <1>2 DEF Injection, IsInjective
  <1>4. IsFiniteSet(DOMAIN t) BY DEF IsTree
  <1>. QED BY <1>3, <1>4, FS_Injection, FS_CardinalityType

LEMMA BytesTheorem ==
  ASSUME NEW t, IsTree(t), NEW p \in DOMAIN t
  PROVE  Bytes(t, p) \in Nat \ {0}
  <1>1. Cardinality(Children(t, p)) \in Nat BY ChildrenFinite
  <1>2. InfoSize(t[p]) \in Nat
    <2>1. CASE t[p].type = "REF"
      <3>1. t[p].info \in Path BY <2>1 DEF IsTree, Path
      <3>2. Len(t[p].info) \in Nat BY <3>1, PathElement
      <3>. QED BY <2>1, <3>2 DEF InfoSize
    <2>2. CASE t[p].type # "REF" BY <2>2 DEF InfoSize
    <2>. QED BY <2>1, <2>2
  <1>. QED BY <1>1, <1>2 DEF Bytes, NodeSize

(* A step of the walk has passed the node it leaves, and nothing else in   *)
(* addition; it ends at the root when there is nothing left.               *)
LEMMA StepPasses ==
  ASSUME NEW t, IsTree(t), NEW p \in DOMAIN t
  PROVE  /\ Step(t, p) \in DOMAIN t
         /\ Step(t, p) # <<>> => Passed(t, Step(t, p)) = Passed(t, p) \cup {p}
         /\ Step(t, p) = <<>> => DOMAIN t = Passed(t, p) \cup {p}
  <1>0. p \in Path /\ DOMAIN t \subseteq Path BY TreePath
  <1>1. CASE Children(t, p) # {}
    <2>1. Step(t, p) = Child(t, p) BY <1>1 DEF Step
    <2>. QED BY <1>1, <2>1, FirstChild
  <1>2. CASE Children(t, p) = {}
    <2>1. Step(t, p) = After(t, p) BY <1>2 DEF Step
    <2>2. ASSUME NEW q \in Below(t, p) PROVE q = p
      <3>1. q \in DOMAIN t /\ IsPrefix(p, q) BY DEF Below
      <3>2. IsStrictPrefix(p, q) => q[Len(p) + 1] \in Children(t, p) BY <1>0, <3>1, BelowChild
      <3>. QED BY <1>2, <3>1, <3>2 DEF IsStrictPrefix
    <2>3. Below(t, p) = {p}
      <3>1. IsPrefix(p, p) BY <1>0, PrefixOfItself
      <3>. QED BY <2>2, <3>1 DEF Below
    <2>4. CASE Turns(t, p) = {}
      <3>1. After(t, p) = <<>> /\ DOMAIN t = Passed(t, p) \cup Below(t, p) BY <2>4, AfterLast
      <3>2. <<>> \in DOMAIN t BY TreePath
      <3>. QED BY <2>1, <2>3, <3>1, <3>2, Zenon
    <2>5. CASE Turns(t, p) # {} BY <2>1, <2>3, <2>5, AfterTurn
    <2>. QED BY <2>4, <2>5
  <1>. QED BY <1>1, <1>2

LEMMA NotPassed == ASSUME NEW t, IsTree(t), NEW p \in DOMAIN t PROVE p \notin Passed(t, p)
  <1>1. p \in Path BY TreePath
  <1>. QED BY <1>1, PrefixOfItself DEF Passed, IsStrictPrefix

(* v are the first n nodes the walk visits.                                *)
Visits(t, n, v) ==
  v \in [1 .. n -> DOMAIN t] /\ v[1] = <<>> /\ \A k \in 1 .. n - 1 : v[k + 1] = Step(t, v[k])

LEMMA VisitsExist ==
  ASSUME NEW t, IsTree(t), NEW N \in Nat
  PROVE  \E v : Visits(t, N + 1, v)
  <1> DEFINE T == {n \in Nat : \E v : Visits(t, n + 1, v)}
  <1>1. 0 \in T
    <2> DEFINE r == <<>>
               v == [k \in 1 .. 1 |-> r]
    <2>1. r \in DOMAIN t BY TreePath
    <2>. HIDE DEF r
    <2>2. v \in [1 .. 1 -> DOMAIN t] /\ v[1] = r BY <2>1
    <2>. HIDE DEF v
    <2>3. Visits(t, 0 + 1, v) BY <2>2 DEF Visits, r
    <2>. QED BY <2>3
  <1>2. ASSUME NEW n \in Nat, n \in T PROVE n + 1 \in T
    <2>1. PICK v : Visits(t, n + 1, v) BY <1>2
    <2> DEFINE s == Step(t, v[n + 1])
               w == [k \in 1 .. (n + 1) + 1 |-> IF k = (n + 1) + 1 THEN s ELSE v[k]]
    <2>2. v[n + 1] \in DOMAIN t BY <2>1 DEF Visits
    <2>3. s \in DOMAIN t BY <2>2, StepPasses
    <2>. HIDE DEF s
    <2>4. w \in [1 .. (n + 1) + 1 -> DOMAIN t] /\ w[1] = v[1] BY <2>1, <2>3 DEF Visits
    <2>5. ASSUME NEW k \in 1 .. ((n + 1) + 1) - 1 PROVE w[k + 1] = Step(t, w[k])
      <3>1. k \in 1 .. n + 1 /\ k \in 1 .. (n + 1) + 1 /\ k # (n + 1) + 1 OBVIOUS
      <3>2. w[k] = v[k] BY <3>1
      <3>3. CASE k = n + 1 BY <3>2, <3>3 DEF s
      <3>4. CASE k # n + 1
        <4>1. k \in 1 .. (n + 1) - 1 /\ k + 1 \in 1 .. (n + 1) + 1 /\ k + 1 # (n + 1) + 1
          BY <3>1, <3>4
        <4>2. w[k + 1] = v[k + 1] BY <4>1
        <4>3. v[k + 1] = Step(t, v[k]) BY <2>1, <4>1 DEF Visits
        <4>. QED BY <3>2, <4>2, <4>3
      <3>. QED BY <3>3, <3>4
    <2>. HIDE DEF w
    <2>6. Visits(t, (n + 1) + 1, w) BY <2>1, <2>4, <2>5 DEF Visits
    <2>. QED BY <2>6
  <1>. HIDE DEF T
  <1>3. N \in T BY <1>1, <1>2, Induction
  <1>. QED BY <1>3 DEF T

(* As many as there are nodes: they are all nodes, each of them once.      *)
LEMMA VisitsAll ==
  ASSUME NEW t, IsTree(t), NEW N, N = Cardinality(DOMAIN t), NEW v, Visits(t, N, v)
  PROVE  /\ N \in Nat \ {0}
         /\ \A i, j \in 1 .. N : v[i] = v[j] => i = j
         /\ \A p \in DOMAIN t : \E i \in 1 .. N : v[i] = p
  <1> DEFINE Earlier(k) == {q \in DOMAIN t : \E i \in 1 .. k - 1 : v[i] = q}
  <1>1. IsFiniteSet(DOMAIN t) /\ <<>> \in DOMAIN t BY DEF IsTree
  <1>2. N \in Nat \ {0} BY <1>1, FS_CardinalityType, FS_EmptySet
  <1>3. \A k \in 1 .. N : v[k] \in DOMAIN t BY DEF Visits
  <1> DEFINE T == {n \in Nat : n + 1 <= N => Passed(t, v[n + 1]) = Earlier(n + 1)
                                              /\ Cardinality(Passed(t, v[n + 1])) = n}
  <1>4. 0 \in T
    <2>1. v[0 + 1] = <<>> BY DEF Visits
    <2>2. Passed(t, v[0 + 1]) = {} BY <2>1, RootPassed
    <2>3. Earlier(0 + 1) = {} OBVIOUS
    <2>4. Cardinality({}) = 0 BY FS_EmptySet
    <2>. HIDE DEF Earlier
    <2>. QED BY <2>2, <2>3, <2>4
  <1>5. ASSUME NEW p \in DOMAIN t
        PROVE  /\ Cardinality(Passed(t, p) \cup {p}) = Cardinality(Passed(t, p)) + 1
               /\ Passed(t, p) \cup {p} \in SUBSET DOMAIN t
    <2>1. Passed(t, p) \in SUBSET DOMAIN t BY DEF Passed
    <2>2. IsFiniteSet(Passed(t, p)) BY <1>1, <2>1, FS_Subset
    <2>. QED BY <2>1, <2>2, NotPassed, FS_AddElement
  <1>6. ASSUME NEW n \in Nat, n \in T PROVE n + 1 \in T
    <2>1. SUFFICES ASSUME (n + 1) + 1 <= N
                   PROVE  /\ Passed(t, v[(n + 1) + 1]) = Earlier((n + 1) + 1)
                          /\ Cardinality(Passed(t, v[(n + 1) + 1])) = n + 1
      OBVIOUS
    <2> DEFINE p == v[n + 1]
               q == v[(n + 1) + 1]
    <2>2. n + 1 \in 1 .. N /\ n + 1 \in 1 .. N - 1 /\ n + 1 <= N BY <1>2, <2>1
    <2>3. p \in DOMAIN t /\ q = Step(t, p) BY <1>3, <2>2 DEF Visits
    <2>4. Passed(t, p) = Earlier(n + 1) /\ Cardinality(Passed(t, p)) = n BY <1>6, <2>2
    <2>5. Earlier((n + 1) + 1) = Earlier(n + 1) \cup {p}
      <3>1. ASSUME NEW r \in DOMAIN t
            PROVE  r \in Earlier((n + 1) + 1) <=> r \in Earlier(n + 1) \/ r = p
        <4>1. r \in Earlier((n + 1) + 1) <=> \E i \in 1 .. n + 1 : v[i] = r
          <5>1. ((n + 1) + 1) - 1 = n + 1 OBVIOUS
          <5>. QED BY <5>1
        <4>2. r \in Earlier(n + 1) <=> \E i \in 1 .. n : v[i] = r
          <5>1. (n + 1) - 1 = n OBVIOUS
          <5>. QED BY <5>1
        <4>3. \A i : i \in 1 .. n + 1 <=> i \in 1 .. n \/ i = n + 1 OBVIOUS
        <4>. HIDE DEF Earlier
        <4>. QED BY <4>1, <4>2, <4>3
      <3>2. Earlier((n + 1) + 1) \subseteq DOMAIN t /\ Earlier(n + 1) \subseteq DOMAIN t OBVIOUS
      <3>. HIDE DEF Earlier, p
      <3>. QED BY <2>3, <3>1, <3>2
    <2>. HIDE DEF p, q, Earlier
    <2>6. Cardinality(Passed(t, p) \cup {p}) = n + 1 BY <1>5, <2>3, <2>4
    <2>7. q # <<>>
      <3>1. SUFFICES ASSUME q = <<>> PROVE FALSE OBVIOUS
      <3>2. DOMAIN t = Passed(t, p) \cup {p} BY <2>3, <3>1, StepPasses
      <3>3. N = n + 1 BY <2>6, <3>2
      <3>. QED BY <2>1, <3>3
    <2>8. Passed(t, q) = Passed(t, p) \cup {p} BY <2>3, <2>7, StepPasses
    <2>. QED BY <2>4, <2>5, <2>6, <2>8 DEF q
  <1>7. ASSUME NEW k \in 1 .. N
        PROVE  Passed(t, v[k]) = Earlier(k) /\ Cardinality(Passed(t, v[k])) = k - 1
    <2>1. k - 1 \in Nat /\ (k - 1) + 1 = k /\ k <= N BY <1>2
    <2>2. k - 1 \in T
      <3>. HIDE DEF T
      <3>. QED BY <1>4, <1>6, <2>1, Induction
    <2>. HIDE DEF Earlier
    <2>. QED BY <2>1, <2>2
  <1>8. ASSUME NEW i \in 1 .. N, NEW j \in 1 .. N, i < j PROVE v[i] # v[j]
    <2>1. i \in 1 .. j - 1 BY <1>8
    <2>2. v[i] \in Passed(t, v[j]) BY <1>3, <1>7, <2>1
    <2>. QED BY <1>3, <2>2, NotPassed
  <1>9. \A i, j \in 1 .. N : v[i] = v[j] => i = j
    <2>1. TAKE i, j \in 1 .. N
    <2>2. i < j \/ j < i \/ i = j OBVIOUS
    <2>. QED BY <1>8, <2>2
  <1>10. ASSUME NEW p \in DOMAIN t PROVE \E i \in 1 .. N : v[i] = p
    <2> DEFINE l == v[N]
    <2>1. N \in 1 .. N BY <1>2
    <2>2. l \in DOMAIN t /\ Passed(t, l) = Earlier(N) /\ Cardinality(Passed(t, l)) = N - 1
      BY <1>3, <1>7, <2>1
    <2>. HIDE DEF l, Earlier
    <2>3. Cardinality(Passed(t, l) \cup {l}) = N BY <1>2, <1>5, <2>2
    <2>4. DOMAIN t = Passed(t, l) \cup {l} BY <1>1, <1>5, <2>2, <2>3, FS_Subset
    <2>5. p = l \/ p \in Earlier(N) BY <2>2, <2>4
    <2>6. \A i \in 1 .. N - 1 : i \in 1 .. N BY <1>2
    <2>7. p \in Earlier(N) => \E i \in 1 .. N - 1 : v[i] = p BY DEF Earlier
    <2>. QED BY <2>1, <2>5, <2>6, <2>7 DEF l
  <1>. QED BY <1>2, <1>9, <1>10

(* And Walk is the sequence of them.                                       *)
LEMMA WalkTheorem ==
  ASSUME NEW t, IsTree(t)
  PROVE  Walk(t) \in Seq(DOMAIN t) /\ Visits(t, Len(Walk(t)), Walk(t)) /\ Len(Walk(t)) = Cardinality(DOMAIN t)
  <1> DEFINE N == Cardinality(DOMAIN t)
             Further == [w \in Seq(DOMAIN t) |-> Append(w, Step(t, Last(w)))]
             Body(f, k) == IF k = 1 THEN << <<>> >> ELSE Further[f[k - 1]]
             F == CHOOSE f : f = [k \in 1 .. N |-> Body(f, k)]
  <1>1. IsFiniteSet(DOMAIN t) /\ <<>> \in DOMAIN t BY DEF IsTree
  <1>2. N \in Nat \ {0} BY <1>1, FS_CardinalityType, FS_EmptySet
  <1>3. PICK v : Visits(t, N, v)
    <2>. HIDE DEF N
    <2>1. N - 1 \in Nat /\ (N - 1) + 1 = N BY <1>2
    <2>. QED BY <2>1, VisitsExist
  <1>. HIDE DEF N
  <1> DEFINE Is(w, k) == w \in Seq(DOMAIN t) /\ Len(w) = k /\ \A i \in 1 .. k : w[i] = v[i]
  <1>4. ASSUME NEW w, NEW k \in 1 .. N, k # 1, Is(w, k - 1) PROVE Is(Further[w], k)
    <2>1. k - 1 \in 1 .. N /\ k - 1 \in 1 .. N - 1 /\ k - 1 \in 1 .. k - 1 /\ (k - 1) + 1 = k BY <1>2, <1>4
    <2>2. Last(w) = v[k - 1] BY <1>4, <2>1 DEF Last
    <2>3. Step(t, v[k - 1]) = v[k] /\ v[k] \in DOMAIN t BY <1>3, <2>1 DEF Visits
    <2>4. Further[w] = Append(w, v[k]) BY <1>4, <2>2, <2>3
    <2>5. \A i \in 1 .. k : Append(w, v[k])[i] = v[i]
      <3>1. TAKE i \in 1 .. k
      <3>2. i = k \/ i \in 1 .. k - 1 OBVIOUS
      <3>. QED BY <1>4, <2>1, <2>3, <3>2
    <2>6. Append(w, v[k]) \in Seq(DOMAIN t) /\ Len(Append(w, v[k])) = k BY <1>4, <2>1, <2>3
    <2>. QED BY <2>4, <2>5, <2>6
  <1>5. Is(<< <<>> >>, 1) BY <1>1, <1>3 DEF Visits
  <1> DEFINE g == [k \in 1 .. N |-> [i \in 1 .. k |-> v[i]]]
  <1>6. ASSUME NEW w, NEW k \in 1 .. N, Is(w, k) PROVE w = [i \in 1 .. k |-> v[i]]
    BY <1>6
  <1>7. ASSUME NEW k \in 1 .. N PROVE Is([i \in 1 .. k |-> v[i]], k)
    <2> DEFINE u == [i \in 1 .. k |-> v[i]]
    <2>1. k \in Nat /\ \A i \in 1 .. k : v[i] \in DOMAIN t BY <1>2, <1>3 DEF Visits
    <2>2. u \in [1 .. k -> DOMAIN t] /\ \A i \in 1 .. k : u[i] = v[i] BY <2>1
    <2>. HIDE DEF u
    <2>3. u \in Seq(DOMAIN t) /\ Len(u) = k BY <2>1, <2>2
    <2>4. Is(u, k) BY <2>2, <2>3
    <2>. QED BY <2>4 DEF u
  <1>. HIDE DEF Is, Further
  <1>8. g = [k \in 1 .. N |-> Body(g, k)]
    <2>1. ASSUME NEW k \in 1 .. N PROVE g[k] = Body(g, k)
      <3>1. CASE k = 1
        <4>1. g[1] = [i \in 1 .. 1 |-> v[i]] BY <3>1
        <4>2. << <<>> >> = [i \in 1 .. 1 |-> v[i]] BY <1>2, <1>5, <1>6
        <4>. QED BY <3>1, <4>1, <4>2
      <3>2. CASE k # 1
        <4>1. k - 1 \in 1 .. N BY <1>2, <3>2
        <4>2. Is(g[k - 1], k - 1) BY <1>7, <4>1
        <4>3. Is(Further[g[k - 1]], k) BY <1>4, <3>2, <4>2
        <4>4. Further[g[k - 1]] = g[k] BY <1>6, <4>3
        <4>. QED BY <3>2, <4>4
      <3>. QED BY <3>1, <3>2
    <2>. HIDE DEF Body
    <2>. QED BY <2>1
  <1>9. F = [k \in 1 .. N |-> Body(F, k)]
    <2>. HIDE DEF g, Body
    <2>. QED BY <1>8, Zenon
  <1>10. Walk(t) = F[N] BY Zenon DEF Walk, N, Further
  <1>. HIDE DEF F
  <1> DEFINE T == {n \in Nat : n + 1 <= N => Is(F[n + 1], n + 1)}
  <1>11. 0 \in T
    <2>1. 1 \in 1 .. N BY <1>2
    <2>2. F[1] = << <<>> >> BY <1>9, <2>1
    <2>. QED BY <1>5, <2>2
  <1>12. ASSUME NEW n \in Nat, n \in T PROVE n + 1 \in T
    <2>1. SUFFICES ASSUME (n + 1) + 1 <= N PROVE Is(F[(n + 1) + 1], (n + 1) + 1) OBVIOUS
    <2>2. (n + 1) + 1 \in 1 .. N /\ (n + 1) + 1 # 1 /\ ((n + 1) + 1) - 1 = n + 1 /\ n + 1 <= N
      BY <1>2, <2>1
    <2>3. F[(n + 1) + 1] = Further[F[n + 1]] BY <1>9, <2>2
    <2>4. Is(F[n + 1], n + 1) BY <1>12, <2>2
    <2>. QED BY <1>4, <2>2, <2>3, <2>4
  <1>13. Is(F[N], N)
    <2>1. N - 1 \in Nat /\ (N - 1) + 1 = N BY <1>2
    <2>2. N - 1 \in T
      <3>. HIDE DEF T
      <3>. QED BY <1>11, <1>12, <2>1, Induction
    <2>. QED BY <2>1, <2>2
  <1>14. Walk(t) \in Seq(DOMAIN t) /\ Len(Walk(t)) = N /\ \A i \in 1 .. N : Walk(t)[i] = v[i]
    BY <1>10, <1>13 DEF Is
  <1>15. Walk(t) = v
    <2>1. DOMAIN Walk(t) = 1 .. N BY <1>2, <1>14
    <2>2. v \in [1 .. N -> DOMAIN t] BY <1>3 DEF Visits
    <2>3. Walk(t) \in [1 .. N -> DOMAIN t] BY <1>14, <2>1
    <2>. QED BY <1>14, <2>2, <2>3
  <1>. QED BY <1>3, <1>14, <1>15 DEF N

(* s[k] is how many bytes the first k nodes of the walk take.              *)
Sizes(t, w, n, s) ==
  s \in [0 .. n -> Nat] /\ s[0] = 0 /\ \A k \in 1 .. n : s[k] = s[k - 1] + Bytes(t, w[k])

(* What the theorems below use of the walk.                                *)
WalkIs(t, w, N) ==
  /\ N \in Nat \ {0} /\ DOMAIN w = 1 .. N /\ Len(w) = N /\ w[1] = <<>>
  /\ \A k \in 1 .. N : w[k] \in DOMAIN t /\ Bytes(t, w[k]) \in Nat \ {0}
  /\ \A i, j \in 1 .. N : w[i] = w[j] => i = j
  /\ \A p \in DOMAIN t : \E i \in 1 .. N : w[i] = p

LEMMA WalkFound == ASSUME NEW t, IsTree(t) PROVE WalkIs(t, Walk(t), Cardinality(DOMAIN t))
  <1> DEFINE N == Cardinality(DOMAIN t)
             w == Walk(t)
  <1>1. w \in Seq(DOMAIN t) /\ Visits(t, Len(w), w) /\ Len(w) = N BY WalkTheorem
  <1>. HIDE DEF N, w
  <1>2. Visits(t, N, w) BY <1>1
  <1>3. /\ N \in Nat \ {0}
        /\ \A i, j \in 1 .. N : w[i] = w[j] => i = j
        /\ \A p \in DOMAIN t : \E i \in 1 .. N : w[i] = p
    BY <1>2, VisitsAll DEF N
  <1>4. w[1] = <<>> /\ DOMAIN w = 1 .. N /\ \A k \in 1 .. N : w[k] \in DOMAIN t BY <1>2 DEF Visits
  <1>5. \A k \in 1 .. N : Bytes(t, w[k]) \in Nat \ {0} BY <1>4, BytesTheorem
  <1>. QED BY <1>1, <1>3, <1>4, <1>5, Zenon DEF WalkIs, N, w

LEMMA SizesExist ==
  ASSUME NEW t, NEW w, NEW N, WalkIs(t, w, N)
  PROVE  \E s : Sizes(t, w, N, s)
  <1> DEFINE T == {n \in Nat : n <= N => \E s : Sizes(t, w, n, s)}
  <1>1. N \in Nat /\ \A k \in 1 .. N : Bytes(t, w[k]) \in Nat BY DEF WalkIs
  <1>2. 0 \in T
    <2>1. Sizes(t, w, 0, [k \in 0 .. 0 |-> 0]) BY DEF Sizes
    <2>. QED BY <2>1
  <1>3. ASSUME NEW n \in Nat, n \in T PROVE n + 1 \in T
    <2>1. SUFFICES ASSUME n + 1 <= N PROVE \E s : Sizes(t, w, n + 1, s) OBVIOUS
    <2>2. PICK s : Sizes(t, w, n, s) BY <1>1, <1>3, <2>1
    <2> DEFINE b == Bytes(t, w[n + 1])
               more == [k \in 0 .. n + 1 |-> IF k = n + 1 THEN s[n] + b ELSE s[k]]
    <2>3. b \in Nat /\ s[n] \in Nat
      <3>1. n + 1 \in 1 .. N BY <1>1, <2>1
      <3>2. b \in Nat BY <1>1, <3>1
      <3>. QED BY <2>2, <3>2 DEF Sizes
    <2>. HIDE DEF b
    <2>4. more \in [0 .. n + 1 -> Nat] /\ more[0] = 0 BY <2>2, <2>3 DEF Sizes
    <2>5. ASSUME NEW k \in 1 .. n + 1 PROVE more[k] = more[k - 1] + Bytes(t, w[k])
      <3>1. CASE k = n + 1 BY <3>1 DEF b
      <3>2. CASE k # n + 1
        <4>1. k \in 1 .. n /\ k \in 0 .. n + 1 /\ k - 1 \in 0 .. n + 1 /\ k - 1 # n + 1 BY <3>2
        <4>2. more[k] = s[k] /\ more[k - 1] = s[k - 1] BY <3>2, <4>1
        <4>. QED BY <2>2, <4>1, <4>2 DEF Sizes
      <3>. QED BY <3>1, <3>2
    <2>. HIDE DEF more
    <2>. QED BY <2>4, <2>5 DEF Sizes
  <1>4. N \in T
    <2>. HIDE DEF T
    <2>. QED BY <1>1, <1>2, <1>3, Induction
  <1>. QED BY <1>1, <1>4

(* They grow.                                                              *)
LEMMA SizesGrow ==
  ASSUME NEW t, NEW w, NEW N, WalkIs(t, w, N), NEW s, Sizes(t, w, N, s)
  PROVE  \A i, j \in 0 .. N : i <= j => s[i] <= s[j]
  <1>1. N \in Nat /\ \A k \in 1 .. N : Bytes(t, w[k]) \in Nat BY DEF WalkIs
  <1>2. TAKE i \in 0 .. N
  <1> DEFINE T == {n \in Nat : n <= N /\ i <= n => s[i] <= s[n]}
  <1>3. \A k \in 0 .. N : s[k] \in Nat BY DEF Sizes
  <1>4. 0 \in T
    <2>1. i <= 0 => i = 0 OBVIOUS
    <2>. QED BY <1>3, <2>1
  <1>5. ASSUME NEW n \in Nat, n \in T PROVE n + 1 \in T
    <2>1. SUFFICES ASSUME n + 1 <= N, i <= n + 1 PROVE s[i] <= s[n + 1] OBVIOUS
    <2>2. n + 1 \in 1 .. N /\ (n + 1) - 1 = n /\ n \in 0 .. N /\ n <= N /\ n + 1 \in 0 .. N BY <1>1, <2>1
    <2>3. s[n + 1] = s[n] + Bytes(t, w[n + 1]) BY <2>2 DEF Sizes
    <2>4. s[n] \in Nat /\ s[i] \in Nat /\ s[n + 1] \in Nat BY <1>3, <2>2
    <2>5. Bytes(t, w[n + 1]) \in Nat BY <1>1, <2>2
    <2>6. CASE i = n + 1 BY <2>4, <2>6
    <2>7. CASE i <= n
      <3>1. s[i] <= s[n] BY <1>5, <2>2, <2>7
      <3>. QED BY <2>3, <2>4, <2>5, <3>1
    <2>. QED BY <2>1, <2>6, <2>7
  <1>6. TAKE j \in 0 .. N
  <1>7. j \in T
    <2>1. j \in Nat OBVIOUS
    <2>. HIDE DEF T
    <2>. QED BY <1>4, <1>5, <2>1, Induction
  <1>. QED BY <1>1, <1>7

(* calcDatamodelSize computes the last of them.                            *)
LEMMA SizeTheorem ==
  ASSUME NEW t, NEW N, WalkIs(t, Walk(t), N), NEW s, Sizes(t, Walk(t), N, s)
  PROVE  calcDatamodelSize(t) = s[N]
  <1> DEFINE w == Walk(t)
             Body(f, k) == IF k = 0 THEN 0 ELSE f[k - 1] + Bytes(t, w[k])
             F == CHOOSE f : f = [k \in 0 .. Len(w) |-> Body(f, k)]
  <1>1. N \in Nat /\ Len(w) = N BY DEF WalkIs
  <1>2. s = [k \in 0 .. N |-> Body(s, k)]
    <2>1. \A k \in 0 .. N : s[k] = Body(s, k) BY <1>1 DEF Sizes
    <2>. HIDE DEF Body
    <2>. QED BY <2>1 DEF Sizes
  <1>3. F = [k \in 0 .. N |-> Body(F, k)]
    <2>. HIDE DEF Body, w
    <2>. QED BY <1>1, <1>2, Zenon
  <1>4. calcDatamodelSize(t) = F[N] BY <1>1, Zenon DEF calcDatamodelSize
  <1>. HIDE DEF F
  <1> DEFINE T == {n \in Nat : n <= N => F[n] = s[n]}
  <1>5. 0 \in T BY <1>1, <1>3 DEF Sizes
  <1>6. ASSUME NEW n \in Nat, n \in T PROVE n + 1 \in T
    <2>1. SUFFICES ASSUME n + 1 <= N PROVE F[n + 1] = s[n + 1] OBVIOUS
    <2>2. n + 1 \in 0 .. N /\ n + 1 \in 1 .. N /\ n + 1 # 0 /\ (n + 1) - 1 = n /\ n <= N
      BY <1>1, <2>1
    <2>3. F[n + 1] = F[n] + Bytes(t, w[n + 1]) BY <1>3, <2>2
    <2>4. s[n + 1] = s[n] + Bytes(t, w[n + 1]) BY <2>2 DEF Sizes
    <2>. QED BY <1>6, <2>2, <2>3, <2>4
  <1>7. N \in T
    <2>. HIDE DEF T
    <2>. QED BY <1>1, <1>5, <1>6, Induction
  <1>. QED BY <1>1, <1>4, <1>7

(* A node is laid out where the ones before it in the walk end.            *)
LEMMA AddressTheorem ==
  ASSUME NEW t, NEW N, WalkIs(t, Walk(t), N), NEW s, Sizes(t, Walk(t), N, s), NEW base \in Nat
  PROVE  /\ DOMAIN Address(t, base) = DOMAIN t
         /\ \A k \in 1 .. N : Address(t, base)[Walk(t)[k]] = base + s[k - 1]
  <1> DEFINE w == Walk(t)
             Body(f, k) == IF k = 1 THEN base ELSE f[k - 1] + Bytes(t, w[k - 1])
             F == CHOOSE f : f = [k \in DOMAIN w |-> Body(f, k)]
             g == [k \in 1 .. N |-> base + s[k - 1]]
  <1>1. /\ N \in Nat \ {0} /\ DOMAIN w = 1 .. N
        /\ \A k \in 1 .. N : w[k] \in DOMAIN t /\ Bytes(t, w[k]) \in Nat
        /\ \A i, j \in 1 .. N : w[i] = w[j] => i = j
    BY DEF WalkIs
  <1>2. s[0] = 0 /\ \A k \in 1 .. N : s[k] = s[k - 1] + Bytes(t, w[k]) /\ s[k - 1] \in Nat
    BY <1>1 DEF Sizes
  <1>. HIDE DEF w
  <1>3. ASSUME NEW k \in 1 .. N PROVE g[k] = Body(g, k)
    <2>1. CASE k = 1 BY <1>2, <2>1
    <2>2. CASE k # 1
      <3>1. k - 1 \in 1 .. N BY <1>1, <2>2
      <3>2. s[k - 1] = s[(k - 1) - 1] + Bytes(t, w[k - 1]) /\ s[(k - 1) - 1] \in Nat BY <1>2, <3>1
      <3>3. Bytes(t, w[k - 1]) \in Nat BY <1>1, <3>1
      <3>4. g[k] = base + s[k - 1] /\ g[k - 1] = base + s[(k - 1) - 1] BY <3>1
      <3>. HIDE DEF g
      <3>. QED BY <2>2, <3>2, <3>3, <3>4
    <2>. QED BY <2>1, <2>2
  <1>4. g = [k \in DOMAIN w |-> Body(g, k)]
    <2>. HIDE DEF Body
    <2>. QED BY <1>1, <1>3
  <1>5. F = [k \in DOMAIN w |-> Body(F, k)]
    <2>. HIDE DEF Body, g
    <2>. QED BY <1>4, Zenon
  <1>6. Address(t, base) = [p \in DOMAIN t |-> F[CHOOSE k \in DOMAIN w : w[k] = p]]
    BY Zenon DEF Address, w
  <1>. HIDE DEF F
  <1> DEFINE T == {n \in Nat : n + 1 <= N => F[n + 1] = base + s[n]}
  <1>7. 0 \in T BY <1>1, <1>2, <1>5
  <1>8. ASSUME NEW n \in Nat, n \in T PROVE n + 1 \in T
    <2>1. SUFFICES ASSUME (n + 1) + 1 <= N PROVE F[(n + 1) + 1] = base + s[n + 1] OBVIOUS
    <2>2. /\ (n + 1) + 1 \in 1 .. N /\ (n + 1) + 1 # 1 /\ ((n + 1) + 1) - 1 = n + 1
          /\ n + 1 \in 1 .. N /\ (n + 1) - 1 = n /\ n + 1 <= N
      BY <1>1, <2>1
    <2>3. F[(n + 1) + 1] = F[n + 1] + Bytes(t, w[n + 1]) BY <1>1, <1>5, <2>2
    <2>4. F[n + 1] = base + s[n] BY <1>8, <2>2
    <2>5. s[n + 1] = s[n] + Bytes(t, w[n + 1]) /\ s[n] \in Nat /\ Bytes(t, w[n + 1]) \in Nat
      BY <1>1, <1>2, <2>2
    <2>. QED BY <2>3, <2>4, <2>5
  <1>9. ASSUME NEW k \in 1 .. N PROVE F[k] = base + s[k - 1]
    <2>1. k - 1 \in Nat /\ (k - 1) + 1 = k /\ k <= N BY <1>1
    <2>2. k - 1 \in T
      <3>. HIDE DEF T
      <3>. QED BY <1>7, <1>8, <2>1, Induction
    <2>. QED BY <2>1, <2>2
  <1>10. ASSUME NEW k \in 1 .. N PROVE Address(t, base)[w[k]] = base + s[k - 1]
    <2>1. (CHOOSE i \in DOMAIN w : w[i] = w[k]) = k BY <1>1
    <2>2. w[k] \in DOMAIN t BY <1>1
    <2>3. Address(t, base)[w[k]] = F[CHOOSE i \in DOMAIN w : w[i] = w[k]] BY <1>6, <2>2, Zenon
    <2>. QED BY <1>9, <2>1, <2>3
  <1>11. DOMAIN Address(t, base) = DOMAIN t BY <1>6
  <1>. QED BY <1>10, <1>11 DEF w

(* The nodes fill the block, one after the other.                          *)
LEMMA FillTheorem ==
  ASSUME NEW t, IsTree(t), NEW base \in Nat
  PROVE  FillsBlock(t, base)
  <1> DEFINE N == Cardinality(DOMAIN t)
             w == Walk(t)
             addr == Address(t, base)
             size == calcDatamodelSize(t)
             Behind(p) == addr[p] + Bytes(t, p)
  <1>1. WalkIs(t, w, N) BY WalkFound
  <1>. HIDE DEF N
  <1>2. PICK s : Sizes(t, w, N, s) BY <1>1, SizesExist
  <1>3. /\ N \in Nat \ {0} /\ w[1] = <<>> /\ \A k \in 1 .. N : w[k] \in DOMAIN t
        /\ \A p \in DOMAIN t : \E i \in 1 .. N : w[i] = p
    BY <1>1 DEF WalkIs
  <1>4. /\ s[0] = 0 /\ \A k \in 0 .. N : s[k] \in Nat
        /\ \A k \in 1 .. N : s[k] = s[k - 1] + Bytes(t, w[k])
    BY <1>2 DEF Sizes
  <1>5. \A i, j \in 0 .. N : i <= j => s[i] <= s[j] BY <1>1, <1>2, SizesGrow
  <1>6. size = s[N] BY <1>1, <1>2, SizeTheorem
  <1>7. \A k \in 1 .. N : addr[w[k]] = base + s[k - 1] BY <1>1, <1>2, AddressTheorem
  <1>. HIDE DEF w, addr, size
  <1>8. ASSUME NEW k \in 1 .. N PROVE Behind(w[k]) = base + s[k] /\ Bytes(t, w[k]) \in Nat
    <2>1. Bytes(t, w[k]) \in Nat BY <1>1 DEF WalkIs, w
    <2>2. k - 1 \in 0 .. N /\ k \in 0 .. N BY <1>3
    <2>3. s[k - 1] \in Nat /\ s[k] = s[k - 1] + Bytes(t, w[k]) BY <1>4, <2>2
    <2>4. Behind(w[k]) = (base + s[k - 1]) + Bytes(t, w[k]) BY <1>7
    <2>. HIDE DEF Behind
    <2>. QED BY <2>1, <2>3, <2>4
  <1>. HIDE DEF Behind
  <1>9. ASSUME NEW i \in 1 .. N, NEW j \in 1 .. N, i < j PROVE Behind(w[i]) <= addr[w[j]]
    <2>1. i \in 0 .. N /\ j - 1 \in 0 .. N /\ i <= j - 1 BY <1>3, <1>9
    <2>2. s[i] <= s[j - 1] /\ s[i] \in Nat /\ s[j - 1] \in Nat BY <1>4, <1>5, <2>1
    <2>3. Behind(w[i]) = base + s[i] /\ addr[w[j]] = base + s[j - 1] BY <1>7, <1>8
    <2>. QED BY <2>2, <2>3
  <1>10. ASSUME NEW p \in DOMAIN t, NEW q \in DOMAIN t, p # q
         PROVE  Behind(p) <= addr[q] \/ Behind(q) <= addr[p]
    <2>1. PICK i \in 1 .. N : w[i] = p BY <1>3
    <2>2. PICK j \in 1 .. N : w[j] = q BY <1>3
    <2>3. i < j \/ j < i BY <1>10, <2>1, <2>2
    <2>. QED BY <1>9, <2>1, <2>2, <2>3
  <1>11. ASSUME NEW p \in DOMAIN t PROVE base <= addr[p] /\ Behind(p) <= base + size
    <2>1. PICK i \in 1 .. N : w[i] = p BY <1>3
    <2>2. i - 1 \in 0 .. N /\ i \in 0 .. N /\ N \in 0 .. N /\ i <= N BY <1>3
    <2>3. s[i - 1] \in Nat /\ s[i] \in Nat /\ s[N] \in Nat /\ s[i] <= s[N] BY <1>4, <1>5, <2>2
    <2>4. addr[p] = base + s[i - 1] /\ Behind(p) = base + s[i] BY <1>7, <1>8, <2>1
    <2>. QED BY <1>6, <2>3, <2>4
  <1>12. addr[<<>>] = base
    <2>1. 1 \in 1 .. N /\ 1 - 1 = 0 BY <1>3
    <2>2. addr[w[1]] = base + s[0] BY <1>7, <2>1
    <2>3. addr[w[1]] = base BY <1>4, <2>2
    <2>. QED BY <1>3, <2>3, Zenon
  <1>13. \E p \in DOMAIN t : Behind(p) = base + size
    <2>1. N \in 1 .. N BY <1>3
    <2>2. w[N] \in DOMAIN t /\ Behind(w[N]) = base + s[N] BY <1>3, <1>8, <2>1
    <2>. QED BY <1>6, <2>2
  <1>. QED BY <1>10, <1>11, <1>12, <1>13, Zenon DEF FillsBlock, Behind, addr, size

(* A block that is moved is the one that would have been laid out there:   *)
(* every pointer that is set leads to the node or to the part of the node  *)
(* it led to before, and NULL stays NULL.                                  *)
LEMMA MoveTheorem ==
  ASSUME NEW t, IsTree(t), NEW old \in Nat \ {0}, NEW to \in Nat \ {0}
  PROVE  rewriteDatamodelAddress(copyAndCollectDatamodel(t, old), old, to) =
         copyAndCollectDatamodel(t, to)
  <1> DEFINE N == Cardinality(DOMAIN t)
             from_ == Address(t, old)
             to_ == Address(t, to)
             Moved(node) ==
               [parent   |-> RewriteSet(node.parent, old, to),
                children |-> RewriteSet(node.children, old, to),
                child    |-> [n \in DOMAIN node.child |-> Rewrite(node.child[n], old, to)],
                typeInfo |-> RewriteSet(node.typeInfo, old, to)]
  <1>1. WalkIs(t, Walk(t), N) BY WalkFound
  <1>. HIDE DEF N
  <1>2. PICK s : Sizes(t, Walk(t), N, s) BY <1>1, SizesExist
  <1>3. ASSUME NEW p \in DOMAIN t
        PROVE  from_[p] \in Nat \ {0} /\ to_[p] = (from_[p] - old) + to
    <2>1. PICK i \in 1 .. N : Walk(t)[i] = p BY <1>1 DEF WalkIs
    <2>2. from_[p] = old + s[i - 1] BY <1>1, <1>2, <2>1, AddressTheorem
    <2>3. to_[p] = to + s[i - 1] BY <1>1, <1>2, <2>1, AddressTheorem
    <2>4. s[i - 1] \in Nat
      <3>1. N \in Nat BY <1>1 DEF WalkIs
      <3>2. i - 1 \in 0 .. N BY <3>1
      <3>. QED BY <1>2, <3>2 DEF Sizes
    <2>. HIDE DEF from_, to_
    <2>. QED BY <2>2, <2>3, <2>4
  <1>. HIDE DEF from_, to_
  <1>4. ASSUME NEW p \in DOMAIN t, NEW d \in Nat
        PROVE  /\ RewriteSet(from_[p] + d, old, to) = to_[p] + d
               /\ RewriteSet(from_[p], old, to) = to_[p]
               /\ Rewrite(from_[p], old, to) = to_[p]
    BY <1>3 DEF RewriteSet, Rewrite, NULL
  <1>5. RewriteSet(NULL, old, to) = NULL BY DEF RewriteSet
  <1>6. ASSUME NEW p \in DOMAIN t
        PROVE  Moved(copyNodeAdjacent(t, p, from_)) = copyNodeAdjacent(t, p, to_)
    <2> DEFINE C == Children(t, p)
               c == Cardinality(C)
               Child_(addr) == [n \in C |-> addr[Append(p, n)]]
               Parent_(addr) == IF p = <<>> THEN NULL ELSE addr[Front(p)]
               Children_(addr) == IF C = {} THEN NULL ELSE addr[p] + NodeSize
               Info_(addr) == IF InfoSize(t[p]) = 0 THEN NULL ELSE (addr[p] + NodeSize) + c
    <2>1. RewriteSet(Parent_(from_), old, to) = Parent_(to_)
      <3>1. CASE p = <<>> BY <1>5, <3>1
      <3>2. CASE p # <<>>
        <4>1. Front(p) \in DOMAIN t BY <3>2, FrontInTree
        <4>2. RewriteSet(from_[Front(p)], old, to) = to_[Front(p)] BY <1>4, <4>1
        <4>. QED BY <3>2, <4>2
      <3>. QED BY <3>1, <3>2
    <2>2. NodeSize \in Nat BY DEF NodeSize
    <2>3. RewriteSet(Children_(from_), old, to) = Children_(to_)
      <3>1. CASE C = {} BY <1>5, <3>1
      <3>2. CASE C # {} BY <1>4, <2>2, <3>2
      <3>. QED BY <3>1, <3>2
    <2>4. RewriteSet(Info_(from_), old, to) = Info_(to_)
      <3>1. CASE InfoSize(t[p]) = 0 BY <1>5, <3>1
      <3>2. CASE InfoSize(t[p]) # 0
        <4>1. c \in Nat /\ NodeSize + c \in Nat BY <2>2, ChildrenFinite
        <4>2. from_[p] \in Nat /\ to_[p] \in Int BY <1>3
        <4>. HIDE DEF c
        <4>3. /\ (from_[p] + NodeSize) + c = from_[p] + (NodeSize + c)
              /\ (to_[p] + NodeSize) + c = to_[p] + (NodeSize + c)
          BY <2>2, <4>1, <4>2
        <4>4. RewriteSet(from_[p] + (NodeSize + c), old, to) = to_[p] + (NodeSize + c) BY <1>4, <4>1
        <4>5. Info_(from_) = from_[p] + (NodeSize + c) /\ Info_(to_) = to_[p] + (NodeSize + c)
          BY <3>2, <4>3
        <4>. HIDE DEF Info_
        <4>. QED BY <4>4, <4>5
      <3>. QED BY <3>1, <3>2
    <2>5. [n \in DOMAIN Child_(from_) |-> Rewrite(Child_(from_)[n], old, to)] = Child_(to_)
      <3>1. ASSUME NEW n \in C PROVE Rewrite(Child_(from_)[n], old, to) = Child_(to_)[n]
        <4>1. Append(p, n) \in DOMAIN t BY DEF Children
        <4>2. Rewrite(from_[Append(p, n)], old, to) = to_[Append(p, n)] BY <1>4, <4>1
        <4>. QED BY <4>2
      <3>2. DOMAIN Child_(from_) = C /\ Child_(to_) = [n \in C |-> Child_(to_)[n]] OBVIOUS
      <3>. HIDE DEF Child_, C
      <3>. QED BY <3>1, <3>2, Zenon
    <2> DEFINE Laid(addr) == [parent |-> Parent_(addr), children |-> Children_(addr),
                              child |-> Child_(addr), typeInfo |-> Info_(addr)]
    <2>6. /\ copyNodeAdjacent(t, p, from_) = Laid(from_)
          /\ copyNodeAdjacent(t, p, to_) = Laid(to_)
      BY Zenon DEF copyNodeAdjacent
    <2>. HIDE DEF Parent_, Children_, Child_, Info_
    <2>7. Moved(Laid(from_)) =
            [parent   |-> RewriteSet(Parent_(from_), old, to),
             children |-> RewriteSet(Children_(from_), old, to),
             child    |-> [n \in DOMAIN Child_(from_) |-> Rewrite(Child_(from_)[n], old, to)],
             typeInfo |-> RewriteSet(Info_(from_), old, to)]
      OBVIOUS
    <2>8. Moved(Laid(from_)) = Laid(to_) BY <2>1, <2>3, <2>4, <2>5, <2>7
    <2>. HIDE DEF Moved, Laid
    <2>. QED BY <2>6, <2>8
  <1>. HIDE DEF Moved
  <1>7. copyAndCollectDatamodel(t, old) = [p \in DOMAIN t |-> copyNodeAdjacent(t, p, from_)]
    BY Zenon DEF copyAndCollectDatamodel, from_
  <1>8. copyAndCollectDatamodel(t, to) = [p \in DOMAIN t |-> copyNodeAdjacent(t, p, to_)]
    BY Zenon DEF copyAndCollectDatamodel, to_
  <1> DEFINE copy == copyAndCollectDatamodel(t, old)
  <1>9. rewriteDatamodelAddress(copy, old, to) = [p \in DOMAIN copy |-> Moved(copy[p])]
    BY Zenon DEF rewriteDatamodelAddress, Moved
  <1>10. DOMAIN copy = DOMAIN t BY <1>7
  <1>11. \A p \in DOMAIN t : Moved(copy[p]) = copyNodeAdjacent(t, p, to_)
    <2>1. TAKE p \in DOMAIN t
    <2>2. copy[p] = copyNodeAdjacent(t, p, from_) BY <1>7
    <2>. HIDE DEF copy
    <2>. QED BY <1>6, <2>2
  <1>. HIDE DEF copy
  <1>12. [p \in DOMAIN copy |-> Moved(copy[p])] = [p \in DOMAIN t |-> copyNodeAdjacent(t, p, to_)]
    BY <1>10, <1>11
  <1>. QED BY <1>8, <1>9, <1>12 DEF copy

(* What is sent to the other layer is the datamodel, whatever it holds, and *)
(* even when something was degraded: the block has the size that was       *)
(* calculated, its nodes do not overlap, and all its pointers are right    *)
(* where the other layer maps it.                                          *)
THEOREM CompactIsTree == Spec => []CompactCopyIsTree
  <1>1. IInv => CompactCopyIsTree
    <2>1. SUFFICES ASSUME IInv, Idle PROVE CompactCopyIsTree BY DEF CompactCopyIsTree
    <2> DEFINE t == Plainly(tree)
    <2>2. IsTree(t) BY <2>1 DEF IInv, IsRooted
    <2>. HIDE DEF t
    <2>3. FillsBlock(t, 10) BY <2>2, FillTheorem
    <2>4. rewriteDatamodelAddress(copyAndCollectDatamodel(t, 10), 10, 500) =
          copyAndCollectDatamodel(t, 500)
      BY <2>2, MoveTheorem
    <2>. QED BY <2>3, <2>4 DEF CompactCopyIsTree, t
  <1>. QED BY <1>1, Invariant, PTL

-----------------------------------------------------------------------------
(* The layout of a complex type.  First sums over finite sets: what the    *)
(* folds of the community modules compute does not depend on the order     *)
(* they take the elements in.                                              *)

LEMMA OneLess ==
  ASSUME NEW S, IsFiniteSet(S), NEW A \in SUBSET S, NEW n \in Nat, Cardinality(A) = n + 1
  PROVE  A # {} /\ \A x \in A : Cardinality(A \ {x}) = n
  <1>1. IsFiniteSet(A) BY FS_Subset
  <1>2. Cardinality({}) = 0 BY FS_EmptySet
  <1>3. n + 1 # 0 /\ (n + 1) - 1 = n OBVIOUS
  <1>4. A # {} BY <1>2, <1>3
  <1>5. ASSUME NEW x \in A PROVE Cardinality(A \ {x}) = n
    <2>1. Cardinality(A \ {x}) = Cardinality(A) - 1 BY <1>1, FS_RemoveElement
    <2>. QED BY <1>3, <2>1
  <1>. QED BY <1>4, <1>5

(* A family of sets with {}, that has with a set also one with an element  *)
(* more, has every finite one.                                             *)
LEMMA SetInduction ==
  ASSUME NEW S, IsFiniteSet(S), NEW T, {} \in T,
         \A A \in SUBSET S : A \in T => \A y \in S \ A : A \cup {y} \in T
  PROVE  S \in T
  <1> DEFINE Q == {n \in Nat : \A A \in SUBSET S : Cardinality(A) = n => A \in T}
  <1>1. \A A \in SUBSET S : IsFiniteSet(A) /\ Cardinality(A) \in Nat BY FS_Subset, FS_CardinalityType
  <1>2. 0 \in Q BY <1>1, FS_EmptySet
  <1>3. ASSUME NEW n \in Nat, n \in Q PROVE n + 1 \in Q
    <2>1. SUFFICES ASSUME NEW A \in SUBSET S, Cardinality(A) = n + 1 PROVE A \in T OBVIOUS
    <2>2. A # {} BY <2>1, OneLess
    <2>3. PICK y : y \in A BY <2>2
    <2>4. Cardinality(A \ {y}) = n BY <2>1, <2>3, OneLess
    <2>5. A \ {y} \in T BY <1>3, <2>4
    <2>6. (A \ {y}) \cup {y} = A BY <2>3
    <2>. QED BY <2>3, <2>5, <2>6
  <1>4. Cardinality(S) \in Q
    <2>. HIDE DEF Q
    <2>. QED BY <1>1, <1>2, <1>3, Induction
  <1>. QED BY <1>4

Some(s) == CHOOSE x \in s : TRUE
Summed(I, f, s) == IF s = {} THEN 0 ELSE f[Some(s)] + I[s \ {Some(s)}]

IsSummed(I, f, S) == I = [s \in SUBSET S |-> Summed(I, f, s)]

(* I has the sums of f over the subsets of S, in whatever order.           *)
IsSum(I, f, S) ==
  /\ I[{}] = 0 /\ \A x \in S : f[x] \in Nat
  /\ \A A \in SUBSET S : I[A] \in Nat /\ \A y \in S \ A : I[A \cup {y}] = f[y] + I[A]

LEMMA SomeIn == ASSUME NEW s, s # {} PROVE Some(s) \in s
  BY DEF Some

(* The function that the fold chooses exists.                              *)
LEMMA SummedExists ==
  ASSUME NEW S, IsFiniteSet(S), NEW f
  PROVE  \E I : IsSummed(I, f, S)
  <1> DEFINE Upto(I, n) == \A s \in SUBSET S : Cardinality(s) <= n => I[s] = Summed(I, f, s)
             Q == {n \in Nat : \E I : Upto(I, n)}
  <1>1. \A A \in SUBSET S : IsFiniteSet(A) /\ Cardinality(A) \in Nat BY FS_Subset, FS_CardinalityType
  <1>2. 0 \in Q
    <2> DEFINE I == [s \in SUBSET S |-> 0]
    <2>1. ASSUME NEW s \in SUBSET S, Cardinality(s) <= 0 PROVE I[s] = Summed(I, f, s)
      <3>1. s = {} BY <1>1, <2>1, FS_EmptySet
      <3>. QED BY <3>1 DEF Summed
    <2>. HIDE DEF I
    <2>2. Upto(I, 0) BY <2>1
    <2>. QED BY <2>2
  <1>3. ASSUME NEW n \in Nat, n \in Q PROVE n + 1 \in Q
    <2>1. PICK I : Upto(I, n) BY <1>3
    <2> DEFINE J == [s \in SUBSET S |-> Summed(I, f, s)]
    <2>2. ASSUME NEW s \in SUBSET S, Cardinality(s) <= n + 1 PROVE J[s] = Summed(J, f, s)
      <3>1. CASE s = {} BY <3>1 DEF Summed
      <3>2. CASE s # {}
        <4> DEFINE r == s \ {Some(s)}
        <4>1. r \in SUBSET S /\ Some(s) \in s BY <3>2, SomeIn
        <4>2. Cardinality(r) = Cardinality(s) - 1 BY <1>1, <4>1, FS_RemoveElement
        <4>3. Cardinality(r) <= n BY <1>1, <2>2, <4>1, <4>2
        <4>. HIDE DEF r
        <4>4. I[r] = Summed(I, f, r) BY <2>1, <4>1, <4>3
        <4>5. J[r] = I[r] BY <4>1, <4>4
        <4>6. J[s] = f[Some(s)] + I[r] BY <3>2 DEF Summed, r
        <4>. HIDE DEF J
        <4>. QED BY <3>2, <4>5, <4>6 DEF Summed, r
      <3>. QED BY <3>1, <3>2
    <2>. HIDE DEF J
    <2>3. Upto(J, n + 1) BY <2>2
    <2>. QED BY <2>3
  <1>4. Cardinality(S) \in Q
    <2>. HIDE DEF Q
    <2>. QED BY <1>1, <1>2, <1>3, Induction
  <1>5. PICK I : Upto(I, Cardinality(S)) BY <1>4
  <1> DEFINE J == [s \in SUBSET S |-> Summed(I, f, s)]
  <1>6. \A s \in SUBSET S : Cardinality(s) <= Cardinality(S) BY FS_Subset
  <1>7. \A s \in SUBSET S : J[s] = I[s] BY <1>5, <1>6
  <1>8. ASSUME NEW s \in SUBSET S PROVE Summed(J, f, s) = Summed(I, f, s)
    <2>1. s \ {Some(s)} \in SUBSET S OBVIOUS
    <2>2. J[s \ {Some(s)}] = I[s \ {Some(s)}] BY <1>7, <2>1
    <2>. HIDE DEF J
    <2>. QED BY <2>2 DEF Summed
  <1>9. J = [s \in SUBSET S |-> Summed(J, f, s)]
    <2>1. J = [s \in SUBSET S |-> Summed(I, f, s)] OBVIOUS
    <2>. HIDE DEF J
    <2>. QED BY <1>8, <2>1, Zenon
  <1>10. IsSummed(J, f, S)
    <2>. HIDE DEF J
    <2>. QED BY <1>9 DEF IsSummed
  <1>. HIDE DEF J
  <1>. QED BY <1>10

(* It sums, in whatever order.                                             *)
LEMMA SummedSums ==
  ASSUME NEW S, IsFiniteSet(S), NEW f, \A x \in S : f[x] \in Nat,
         NEW I, \A s \in SUBSET S : I[s] = Summed(I, f, s)
  PROVE  IsSum(I, f, S)
  <1>1. \A A \in SUBSET S : IsFiniteSet(A) /\ Cardinality(A) \in Nat BY FS_Subset, FS_CardinalityType
  <1>2. I[{}] = 0 BY DEF Summed
  <1> DEFINE N == {n \in Nat : \A A \in SUBSET S : Cardinality(A) = n => I[A] \in Nat}
             Q == {n \in Nat : \A A \in SUBSET S : Cardinality(A) = n =>
                                 \A y \in S \ A : I[A \cup {y}] = f[y] + I[A]}
  <1>3. 0 \in N /\ 0 \in Q
    <2>1. ASSUME NEW y \in S PROVE I[{y}] = f[y] + 0
      <3>1. Some({y}) = y BY SomeIn
      <3>2. {y} \in SUBSET S /\ {y} # {} /\ {y} \ {y} = {} OBVIOUS
      <3>3. I[{y}] = f[y] + I[{}] BY <3>1, <3>2 DEF Summed
      <3>. QED BY <1>2, <3>3
    <2>2. \A A \in SUBSET S : Cardinality(A) = 0 => A = {} BY <1>1, FS_EmptySet
    <2>3. \A y : {} \cup {y} = {y} OBVIOUS
    <2>4. 0 \in N
      <3>1. ASSUME NEW A \in SUBSET S, Cardinality(A) = 0 PROVE I[A] \in Nat
        <4>1. A = {} BY <2>2, <3>1
        <4>. QED BY <1>2, <4>1
      <3>. QED BY <3>1
    <2>5. 0 \in Q
      <3>1. ASSUME NEW A \in SUBSET S, Cardinality(A) = 0, NEW y \in S \ A
            PROVE  I[A \cup {y}] = f[y] + I[A]
        <4>1. A = {} /\ A \cup {y} = {y} BY <2>2, <2>3, <3>1
        <4>. QED BY <1>2, <2>1, <4>1
      <3>. QED BY <3>1
    <2>. QED BY <2>4, <2>5
  <1>4. ASSUME NEW n \in Nat, n \in N PROVE n + 1 \in N
    <2>1. SUFFICES ASSUME NEW A \in SUBSET S, Cardinality(A) = n + 1 PROVE I[A] \in Nat OBVIOUS
    <2>2. A # {} BY <2>1, OneLess
    <2>3. Some(A) \in A BY <2>2, SomeIn
    <2>4. A \ {Some(A)} \in SUBSET S /\ Cardinality(A \ {Some(A)}) = n
      BY <2>1, <2>3, OneLess
    <2>5. I[A \ {Some(A)}] \in Nat BY <1>4, <2>4
    <2>6. I[A] = f[Some(A)] + I[A \ {Some(A)}] BY <2>2 DEF Summed
    <2>7. f[Some(A)] \in Nat BY <2>3
    <2>. QED BY <2>5, <2>6, <2>7
  <1>5. \A n \in Nat : n \in N
    <2>. HIDE DEF N
    <2>. QED BY <1>3, <1>4, Induction
  <1>6. \A A \in SUBSET S : I[A] \in Nat BY <1>1, <1>5
  <1>. HIDE DEF N
  <1>7. ASSUME NEW n \in Nat, n \in Q PROVE n + 1 \in Q
    <2>1. SUFFICES ASSUME NEW A \in SUBSET S, Cardinality(A) = n + 1, NEW y \in S \ A
                   PROVE  I[A \cup {y}] = f[y] + I[A]
      OBVIOUS
    <2> DEFINE B == A \cup {y}
               x == Some(B)
    <2>2. B \in SUBSET S /\ B # {} /\ y \in B OBVIOUS
    <2>3. x \in B BY <2>2, SomeIn
    <2>4. I[B] = f[x] + I[B \ {x}] BY <2>2 DEF Summed
    <2>5. CASE x = y
      <3>1. B \ {y} = A BY <2>1
      <3>. HIDE DEF B, x
      <3>. QED BY <2>4, <2>5, <3>1 DEF B
    <2>6. CASE x # y
      <3> DEFINE C == A \ {x}
      <3>1. x \in A BY <2>3, <2>6
      <3>2. B \ {x} = C \cup {y} /\ C \cup {x} = A /\ C \in SUBSET S /\ y \in S \ C /\ x \in S \ C
        BY <2>1, <2>6, <3>1
      <3>3. Cardinality(C) = n BY <2>1, <3>1, OneLess
      <3>. HIDE DEF B, x, C
      <3>4. I[C \cup {y}] = f[y] + I[C] /\ I[C \cup {x}] = f[x] + I[C] BY <1>7, <3>2, <3>3
      <3>5. I[C] \in Nat /\ f[x] \in Nat /\ f[y] \in Nat BY <1>6, <3>2
      <3>6. I[B] = f[x] + (f[y] + I[C]) BY <2>4, <3>2, <3>4
      <3>7. I[A] = f[x] + I[C] BY <3>2, <3>4
      <3>. QED BY <3>5, <3>6, <3>7 DEF B
    <2>. QED BY <2>5, <2>6
  <1>8. \A n \in Nat : n \in Q
    <2>. HIDE DEF Q
    <2>. QED BY <1>3, <1>7, Induction
  <1>9. ASSUME NEW A \in SUBSET S, NEW y \in S \ A PROVE I[A \cup {y}] = f[y] + I[A]
    BY <1>1, <1>8
  <1>. QED BY <1>2, <1>6, <1>9 DEF IsSum

(* Two sums agree where their terms do.                                    *)
LEMMA SumsAgree ==
  ASSUME NEW S, NEW R, NEW f, NEW g, NEW I, NEW J, IsSum(I, f, S), IsSum(J, g, R),
         NEW A, A \subseteq S, A \subseteq R, IsFiniteSet(A), \A x \in A : f[x] = g[x]
  PROVE  I[A] = J[A]
  <1> DEFINE T == {B \in SUBSET A : I[B] = J[B]}
  <1>1. {} \in T BY DEF IsSum
  <1>2. ASSUME NEW B \in SUBSET A, B \in T, NEW y \in A \ B PROVE B \cup {y} \in T
    <2>1. I[B \cup {y}] = f[y] + I[B] BY DEF IsSum
    <2>2. J[B \cup {y}] = g[y] + J[B] BY DEF IsSum
    <2>. QED BY <1>2, <2>1, <2>2
  <1>3. A \in T
    <2>. HIDE DEF T
    <2>. QED BY <1>1, <1>2, SetInduction
  <1>. QED BY <1>3

(* The sum over two disjoint sets; a larger set has a larger sum.          *)
LEMMA SumOfTwo ==
  ASSUME NEW S, NEW f, NEW I, IsSum(I, f, S),
         NEW A \in SUBSET S, NEW B \in SUBSET S, A \cap B = {}, IsFiniteSet(B)
  PROVE  I[A \cup B] = I[A] + I[B]
  <1> DEFINE T == {C \in SUBSET B : I[A \cup C] = I[A] + I[C]}
  <1>1. {} \in T
    <2>1. I[{}] = 0 /\ I[A] \in Nat BY DEF IsSum
    <2>2. A \cup {} = A OBVIOUS
    <2>. QED BY <2>1, <2>2
  <1>2. ASSUME NEW C \in SUBSET B, C \in T, NEW y \in B \ C PROVE C \cup {y} \in T
    <2>1. I[C \cup {y}] = f[y] + I[C] BY DEF IsSum
    <2>2. A \cup C \in SUBSET S /\ y \in S \ (A \cup C) /\ A \cup (C \cup {y}) = (A \cup C) \cup {y}
      OBVIOUS
    <2>3. I[(A \cup C) \cup {y}] = f[y] + I[A \cup C] BY <2>2 DEF IsSum
    <2>4. I[A] \in Nat /\ I[C] \in Nat /\ I[C \cup {y}] \in Nat /\ I[(A \cup C) \cup {y}] \in Nat
      BY <2>2 DEF IsSum
    <2>5. f[y] \in Nat BY DEF IsSum
    <2>. QED BY <1>2, <2>1, <2>2, <2>3, <2>4, <2>5
  <1>3. B \in T
    <2>. HIDE DEF T
    <2>. QED BY <1>1, <1>2, SetInduction
  <1>. QED BY <1>3

(* A finite set of naturals has a greatest element.                        *)
LEMMA MaxOfFinite ==
  ASSUME NEW S \in SUBSET Nat, IsFiniteSet(S), S # {}
  PROVE  Max(S) \in S /\ \A n \in S : n <= Max(S)
  <1> DEFINE T == {A \in SUBSET S : A # {} => \E m \in A : \A n \in A : m >= n}
  <1>1. {} \in T OBVIOUS
  <1>2. ASSUME NEW A \in SUBSET S, A \in T, NEW y \in S \ A PROVE A \cup {y} \in T
    <2>1. CASE A = {} BY <2>1
    <2>2. CASE A # {}
      <3>1. PICK m \in A : \A n \in A : m >= n BY <1>2, <2>2
      <3>2. m \in Nat /\ y \in Nat /\ \A n \in A : n \in Nat OBVIOUS
      <3>3. CASE m >= y
        <4>1. \A n \in A \cup {y} : m >= n BY <3>1, <3>3
        <4>. QED BY <1>2, <4>1
      <3>4. CASE y >= m
        <4>1. \A n \in A \cup {y} : y >= n BY <3>1, <3>2, <3>4
        <4>. QED BY <1>2, <4>1
      <3>. QED BY <3>2, <3>3, <3>4
    <2>. QED BY <2>1, <2>2
  <1>3. S \in T
    <2>. HIDE DEF T
    <2>. QED BY <1>1, <1>2, SetInduction
  <1>4. \E m \in S : \A n \in S : m >= n BY <1>3
  <1>5. Max(S) \in S /\ \A n \in S : Max(S) >= n BY <1>4, Zenon DEF Max
  <1>. QED BY <1>5

(* What a node adds to the size of the type it is in, apart from what is   *)
(* below it.                                                               *)
Term(t, p) ==
  CASE IsPlain(t[p]) -> PlainSize(t[p]) [] t[p].type = "REF" -> RefSize(t, p) [] OTHER -> 0
Terms(t) == [p \in DOMAIN t |-> Term(t, p)]

LEMMA PlainSizeNat == ASSUME NEW node, IsPlain(node) PROVE PlainSize(node) \in Nat
  BY DEF IsPlain, PlainSize, Plain, SizePOD, SIZE_ARRAY

LEMMA TermNat == ASSUME NEW t, NEW p PROVE Term(t, p) \in Nat /\ RefSize(t, p) \in Nat
  <1>1. RefSize(t, p) \in Nat
    <2> DEFINE type == resolveType(t, p)
    <2>1. IsPlain(type) => PlainSize(type) \in Nat BY PlainSizeNat
    <2>2. RefSize(t, p) = IF IsPlain(type) THEN PlainSize(type) ELSE 0 BY DEF RefSize
    <2>. HIDE DEF type
    <2>. QED BY <2>1, <2>2
  <1>2. IsPlain(t[p]) => PlainSize(t[p]) \in Nat BY PlainSizeNat
  <1>. QED BY <1>1, <1>2 DEF Term

(* getComplexTypeSize is the sum of them.                                  *)
LEMMA ComplexSize ==
  ASSUME NEW t, IsFiniteSet(DOMAIN t), NEW c, NEW K, IsSum(K, Terms(t), DOMAIN t)
  PROVE  getComplexTypeSize(t, c) = K[Below(t, c) \ {c}]
  <1> DEFINE f == Terms(t)
             S == Below(t, c) \ {c}
             Size(p) == CASE IsPlain(t[p]) -> PlainSize(t[p])
                          [] t[p].type = "REF" -> RefSize(t, p)
                          [] OTHER -> 0
             Body(h, s) == IF s = {} THEN 0 ELSE Size(Some(s)) + h[s \ {Some(s)}]
             F == CHOOSE h : h = [s \in SUBSET S |-> Body(h, s)]
  <1>1. S \subseteq DOMAIN t BY DEF Below
  <1>2. getComplexTypeSize(t, c) = F[S]
    BY Zenon DEF getComplexTypeSize, MapThenSumSet, MapThenFoldSet, Some
  <1>3. \A p \in DOMAIN t : f[p] = Size(p) /\ f[p] \in Nat BY TermNat DEF Terms, Term
  <1>. HIDE DEF f, S, Size
  <1>4. IsFiniteSet(S) BY <1>1, FS_Subset
  <1>5. PICK I : IsSummed(I, f, S) BY <1>4, SummedExists
  <1>6. \A h : \A s \in SUBSET S : Summed(h, f, s) = Body(h, s)
    <2>1. TAKE h
    <2>2. TAKE s \in SUBSET S
    <2>3. CASE s = {} BY <2>3 DEF Summed
    <2>4. CASE s # {}
      <3>1. f[Some(s)] = Size(Some(s)) BY <1>1, <1>3, <2>4, SomeIn
      <3>. QED BY <2>4, <3>1 DEF Summed
    <2>. QED BY <2>3, <2>4
  <1>. HIDE DEF Body
  <1>7. I = [s \in SUBSET S |-> Body(I, s)] BY <1>5, <1>6, Zenon DEF IsSummed
  <1>8. F = [s \in SUBSET S |-> Body(F, s)] BY <1>7, Zenon
  <1>. HIDE DEF F
  <1>9. \A s \in SUBSET S : F[s] = Summed(F, f, s) BY <1>6, <1>8
  <1>10. IsSum(F, f, S) BY <1>1, <1>3, <1>4, <1>9, SummedSums
  <1>11. F[S] = K[S] BY <1>1, <1>4, <1>10, SumsAgree DEF f
  <1>. QED BY <1>2, <1>11 DEF S

(* A node whose type is its own.                                           *)
LEMMA OwnType ==
  ASSUME NEW t, IsFiniteSet(DOMAIN t), NEW p \in DOMAIN t,
         t[p].type \notin {"REF", "SOURCE", "EVENT", "OBJECT"}
  PROVE  resolveType(t, p) = [type |-> t[p].type, array |-> t[p].array]
  <1> DEFINE N == Cardinality(DOMAIN t)
             Body(h, k) == IF k = 0 THEN p
                           ELSE LET q == h[k - 1]
                                IN IF q \in DOMAIN t /\ RefPath(t[q]) # {} THEN t[q].info ELSE q
             F == CHOOSE h : h = [k \in 0 .. N |-> Body(h, k)]
             g == [k \in 0 .. N |-> p]
  <1>1. N \in Nat BY FS_CardinalityType
  <1>2. RefPath(t[p]) = {} BY DEF RefPath
  <1>3. Referred(t, p) = F[N] BY Zenon DEF Referred
  <1>4. ASSUME NEW k \in 0 .. N PROVE g[k] = Body(g, k)
    <2>1. CASE k = 0 BY <2>1
    <2>2. CASE k # 0
      <3>1. k - 1 \in 0 .. N BY <1>1, <2>2
      <3>2. g[k - 1] = p BY <3>1
      <3>. HIDE DEF g
      <3>3. Body(g, k) = p BY <1>2, <2>2, <3>2
      <3>. QED BY <3>3 DEF g
    <2>. QED BY <2>1, <2>2
  <1>5. g = [k \in 0 .. N |-> Body(g, k)]
    <2>. HIDE DEF Body
    <2>. QED BY <1>4
  <1>6. F = [k \in 0 .. N |-> Body(F, k)]
    <2>. HIDE DEF Body, g
    <2>. QED BY <1>5, Zenon
  <1>. HIDE DEF F, N
  <1> DEFINE T == {n \in Nat : n <= N => F[n] = p}
  <1>7. 0 \in T BY <1>1, <1>6
  <1>8. ASSUME NEW n \in Nat, n \in T PROVE n + 1 \in T
    <2>1. SUFFICES ASSUME n + 1 <= N PROVE F[n + 1] = p OBVIOUS
    <2>2. n + 1 \in 0 .. N /\ n + 1 # 0 /\ (n + 1) - 1 = n /\ n <= N BY <1>1, <2>1
    <2>3. F[n] = p BY <1>8, <2>2
    <2>4. F[n + 1] = Body(F, n + 1) BY <1>6, <2>2
    <2>. QED BY <1>2, <2>2, <2>3, <2>4
  <1>9. N \in T
    <2>. HIDE DEF T
    <2>. QED BY <1>1, <1>7, <1>8, Induction
  <1>10. Referred(t, p) = p BY <1>1, <1>3, <1>9
  <1>. QED BY <1>10 DEF resolveType

(* The nodes below some of the children of a node, with these.             *)
Members(t, c, A) == UNION {Below(t, Append(c, m)) : m \in A}

LEMMA MembersIs ==
  ASSUME NEW t, IsTree(t), NEW c \in DOMAIN t
  PROVE  /\ Members(t, c, {}) = {} /\ Members(t, c, Children(t, c)) = Below(t, c) \ {c}
         /\ \A A : Members(t, c, A) \in SUBSET DOMAIN t /\ IsFiniteSet(Members(t, c, A))
         /\ \A A, n : Members(t, c, A \cup {n}) = Members(t, c, A) \cup Below(t, Append(c, n))
         /\ \A A, B : A \subseteq B => Members(t, c, A) \subseteq Members(t, c, B)
         /\ \A A \in SUBSET Children(t, c) : \A n \in Children(t, c) \ A :
              Members(t, c, A) \cap Below(t, Append(c, n)) = {}
  <1>0. c \in Path /\ DOMAIN t \subseteq Path BY TreePath
  <1>1. \A q : Below(t, q) \subseteq DOMAIN t BY DEF Below
  <1>2. ASSUME NEW n \in Children(t, c), NEW q \in DOMAIN t
        PROVE  q \in Below(t, Append(c, n)) <=> IsStrictPrefix(c, q) /\ q[Len(c) + 1] = n
    <2>1. n \in Names BY ChildrenNames
    <2>. QED BY <1>0, <2>1, PrefixAppend DEF Below
  <1>3. Members(t, c, {}) = {} BY DEF Members
  <1>4. \A A : Members(t, c, A) \in SUBSET DOMAIN t BY <1>1 DEF Members
  <1>5. IsFiniteSet(DOMAIN t) BY DEF IsTree
  <1>6. \A A : IsFiniteSet(Members(t, c, A)) BY <1>4, <1>5, FS_Subset
  <1>7. \A A, n : Members(t, c, A \cup {n}) = Members(t, c, A) \cup Below(t, Append(c, n))
    BY DEF Members
  <1>8. \A A, B : A \subseteq B => Members(t, c, A) \subseteq Members(t, c, B) BY DEF Members
  <1>9. ASSUME NEW A \in SUBSET Children(t, c), NEW n \in Children(t, c) \ A
        PROVE  Members(t, c, A) \cap Below(t, Append(c, n)) = {}
    <2>1. SUFFICES ASSUME NEW m \in A, NEW q \in Below(t, Append(c, m)), q \in Below(t, Append(c, n))
                   PROVE  FALSE
      BY DEF Members
    <2>2. q \in DOMAIN t /\ m \in Children(t, c) BY <1>1
    <2>3. q[Len(c) + 1] = m BY <1>2, <2>1, <2>2
    <2>4. q[Len(c) + 1] = n BY <1>2, <2>1, <2>2
    <2>. QED BY <2>3, <2>4
  <1>10. ASSUME NEW q \in DOMAIN t
         PROVE  q \in Members(t, c, Children(t, c)) <=> q \in Below(t, c) \ {c}
    <2>1. q \in Below(t, c) \ {c} <=> IsStrictPrefix(c, q) BY DEF Below, IsStrictPrefix
    <2>2. IsStrictPrefix(c, q) => q[Len(c) + 1] \in Children(t, c) BY <1>0, BelowChild
    <2>3. q \in Members(t, c, Children(t, c)) <=> \E m \in Children(t, c) : q \in Below(t, Append(c, m))
      BY DEF Members
    <2>. QED BY <1>2, <2>1, <2>2, <2>3
  <1>11. Members(t, c, Children(t, c)) = Below(t, c) \ {c} BY <1>1, <1>4, <1>10
  <1>. QED BY <1>3, <1>4, <1>6, <1>7, <1>8, <1>9, <1>11

(* A member of a COMPLEX type has the same size wherever it is computed:   *)
(* the sum of what is below it, with itself.                               *)
LEMMA MemberBelow ==
  ASSUME NEW t, IsTree(t), KindsFit(t), NEW c \in DOMAIN t,
         t[c].type = "COMPLEX", NEW n \in Children(t, c), NEW K, IsSum(K, Terms(t), DOMAIN t)
  PROVE  /\ MemberSize(t, Append(c, n)) = K[Below(t, Append(c, n))]
         /\ getDataModelSize(t, Append(c, n)) = K[Below(t, Append(c, n))]
  <1> DEFINE p == Append(c, n)
  <1>0. p \in DOMAIN t /\ p \in Path BY ChildrenNames, TreePath
  <1>1. t[p].type \in {"REF", "COMPLEX"} \cup Plain
    <2>1. n \in Names /\ c \in Path BY ChildrenNames, TreePath
    <2>2. p # <<>> /\ Front(p) = c BY <2>1, PathAppend, FrontAppend
    <2>. HIDE DEF p
    <2>. QED BY <1>0, <2>2 DEF KindsFit, AllowedTypes
  <1>. HIDE DEF p
  <1>14. SUFFICES MemberSize(t, p) = K[Below(t, p)] /\ getDataModelSize(t, p) = K[Below(t, p)]
    BY DEF p
  <1>2. t[p].array => t[p].type \in Plain BY <1>0 DEF IsTree
  <1>3. p \in Below(t, p) /\ Below(t, p) \subseteq DOMAIN t BY <1>0, PrefixOfItself DEF Below
  <1>4. IsFiniteSet(DOMAIN t) BY DEF IsTree
  <1>5. K[Below(t, p)] = Term(t, p) + K[Below(t, p) \ {p}]
    <2>1. (Below(t, p) \ {p}) \cup {p} = Below(t, p) /\ p \in DOMAIN t \ (Below(t, p) \ {p})
          /\ Below(t, p) \ {p} \in SUBSET DOMAIN t
      BY <1>0, <1>3
    <2>2. Terms(t)[p] = Term(t, p) BY <1>0 DEF Terms
    <2>. QED BY <2>1, <2>2 DEF IsSum
  <1>6. getComplexTypeSize(t, p) = K[Below(t, p) \ {p}] BY <1>4, ComplexSize
  <1>7. K[{}] = 0 BY DEF IsSum
  <1>8. K[Below(t, p) \ {p}] \in Nat
    <2>1. Below(t, p) \ {p} \in SUBSET DOMAIN t BY <1>3
    <2>. QED BY <2>1 DEF IsSum
  <1>9. Term(t, p) \in Nat BY TermNat
  <1>10. t[p].type # "COMPLEX" => Below(t, p) \ {p} = {}
    <2>1. ASSUME t[p].type # "COMPLEX", NEW m \in Children(t, p) PROVE FALSE
      <3>1. m \in Names /\ Append(p, m) \in DOMAIN t BY ChildrenNames
      <3>2. Append(p, m) # <<>> /\ Front(Append(p, m)) = p BY <1>0, <3>1, PathAppend, FrontAppend
      <3>3. t[Append(p, m)].type \in AllowedTypes(t[p].type) BY <3>1, <3>2 DEF KindsFit
      <3>. QED BY <1>1, <2>1, <3>3 DEF AllowedTypes, Plain
    <2>2. Members(t, p, Children(t, p)) = Below(t, p) \ {p} /\ Members(t, p, {}) = {}
      BY <1>0, MembersIs
    <2>. QED BY <2>1, <2>2
  <1>15. t[p].type # "COMPLEX" => K[Below(t, p)] = Term(t, p) BY <1>5, <1>7, <1>9, <1>10
  <1>11. CASE t[p].type \in Plain
    <2>1. IsPlain(t[p]) /\ t[p].type \notin {"REF", "SOURCE", "EVENT", "OBJECT", "COMPLEX"}
      BY <1>11 DEF IsPlain, Plain
    <2>2. Term(t, p) = PlainSize(t[p]) /\ MemberSize(t, p) = PlainSize(t[p])
      BY <2>1 DEF Term, MemberSize
    <2>3. resolveType(t, p) = [type |-> t[p].type, array |-> t[p].array] BY <1>0, <1>4, <2>1, OwnType
    <2>4. getDataModelSize(t, p) = PlainSize(t[p]) BY <2>1, <2>3 DEF getDataModelSize, IsPlain, PlainSize
    <2>. QED BY <1>15, <2>1, <2>2, <2>4
  <1>12. CASE t[p].type = "REF"
    <2>1. ~IsPlain(t[p]) BY <1>2, <1>12 DEF IsPlain, Plain
    <2>2. Term(t, p) = RefSize(t, p) /\ MemberSize(t, p) = RefSize(t, p)
      BY <1>12, <2>1 DEF Term, MemberSize
    <2> DEFINE type == resolveType(t, p)
    <2>4. /\ RefSize(t, p) = IF IsPlain(type) THEN PlainSize(type) ELSE 0
          /\ getDataModelSize(t, p) = IF IsPlain(type) THEN PlainSize(type) ELSE getComplexTypeSize(t, p)
      BY Zenon DEF getDataModelSize, RefSize
    <2>5. getComplexTypeSize(t, p) = 0 BY <1>6, <1>7, <1>10, <1>12
    <2>. HIDE DEF type
    <2>3. getDataModelSize(t, p) = RefSize(t, p) BY <2>4, <2>5
    <2>. QED BY <1>12, <1>15, <2>2, <2>3
  <1>13. CASE t[p].type = "COMPLEX"
    <2>1. ~IsPlain(t[p]) BY <1>2, <1>13 DEF IsPlain, Plain
    <2>2. Term(t, p) = 0 /\ MemberSize(t, p) = getComplexTypeSize(t, p)
      BY <1>13, <2>1 DEF Term, MemberSize
    <2>3. resolveType(t, p) = [type |-> t[p].type, array |-> t[p].array] BY <1>0, <1>4, <1>13, OwnType
    <2>4. getDataModelSize(t, p) = getComplexTypeSize(t, p) BY <2>1, <2>3 DEF getDataModelSize, IsPlain
    <2>. QED BY <1>5, <1>6, <1>8, <2>2, <2>4
  <1>. QED BY <1>1, <1>11, <1>12, <1>13

(* So is the sum over some members.                                        *)
LEMMA MembersSum ==
  ASSUME NEW t, IsTree(t), KindsFit(t), NEW c \in DOMAIN t, t[c].type = "COMPLEX",
         NEW K, IsSum(K, Terms(t), DOMAIN t), NEW S \in SUBSET Children(t, c),
         NEW f, \A n \in S : f[n] = MemberSize(t, Append(c, n)), NEW I, IsSum(I, f, S)
  PROVE  I[S] = K[Members(t, c, S)]
  <1> DEFINE T == {A \in SUBSET S : I[A] = K[Members(t, c, A)]}
  <1>1. IsFiniteSet(S) BY ChildrenFinite, FS_Subset
  <1>2. {} \in T
    <2>1. Members(t, c, {}) = {} BY MembersIs
    <2>. QED BY <2>1 DEF IsSum
  <1>3. ASSUME NEW A \in SUBSET S, A \in T, NEW y \in S \ A PROVE A \cup {y} \in T
    <2> DEFINE M == Members(t, c, A)
               B == Below(t, Append(c, y))
    <2>1. y \in Children(t, c) \ A /\ A \in SUBSET Children(t, c) OBVIOUS
    <2>2. Members(t, c, A \cup {y}) = M \cup B /\ M \cap B = {} /\ M \in SUBSET DOMAIN t
      BY <2>1, MembersIs
    <2>3. B \in SUBSET DOMAIN t BY DEF Below
    <2>4. IsFiniteSet(B) BY <2>3, FS_Subset DEF IsTree
    <2>5. f[y] = K[B] BY <2>1, MemberBelow
    <2>. HIDE DEF M, B
    <2>6. K[M \cup B] = K[M] + K[B] BY <2>2, <2>3, <2>4, SumOfTwo
    <2>7. I[A \cup {y}] = f[y] + I[A] BY DEF IsSum
    <2>8. K[M] \in Nat /\ K[B] \in Nat BY <2>2, <2>3 DEF IsSum
    <2>9. I[A] = K[M] BY <1>3 DEF M
    <2>10. I[A \cup {y}] = K[M \cup B] BY <2>5, <2>6, <2>7, <2>8, <2>9
    <2>. QED BY <2>2, <2>10
  <1>4. S \in T
    <2>. HIDE DEF T
    <2>. QED BY <1>1, <1>2, <1>3, SetInduction
  <1>. QED BY <1>4

(* getComplexTypeOffset is that for the members before.                    *)
Earlier(t, c, n) == {m \in Children(t, c) : m < n}

LEMMA OffsetIs ==
  ASSUME NEW t, IsTree(t), KindsFit(t), NEW c \in DOMAIN t, t[c].type = "COMPLEX",
         NEW K, IsSum(K, Terms(t), DOMAIN t), NEW n
  PROVE  getComplexTypeOffset(t, c, n) = K[Members(t, c, Earlier(t, c, n))]
  <1> DEFINE S == Earlier(t, c, n)
             Size(m) == MemberSize(t, Append(c, m))
             f == [m \in S |-> Size(m)]
             Body(h, s) == IF s = {} THEN 0 ELSE Size(Some(s)) + h[s \ {Some(s)}]
             F == CHOOSE h : h = [s \in SUBSET S |-> Body(h, s)]
  <1>1. S \in SUBSET Children(t, c) BY DEF Earlier
  <1>2. getComplexTypeOffset(t, c, n) = F[S]
    BY Zenon DEF getComplexTypeOffset, MapThenSumSet, MapThenFoldSet, Some, Earlier
  <1>3. ASSUME NEW m \in S PROVE f[m] = Size(m) /\ f[m] \in Nat
    <2>1. Below(t, Append(c, m)) \in SUBSET DOMAIN t BY DEF Below
    <2>2. K[Below(t, Append(c, m))] \in Nat BY <2>1 DEF IsSum
    <2>3. m \in Children(t, c) BY <1>1
    <2>4. Size(m) = K[Below(t, Append(c, m))] BY <2>3, MemberBelow
    <2>. HIDE DEF Size, S
    <2>. QED BY <2>2, <2>4
  <1>4. IsFiniteSet(S) BY <1>1, ChildrenFinite, FS_Subset
  <1>. HIDE DEF f, S, Size
  <1>5. PICK I : IsSummed(I, f, S) BY <1>4, SummedExists
  <1>6. \A h : \A s \in SUBSET S : Summed(h, f, s) = Body(h, s)
    <2>1. TAKE h
    <2>2. TAKE s \in SUBSET S
    <2>3. CASE s = {} BY <2>3 DEF Summed
    <2>4. CASE s # {}
      <3>1. f[Some(s)] = Size(Some(s)) BY <1>3, <2>4, SomeIn
      <3>. QED BY <2>4, <3>1 DEF Summed
    <2>. QED BY <2>3, <2>4
  <1>. HIDE DEF Body
  <1>7. I = [s \in SUBSET S |-> Body(I, s)] BY <1>5, <1>6, Zenon DEF IsSummed
  <1>8. F = [s \in SUBSET S |-> Body(F, s)] BY <1>7, Zenon
  <1>. HIDE DEF F
  <1>9. \A s \in SUBSET S : F[s] = Summed(F, f, s) BY <1>6, <1>8
  <1>10. IsSum(F, f, S) BY <1>3, <1>4, <1>9, SummedSums
  <1>11. \A m \in S : f[m] = MemberSize(t, Append(c, m)) BY <1>3 DEF Size
  <1>12. F[S] = K[Members(t, c, S)] BY <1>1, <1>10, <1>11, MembersSum
  <1>. QED BY <1>2, <1>12 DEF S

(* The members of a COMPLEX type follow each other and fill it.            *)
LEMMA LayoutTheorem ==
  ASSUME NEW t, IsTree(t), KindsFit(t), NEW c \in DOMAIN t, t[c].type = "COMPLEX"
  PROVE  MembersFillType(t, c)
  <1> DEFINE C == Children(t, c)
             E(n) == Earlier(t, c, n)
             Upto(n) == E(n) \cup {n}
  <1>1. IsFiniteSet(DOMAIN t) BY DEF IsTree
  <1>2. PICK K : IsSummed(K, Terms(t), DOMAIN t) BY <1>1, SummedExists
  <1>3. IsSum(K, Terms(t), DOMAIN t)
    <2>1. \A x \in DOMAIN t : Terms(t)[x] \in Nat BY TermNat DEF Terms
    <2>2. \A s \in SUBSET DOMAIN t : K[s] = Summed(K, Terms(t), s) BY <1>2 DEF IsSummed
    <2>. QED BY <1>1, <2>1, <2>2, SummedSums
  <1> DEFINE k(A) == K[Members(t, c, A)]
  <1>4. ASSUME NEW A \in SUBSET C, NEW B \in SUBSET C, A \subseteq B PROVE k(A) <= k(B)
    <2> DEFINE X == Members(t, c, A)
               Y == Members(t, c, B)
    <2>1. X \in SUBSET DOMAIN t /\ Y \in SUBSET DOMAIN t /\ X \subseteq Y /\ IsFiniteSet(Y)
      BY <1>4, MembersIs
    <2>. HIDE DEF X, Y
    <2>2. IsFiniteSet(Y \ X) BY <2>1, FS_Subset
    <2>3. X \cup (Y \ X) = Y /\ X \cap (Y \ X) = {} /\ Y \ X \in SUBSET DOMAIN t BY <2>1
    <2>4. K[X \cup (Y \ X)] = K[X] + K[Y \ X] BY <1>3, <2>1, <2>2, <2>3, SumOfTwo
    <2>5. K[X] \in Nat /\ K[Y \ X] \in Nat BY <1>3, <2>1, <2>3 DEF IsSum
    <2>7. K[Y] = K[X] + K[Y \ X] BY <2>3, <2>4
    <2>6. K[X] <= K[Y] BY <2>5, <2>7
    <2>. QED BY <2>6 DEF X, Y
  <1>5. ASSUME NEW n \in C
        PROVE  getComplexTypeOffset(t, c, n) + getDataModelSize(t, Append(c, n)) = k(Upto(n))
    <2> DEFINE X == Members(t, c, E(n))
               B == Below(t, Append(c, n))
    <2>1. getComplexTypeOffset(t, c, n) = K[X] BY <1>3, OffsetIs
    <2>2. getDataModelSize(t, Append(c, n)) = K[B] BY <1>3, MemberBelow
    <2>3. E(n) \in SUBSET C /\ n \in C \ E(n)
      <3>1. n \in Nat BY ChildrenNames
      <3>. QED BY <3>1 DEF Earlier
    <2>4. Members(t, c, Upto(n)) = X \cup B /\ X \cap B = {} /\ X \in SUBSET DOMAIN t BY <2>3, MembersIs
    <2>5. B \in SUBSET DOMAIN t BY DEF Below
    <2>. HIDE DEF X, B
    <2>8. X \cap B = {} /\ X \in SUBSET DOMAIN t BY <2>4
    <2>. HIDE DEF k, E, C
    <2>6. IsFiniteSet(B) BY <1>1, <2>5, FS_Subset
    <2>7. K[X \cup B] = K[X] + K[B] BY <1>3, <2>5, <2>6, <2>8, SumOfTwo
    <2>. QED BY <2>1, <2>2, <2>4, <2>7 DEF k
  <1>6. ASSUME NEW n \in C, NEW m \in C, n < m
        PROVE  getComplexTypeOffset(t, c, n) + getDataModelSize(t, Append(c, n))
                 <= getComplexTypeOffset(t, c, m)
    <2>1. Upto(n) \subseteq E(m) /\ Upto(n) \in SUBSET C /\ E(m) \in SUBSET C
      <3>1. C \in SUBSET Nat BY ChildrenNames
      <3>. QED BY <1>6, <3>1 DEF Earlier
    <2>2. getComplexTypeOffset(t, c, m) = k(E(m)) BY <1>3, OffsetIs
    <2>3. k(Upto(n)) <= k(E(m)) BY <1>4, <2>1
    <2>. HIDE DEF k, E
    <2>. QED BY <1>5, <2>2, <2>3
  <1>7. ASSUME C # {}
        PROVE  LET n == Max(C)
               IN getComplexTypeOffset(t, c, n) + getDataModelSize(t, Append(c, n)) = getDataModelSize(t, c)
    <2> DEFINE n == Max(C)
    <2>1. C \in SUBSET Nat /\ IsFiniteSet(C) BY ChildrenNames, ChildrenFinite
    <2>2. n \in C /\ \A m \in C : m <= n BY <1>7, <2>1, MaxOfFinite
    <2>. HIDE DEF n
    <2>3. Upto(n) = C BY <2>1, <2>2 DEF Earlier
    <2>4. Members(t, c, C) = Below(t, c) \ {c} BY MembersIs
    <2>5. getComplexTypeSize(t, c) = K[Below(t, c) \ {c}] BY <1>1, <1>3, ComplexSize
    <2>6. ~IsPlain(t[c])
      <3>1. t[c].array => t[c].type \in Plain BY DEF IsTree
      <3>. QED BY <3>1 DEF IsPlain, Plain
    <2>7. resolveType(t, c) = [type |-> t[c].type, array |-> t[c].array] BY <1>1, OwnType
    <2>8. getDataModelSize(t, c) = getComplexTypeSize(t, c) BY <2>6, <2>7 DEF getDataModelSize, IsPlain
    <2>9. getComplexTypeOffset(t, c, n) + getDataModelSize(t, Append(c, n)) = k(Upto(n)) BY <1>5, <2>2
    <2>. QED BY <2>3, <2>4, <2>5, <2>8, <2>9 DEF n
  <1>. QED BY <1>6, <1>7 DEF MembersFillType

(* The members of every complex type of the datamodel fill the memory that *)
(* is allocated for its values and do not overlap: getDataModelSize and    *)
(* getComplexTypeOffset agree, even when something was degraded.           *)
THEOREM LayoutIsSound == Spec => []MembersFit
  <1>1. IInv => MembersFit
    <2> DEFINE t == Plainly(tree)
    <2>1. SUFFICES ASSUME IInv, NEW c \in Structs(t) PROVE MembersFillType(t, c) BY DEF MembersFit
    <2>2. IsTree(t) /\ KindsFit(t) BY <2>1 DEF IInv, IsRooted
    <2>3. c \in DOMAIN t /\ t[c].type = "COMPLEX" BY <2>1 DEF Structs
    <2>. HIDE DEF t
    <2>. QED BY <2>2, <2>3, LayoutTheorem
  <1>. QED BY <1>1, Invariant, PTL
===============================================================================
