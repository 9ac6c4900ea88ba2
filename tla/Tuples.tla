-------------------------------- MODULE Tuples --------------------------------
(***************************************************************************)
(* Tuples in memory (include/resultset.h, lib/resultset.c): lists linked   *)
(* by next, their items, and what copies, merges and frees them.  A heap   *)
(* is a function from the addresses in use to the Tupel_t stored there;    *)
(* an address outside of its domain is one that was never allocated or has *)
(* been freed.  What a value looks like in memory is in ItemMemory.        *)
(***************************************************************************)
EXTENDS Integers, Sequences, SequencesExt, FiniteSetsExt

NULL == 0
NoItem == [name |-> "", value |-> 0]   \* an entry of the items array that is NULL

Tupel(items, next) == [items |-> items, next |-> next]

-----------------------------------------------------------------------------
Fresh(h) == Min((1 .. Cardinality(DOMAIN h) + 1) \ DOMAIN h)
Beyond(h) == Max(DOMAIN h \cup {0}) + 1

Put(h, t, tuple) == [x \in DOMAIN h \cup {t} |-> IF x = t THEN tuple ELSE h[x]]

(* freeTupel of the tuples at some addresses.                              *)
freeTupel(h, at) == [t \in DOMAIN h \ at |-> h[t]]

(* The addresses of the list that starts at t, as far as it is in memory.  *)
List(h, t) ==
  LET longer == [q \in Seq(Nat) |->
        LET a == IF q = <<>> THEN t ELSE h[Last(q)].next
        IN IF a \in DOMAIN h THEN Append(q, a) ELSE q]
      list[n \in 0 .. Cardinality(DOMAIN h)] == IF n = 0 THEN <<>> ELSE longer[list[n - 1]]
  IN list[Cardinality(DOMAIN h)]

End(h, t) == Last(List(h, t))
Link(h, t, next) == [h EXCEPT ![t] = Tupel(@.items, next)]

present(items) == SelectSeq(items, LAMBDA i : i # NoItem)

(* The copy leaves deleted items out, and is in no list yet.               *)
copyTupel(h, t) == Tupel(present(h[t].items), NULL)

(* The items in a block of shared memory, and taken out of it again: the   *)
(* copies of a list, a tuple each.                                         *)
copyAndCollectTupel(h, t) == present(h[t].items)

(* A list of new tuples with these items, next to what is in the heap.     *)
NewList(h, list) ==
  LET first == Beyond(h)
      last == first + Len(list) - 1
  IN [k \in DOMAIN h \cup (first .. last) |->
        IF k < first THEN h[k]
        ELSE Tupel(list[k - first + 1], IF k = last THEN NULL ELSE k + 1)]

(* deleteItem of the items at some slots: the array keeps its length.      *)
deleteItem(tuple, at) ==
  Tupel([k \in DOMAIN tuple.items |-> IF k \in at THEN NoItem ELSE tuple.items[k]], tuple.next)

(* getMemberPointer: the items by their name, NULL entries are skipped.    *)
Members(tuple) == {tuple.items[k].name : k \in DOMAIN tuple.items} \ {NoItem.name}
getMemberPointer(tuple, name) ==
  CHOOSE k \in DOMAIN tuple.items : tuple.items[k].name = name

-----------------------------------------------------------------------------
(* mergeTuple.  It compares the name of each item of b with those of a, in *)
(* order, and does not skip a NULL in a.                                   *)
MeetsHole(h, a, b) ==
  \E i \in DOMAIN h[b].items, j \in DOMAIN h[a].items :
    /\ h[a].items[j] = NoItem
    /\ \A k \in 1 .. j - 1 : h[a].items[k].name # h[b].items[i].name

(* The new items move to a, which addItem's realloc may put somewhere else *)
(* (at); the others are freed with b.                                      *)
Unknown(a, b) == LET known == Members(a) IN SelectSeq(b.items, LAMBDA i : i.name \notin known)
mergeTuple(h, a, b, at) ==
  Put(freeTupel(h, {a, b}), at, Tupel(h[a].items \o Unknown(h[a], h[b]), h[a].next))
===============================================================================
