------------------------------- MODULE JobList --------------------------------
(***************************************************************************)
(* Taking the jobs of a query off queriesToExecList.  delPendingQuery of   *)
(* both layers goes through the list once and unlinks what it looks for,   *)
(* which leaves the others in their order.                                 *)
(***************************************************************************)
EXTENDS Naturals, Sequences, FiniteSets

(* The list s without the jobs in D: the nth of them is at the place with  *)
(* n places that are kept up to it.  It is not SelectSeq because the       *)
(* proofs have to look into it.                                            *)
Without(s, D) ==
  LET Kept == [K \in SUBSET DOMAIN s |->
          [n \in 1 .. Cardinality(K) |->
             s[CHOOSE i \in K : Cardinality({j \in K : j <= i}) = n]]]
  IN Kept[{i \in DOMAIN s : s[i] \notin D}]
===============================================================================
