----------------------------- MODULE QueryBlock -------------------------------
(***************************************************************************)
(* A query as the other layer gets it (lib/query.c): the check of its      *)
(* syntax, and the copy of all its operators in one block of memory, which *)
(* MSG_QUERY_ADD carries and whose addresses the receiver rewrites.        *)
(*                                                                         *)
(* An operator is [type, node, len, selectors, ok]: the node of the        *)
(* datamodel it names, the number of its predicates or elements (for a     *)
(* GEN_* operator, of its selectors), how many selectors its node needs,   *)
(* and whether its other parameters (period, units, sizes, the names of    *)
(* elements) are valid.                                                    *)
(***************************************************************************)
EXTENDS Integers, Sequences, SequencesExt

GenTypes == {"GEN_SOURCE", "GEN_OBJECT", "GEN_EVENT"}
WithPredicates == {"FILTER", "JOIN"}
WithElements == {"SELECT", "SORT", "GROUP", "MAX", "MIN", "AVG"}

-----------------------------------------------------------------------------
(* Variants of definitions below, each with a plausible bug.  Nothing uses *)
(* them; they show which bug breaks which property (PROJECT.json).         *)

(* The pointers to the predicates of a join keep the sender's addresses.   *)
RewrittenNotJoin(op) == op.type \in (WithPredicates \ {"JOIN"}) \cup WithElements

-----------------------------------------------------------------------------
(* checkQuerySyntax for a query to be registered, on the types of nodes.   *)

StreamOf == [GEN_SOURCE |-> "SOURCE", GEN_OBJECT |-> "OBJECT", GEN_EVENT |-> "EVENT"]

OperatorOk(types, op, first) ==
  /\ op.ok /\ op.type \in GenTypes \cup WithPredicates \cup WithElements
  /\ (op.type \in GenTypes) = first
  /\ op.type \in GenTypes =>
       /\ op.node \in DOMAIN types /\ types[op.node] = StreamOf[op.type]
       /\ op.len >= op.selectors
  /\ op.type = "JOIN" => op.node \in DOMAIN types /\ types[op.node] \in {"SOURCE", "OBJECT"}
  /\ op.type \in WithPredicates \cup WithElements => op.len > 0

checkQuerySyntax(types, ops) ==
  ops # <<>> /\ \A k \in DOMAIN ops : OperatorOk(types, ops[k], k = 1)

-----------------------------------------------------------------------------
(* The block.  Sizes stand for those of the structs; an entry of the table *)
(* of a filter, say, is a pointer to a predicate further on, while the     *)
(* selectors of a GEN_* operator are stored in place.                      *)

QuerySize == 10
EntrySize(op) == CASE op.type \in GenTypes -> 2 [] op.type \in WithPredicates -> 4 [] OTHER -> 3
OpSize(op) ==
  CASE op.type \in GenTypes -> 6 [] op.type = "JOIN" -> 5
    [] op.type \in {"FILTER", "SELECT"} -> 4 [] op.type \in {"SORT", "GROUP"} -> 7 [] OTHER -> 8
TableSize(op) == IF op.type \in GenTypes THEN 0 ELSE op.len

Bytes(op) == OpSize(op) + TableSize(op) + op.len * EntrySize(op)
calcQuerySize(ops) ==
  LET size[k \in 0 .. Len(ops)] == IF k = 0 THEN QuerySize ELSE size[k - 1] + Bytes(ops[k])
  IN size[Len(ops)]

(* copyOperatorAdjacent, to the address a: where the members of the struct *)
(* point to.  The caller fills child in when it copies the next operator.  *)
copyOperatorAdjacent(op, a, child) ==
  [child |-> child, array |-> a + OpSize(op),
   entry |-> [i \in 1 .. TableSize(op) |->
                a + OpSize(op) + TableSize(op) + (i - 1) * EntrySize(op)]]

copyAndCollectQuery(ops, base) ==
  LET at[k \in 1 .. Len(ops) + 1] ==
        IF k = 1 THEN base + QuerySize ELSE at[k - 1] + Bytes(ops[k - 1])
  IN [root |-> at[1], end |-> at[Len(ops) + 1],
      operators |-> [k \in DOMAIN ops |->
        copyOperatorAdjacent(ops[k], at[k], IF k = Len(ops) THEN 0 ELSE at[k + 1])]]

(* The operators whose table is rewritten: a case each in the code.        *)
Rewritten(op) == op.type \in WithPredicates \cup WithElements

rewriteQueryAddress(ops, block, old, new) ==
  LET Rewrite(ptr) == (ptr - old) + new
      Moved(o, op) ==
        [child |-> IF o.child = 0 THEN 0 ELSE Rewrite(o.child), array |-> Rewrite(o.array),
         entry |-> IF Rewritten(op) THEN [i \in DOMAIN o.entry |-> Rewrite(o.entry[i])] ELSE o.entry]
  IN [root |-> Rewrite(block.root), end |-> Rewrite(block.end),
      operators |-> [k \in DOMAIN ops |-> Moved(block.operators[k], ops[k])]]

(* The block has the size that was allocated for it, and the receiver sees *)
(* what would have been laid out at the address where he finds it.         *)
BlockIsQuery(ops, old, new) ==
  LET block == copyAndCollectQuery(ops, old)
  IN /\ block.end - old = calcQuerySize(ops)
     /\ rewriteQueryAddress(ops, block, old, new) = copyAndCollectQuery(ops, new)
===============================================================================
