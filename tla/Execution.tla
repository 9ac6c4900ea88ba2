------------------------------ MODULE Execution -------------------------------
(***************************************************************************)
(* The execution of a query (lib/query.c): executeQuery hands a list of    *)
(* tuples from operator to operator, doJoin joins it with the tuples of    *)
(* another node, and when that node, or the query itself, belongs to the   *)
(* other layer, the tuples travel there (sendQueryContinue,                *)
(* MSG_QUERY_CONTINUE) and the executor of that layer goes on.             *)
(*                                                                         *)
(* One list of tuples is followed from the provider to onQueryCompleted;   *)
(* only its executor touches it.  An operator is a step; an iteration of   *)
(* a loop of doJoin is a step.                                             *)
(***************************************************************************)
EXTENDS Tuples, QueryBlock, JobList

CONSTANTS
  Origin,      \* the operator at the root of every query, see QueryBlock
  NodeType,    \* the types of the nodes
  Queries,     \* sequences of operators below the root
  Streams,     \* lists of tuples, as lists of items, that providers deliver
  Rows,        \* what each node answers to a selector, 0 being the wildcard: the
               \* values of the tuples; nothing to one that is not listed
  Floats,      \* names of items of type FLOAT
  Kernel, User,
  Absent,      \* instead of the layer of a node that was unregistered
  MaxHops,     \* bound on the messages of one execution
  MayFail      \* whether memory or the ring buffer may be exhausted

Layers == {Kernel, User}
Peer(l) == IF l = Kernel THEN User ELSE Kernel
Nodes(q) == {q[k].node : k \in {i \in DOMAIN q : q[i].type = "JOIN"}}

Parameters(o) == IF o.type \in WithPredicates THEN o.predicates ELSE o.elements

IsSequence(s) == s \in Seq(ToSet(s))

(* A provider delivers one tuple at least; a SOURCE or an OBJECT answers   *)
(* with a list, and the parameters of an operator are finitely many.       *)
ASSUME ExecutionAssumption ==
  /\ Kernel # User /\ Absent \notin Layers /\ MaxHops \in Nat /\ MayFail \in BOOLEAN
  /\ \A s \in Streams : IsSequence(s) /\ s # <<>>
  /\ \A q \in Queries : IsSequence(q) /\ \A k \in DOMAIN q : IsFiniteSet(Parameters(q[k]))
  /\ Origin.len \in Nat
  /\ \A n \in DOMAIN NodeType : NodeType[n] \in {"SOURCE", "OBJECT"} =>
       n \in DOMAIN Rows /\ \A sel \in DOMAIN Rows[n] : IsSequence(Rows[n][sel])

VARIABLES
  query, owner, \* the query and the layer it was registered in
  stream,       \* the items of the tuples the provider delivered
  place,        \* the layer of each node that is joined
  moves,        \* whether realloc moves a tuple
  heap,         \* the tuples in memory, of both layers
  layer,        \* whose executor has the tuples
  pc, counter,
  steps,        \* operators the caller of executeQuery said to skip
  start, head,  \* tupleStream and headTupleStream
  join,         \* the variables of doJoin: curTupleStream and -Join, nextTupleStream
                \* and -Join, lastTupleJoin, prevTupleStream, createSelecOnce, applied
  wire,         \* the message under way: [steps, tuples]
  hops,
  out,          \* what onQueryCompleted was called with
  mishap        \* history: what happened that the code does not get right

input == <<query, owner, stream, place, moves>>
executor == <<pc, counter, steps, start, head>>
vars == <<input, heap, layer, executor, join, wire, hops, out, mishap>>

NoJoin == [cs |-> NULL, cj |-> NULL, ns |-> NULL, nj |-> NULL, last |-> NULL,
           prev |-> NULL, once |-> FALSE, applied |-> 0]
NoMessage == [steps |-> 0, tuples |-> <<>>]

(* The query as it is stored and sent: see QueryBlock.                     *)
Whole(q) ==
  LET Size(o) == Cardinality(Parameters(o)) + (IF o.type = "JOIN" THEN 1 ELSE 0)
  IN <<Origin>> \o [k \in DOMAIN q |->
       [type |-> q[k].type, node |-> IF q[k].type = "JOIN" THEN q[k].node ELSE "",
        len |-> Size(q[k]), selectors |-> 0, ok |-> TRUE]]

Init ==
  /\ query \in {q \in Queries : checkQuerySyntax(NodeType, Whole(q))}
  /\ owner \in Layers /\ moves \in BOOLEAN
  /\ place \in [Nodes(query) -> Layers \cup {Absent}]
  /\ stream \in Streams /\ heap = NewList(<<>>, stream)
  /\ layer = Kernel
  /\ pc = "run" /\ counter = 0 /\ steps = 0 /\ start = 1 /\ head = 1
  /\ join = NoJoin /\ wire = NoMessage /\ hops = 0 /\ out = <<>> /\ mishap = {}

op == query[counter + 1]
At(type) == pc = "run" /\ counter < Len(query) /\ op.type = type
Note(causes) == mishap' = mishap \cup causes
Goto(label) == pc' = label /\ UNCHANGED <<counter, steps, start>>
Crash(cause) ==
  /\ pc' = "crashed" /\ Note({cause})
  /\ UNCHANGED <<input, heap, layer, counter, steps, start, head, join, wire, hops, out>>

-----------------------------------------------------------------------------
(* Predicates.  An operand is a constant, or an item of the tuple in the   *)
(* stream or of the one joined to it.  Constants can be parsed.            *)

Pod(v) == [from |-> "POD", name |-> "", value |-> v]
InStream(name) == [from |-> "STREAM", name |-> name, value |-> 0]
InJoin(name) == [from |-> "JOIN", name |-> name, value |-> 0]

Value(o, s, j) ==
  LET Of(t) == IF o.name \in Members(t) THEN {t.items[getMemberPointer(t, o.name)].value} ELSE {}
  IN CASE o.from = "POD" -> {o.value} [] o.from = "STREAM" -> Of(s) [] o.from = "JOIN" -> Of(j)

Compare(type, l, r) ==
  CASE type = "EQUAL" -> l = r [] type = "NEQ" -> l # r
    [] type = "LE" -> l < r [] type = "LEQ" -> l <= r
    [] type = "GE" -> l > r [] type = "GEQ" -> l >= r

Holds(p, s, j) == \E l \in Value(p.left, s, j), r \in Value(p.right, s, j) : Compare(p.type, l, r)

(* The kernel does not compare numbers of type FLOAT.                      *)
Comparable(p) == layer = Kernel => {p.left.name, p.right.name} \cap Floats = {}

applyPredicate(p, s, j) == Comparable(p) /\ Holds(p, s, j)

(* A filter has no tuple that is joined: such an operand has no value.     *)
NoTuple == Tupel(<<>>, NULL)

-----------------------------------------------------------------------------
(* Variants of definitions below, each with a plausible bug.  Nothing uses *)
(* them; they show which bug breaks which property (PROJECT.json).         *)

(* A filter leaves the head of the list where it was.                      *)
FirstIsHead(list) == IF list = <<>> THEN NULL ELSE head

(* Of the tuples on the right those that match are not kept for others.    *)
KeepRightIfMore(moreS, moreJ) == join.once /\ moreS /\ moreJ

(* A stream tuple without a match is kept while the stream has more.       *)
FreeStreamAtEnd(moreS, moreJ, right) == ~moreS /\ ~moreJ

-----------------------------------------------------------------------------
(* applyFilter and applySelect.                                            *)

Relink(h, list) ==
  [t \in DOMAIN h |->
     IF t \in ToSet(list)
     THEN LET k == CHOOSE i \in DOMAIN list : list[i] = t
          IN Tupel(h[t].items, IF k = Len(list) THEN NULL ELSE list[k + 1])
     ELSE h[t]]
First(list) == IF list = <<>> THEN NULL ELSE list[1]

Float(preds) == IF \A p \in preds : Comparable(p) THEN {} ELSE {"float"}

applyFilter ==
  /\ At("FILTER")
  /\ LET list == List(heap, head)
         Failing == {t \in ToSet(list) :
                       ~ \A p \in op.predicates : applyPredicate(p, heap[t], NoTuple)}
         Left == Without(list, Failing)
     IN /\ heap' = freeTupel(Relink(heap, Left), Failing)
        /\ head' = First(Left)
        /\ pc' = (IF Left = <<>> THEN "done" ELSE "run")
  /\ counter' = counter + 1
  /\ Note(Float(op.predicates))
  /\ UNCHANGED <<input, layer, steps, start, join, wire, hops, out>>

applySelect ==
  /\ At("SELECT")
  /\ LET Unlisted(items) == {k \in DOMAIN items : items[k].name \notin op.elements}
         list == ToSet(List(heap, head))
     IN heap' = [t \in DOMAIN heap |->
                   IF t \in list THEN deleteItem(heap[t], Unlisted(heap[t].items)) ELSE heap[t]]
  /\ counter' = counter + 1
  /\ UNCHANGED <<input, layer, pc, steps, start, head, join, wire, hops, out, mishap>>

(* SORT, GROUP, MAX, MIN and AVG: nothing is done.                         *)
NotImplemented ==
  /\ pc = "run" /\ counter < Len(query) /\ op.type \notin {"FILTER", "SELECT", "JOIN"}
  /\ counter' = counter + 1
  /\ UNCHANGED <<input, heap, layer, pc, steps, start, head, join, wire, hops, out, mishap>>

-----------------------------------------------------------------------------
(* doJoin, as far as its loop.  A node that is gone ends the execution     *)
(* without freeing the tuples.  For a node of the other layer executeQuery *)
(* sends the list it was called with, and the steps it was called with:    *)
(* the other layer repeats what has been done here, and the tuple that the *)
(* list started with may have been freed.                                  *)

Repeated == \E k \in steps + 1 .. counter : query[k].type = "JOIN"

JoinGone ==
  /\ At("JOIN") /\ place[op.node] = Absent
  /\ Goto("done") /\ Note({"gone"})
  /\ UNCHANGED <<input, heap, layer, head, join, wire, hops, out>>

JoinRemote ==
  /\ At("JOIN") /\ place[op.node] = Peer(layer) /\ start = head
  /\ Goto("send") /\ Note(IF Repeated THEN {"repeated"} ELSE {})
  /\ UNCHANGED <<input, heap, layer, head, join, wire, hops, out>>

StartFreed ==
  /\ At("JOIN") /\ place[op.node] = Peer(layer) /\ start # head
  /\ Crash("moved")

JoinBegin ==
  /\ At("JOIN") /\ place[op.node] = layer
  /\ Goto("loop") /\ join' = [NoJoin EXCEPT !.ns = head]
  /\ UNCHANGED <<input, heap, layer, head, wire, hops, out, mishap>>

-----------------------------------------------------------------------------
(* The loop of doJoin.  Without a tuple on the right it asks the node for  *)
(* the tuples that go with the next one of the stream, or once for all if  *)
(* every selector is a wildcard.                                           *)

ShouldRetrieve == join.nj = NULL /\ join.ns # NULL /\ join.ns # join.cs /\ ~join.once

Loop ==
  /\ pc = "loop" /\ (ShouldRetrieve \/ join.ns # NULL)
  /\ Goto(IF ShouldRetrieve THEN "retrieve" ELSE "match")
  /\ UNCHANGED <<input, heap, layer, head, join, wire, hops, out, mishap>>

JoinEnd ==
  /\ pc = "loop" /\ join.ns = NULL
  /\ pc' = (IF join.applied > 0 THEN "run" ELSE "done")
  /\ counter' = counter + 1 /\ join' = NoJoin
  /\ UNCHANGED <<input, heap, layer, steps, start, head, wire, hops, out, mishap>>

(* buildSelectorsArray: one selector, for the object the node belongs to.  *)
Wildcard == op.selector = Pod(0)
Selectors(s) == Value(op.selector, s, s)

(* What the node answers: a tuple with one item for each of the values.    *)
SelectedRows(node, sel) == IF sel \in DOMAIN Rows[node] THEN Rows[node][sel] ELSE <<>>
Joined(node, values) == [k \in DOMAIN values |-> <<[name |-> node, value |-> values[k]]>>]

(* No tuple for this one of the stream: it is freed, and the list ends at  *)
(* its predecessor.                                                        *)
SetNext(h, prev, next) == IF prev = NULL THEN h ELSE Link(h, prev, next)
SetHead(prev, next) == IF prev = NULL THEN next ELSE head

(* out_error frees the tuples of the stream that can be reached from the   *)
(* head, not the rest if the list was ended before it, and the tuples from *)
(* curTupleJoin on.                                                        *)
Unlinked == IF join.ns \in ToSet(List(heap, head)) THEN {} ELSE {"unlinked"}

out_error(right, cause) ==
  /\ heap' = freeTupel(heap, ToSet(List(heap, head)) \cup ToSet(List(heap, right)))
  /\ head' = NULL /\ join' = NoJoin
  /\ Goto("done") /\ Note({cause} \cup Unlinked)
  /\ UNCHANGED <<input, layer, wire, hops, out>>

(* buildSelectorsArray fails: the tuple lacks the selector, or there is no *)
(* memory for the array, which is allocated once.  If a tuple was joined   *)
(* before, curTupleJoin still points to where its last partner was.        *)
NoSelectors ==
  /\ pc = "retrieve"
  /\ IF Selectors(heap[join.ns]) = {}
     THEN IF join.cj = NULL THEN out_error(NULL, "selector") ELSE Crash("dangling")
     ELSE MayFail /\ join = [NoJoin EXCEPT !.ns = head] /\ out_error(NULL, "memory")

Retrieve ==
  /\ pc = "retrieve"
  /\ \E sel \in Selectors(heap[join.ns]) :
       LET rows == SelectedRows(op.node, sel)
           h == NewList(heap, Joined(op.node, rows))
           first == Beyond(heap)
           next == heap[join.ns].next
       IN IF rows # <<>>
          THEN /\ heap' = h
               /\ join' = [join EXCEPT !.nj = first, !.last = End(h, first), !.once = Wildcard]
               /\ Goto("loop") /\ UNCHANGED head
               /\ Note(IF /\ Wildcard /\ Len(rows) >= 2
                          /\ Len(List(heap, join.ns)) >= 3
                       THEN {"round"} ELSE {})
          ELSE /\ heap' = freeTupel(SetNext(heap, join.prev, NULL), {join.ns})
               /\ join' = [join EXCEPT !.ns = next, !.once = Wildcard]
               /\ head' = SetHead(join.prev, NULL)
               /\ Goto(IF next = NULL THEN "loop" ELSE "retrieve")
               /\ UNCHANGED mishap
  /\ UNCHANGED <<input, layer, wire, hops, out>>

-----------------------------------------------------------------------------
(* A pair of tuples.                                                       *)

curTupleStream == join.ns
curTupleJoin == join.nj
MoreS == heap[curTupleStream].next # NULL
MoreJ == heap[curTupleJoin].next # NULL
ShouldMerge == \A p \in op.predicates : applyPredicate(p, heap[curTupleStream], heap[curTupleJoin])
Paired == pc = "match" /\ curTupleJoin \in DOMAIN heap     \* see MemorySafe

(* While the stream tuple has more to be compared with, a copy of it       *)
(* follows it in the stream.  While the stream has more and the right side *)
(* is not asked for again, the right tuple or a copy of it goes to the end *)
(* there; last is meant to mark the end of one round of the right side.    *)
KeepStream(moreS, moreJ) == moreJ /\ ~(moreS /\ curTupleJoin = join.last)
KeepRight(moreS, moreJ) == join.once /\ moreS
FreeStream(moreS, moreJ, right) == ~moreJ \/ (moreS /\ right = join.last)

CopyBehind(h, t) ==
  Link(Put(h, Fresh(h), Tupel(copyTupel(h, t).items, h[t].next)), t, Fresh(h))

Merge ==
  /\ Paired /\ ShouldMerge /\ ~MeetsHole(heap, curTupleStream, curTupleJoin)
  /\ LET h1 == IF KeepStream(MoreS, MoreJ) THEN CopyBehind(heap, curTupleStream) ELSE heap
         tail == End(h1, IF MoreJ THEN join.last ELSE curTupleJoin)
         copy == Fresh(h1)
         keep == KeepRight(MoreS, MoreJ)
         h2 == IF keep THEN Link(Put(h1, copy, copyTupel(h1, curTupleJoin)), tail, copy) ELSE h1
         at == IF moves THEN Fresh(h2) ELSE curTupleStream
     IN /\ heap' = SetNext(mergeTuple(h2, curTupleStream, curTupleJoin, at), join.prev, at)
        /\ head' = SetHead(join.prev, at)
        /\ join' = [join EXCEPT !.cs = at, !.cj = curTupleJoin, !.ns = h2[curTupleStream].next,
                      !.nj = h2[curTupleJoin].next, !.prev = at, !.applied = 1,
                      !.last = CASE keep /\ ~MoreJ -> copy
                                 [] keep /\ MoreJ /\ curTupleJoin = join.last -> tail
                                 [] OTHER -> @]
  /\ Goto("loop")
  /\ UNCHANGED <<input, layer, wire, hops, out, mishap>>

NoMatch ==
  /\ Paired /\ ~ShouldMerge
  /\ LET next == heap[curTupleStream].next
         keep == KeepRight(MoreS, MoreJ)
         drop == FreeStream(MoreS, MoreJ, curTupleJoin)
         tail == End(heap, join.last)
         h1 == CASE keep /\ MoreJ -> Link(Link(heap, tail, curTupleJoin), curTupleJoin, NULL)
                 [] keep /\ ~MoreJ -> heap
                 [] OTHER -> freeTupel(heap, {curTupleJoin})
     IN /\ heap' = IF drop THEN freeTupel(SetNext(h1, join.prev, next), {curTupleStream}) ELSE h1
        /\ head' = IF drop THEN SetHead(join.prev, next) ELSE head
        /\ join' = [join EXCEPT !.cs = curTupleStream, !.cj = curTupleJoin,
                      !.ns = IF drop THEN next ELSE curTupleStream,
                      !.nj = IF keep /\ ~MoreJ THEN curTupleJoin ELSE heap[curTupleJoin].next,
                      !.last = IF keep /\ MoreJ /\ curTupleJoin = @ THEN tail ELSE @]
  /\ Goto("loop")
  /\ UNCHANGED <<input, layer, wire, hops, out, mishap>>

(* copyTupel or addItem returns an error.                                  *)
Copies == KeepStream(MoreS, MoreJ) \/ KeepRight(MoreS, MoreJ)

OutOfMemory ==
  /\ Paired /\ ShouldMerge /\ (Copies \/ ~MeetsHole(heap, curTupleStream, curTupleJoin)) /\ MayFail
  /\ out_error(curTupleJoin, "memory")

(* If there is no memory for what a value points to, copyTupel frees a copy*)
(* whose pointers are still those of the original.                         *)
CopyFails == Paired /\ ShouldMerge /\ Copies /\ MayFail /\ Crash("copy")

(* NULL is dereferenced: mergeTuple meets an item that SELECT deleted.     *)
JoinCrash ==
  Paired /\ ShouldMerge /\ MeetsHole(heap, curTupleStream, curTupleJoin) /\ Crash("hole")

-----------------------------------------------------------------------------
(* The end of executeQuery, and sendQueryContinue: it frees the tuples     *)
(* whether they could be sent or not.  The steps travel as an unsigned     *)
(* short: -1 arrives as more steps than any query has.                     *)

UShort == 65536

Contents(list) == [k \in DOMAIN list |-> copyAndCollectTupel(heap, list[k])]
HandedOver(list) == ToSet(list)

onQueryCompleted ==
  /\ pc = "run" /\ counter = Len(query) /\ owner = layer
  /\ out' = Contents(List(heap, head))
  /\ heap' = freeTupel(heap, HandedOver(List(heap, head)))
  /\ Goto("done")
  /\ UNCHANGED <<input, layer, head, join, wire, hops, mishap>>

HandOver ==
  /\ pc = "run" /\ counter = Len(query) /\ owner # layer
  /\ pc' = "send" /\ steps' = -1
  /\ UNCHANGED <<input, heap, layer, counter, start, head, join, wire, hops, out, mishap>>

sendQueryContinue ==
  /\ pc = "send" /\ hops < MaxHops
  /\ wire' = [steps |-> steps % UShort, tuples |-> Contents(List(heap, head))]
  /\ heap' = freeTupel(heap, HandedOver(List(heap, head)))
  /\ hops' = hops + 1
  /\ Goto("wire")
  /\ UNCHANGED <<input, layer, head, join, out, mishap>>

(* No connection, no shared memory or a full ring buffer.                  *)
SendFails ==
  /\ pc = "send" /\ MayFail
  /\ heap' = freeTupel(heap, HandedOver(List(heap, head)))
  /\ Goto("done") /\ Note({"lost"})
  /\ UNCHANGED <<input, layer, head, join, wire, hops, out>>

ReceiveContinue ==
  /\ pc = "wire"
  /\ layer' = Peer(layer)
  /\ heap' = NewList(heap, wire.tuples)
  /\ start' = Beyond(heap) /\ head' = start'
  /\ steps' = wire.steps
  /\ counter' = Min({wire.steps, Len(query)})
  /\ pc' = "run" /\ wire' = NoMessage
  /\ UNCHANGED <<input, join, hops, out, mishap>>

(* The query is not registered there any more, or there is no memory.      *)
ReceiveFails ==
  /\ pc = "wire" /\ MayFail
  /\ wire' = NoMessage
  /\ Goto("done") /\ Note({"lost"})
  /\ UNCHANGED <<input, heap, layer, head, join, hops, out>>

-----------------------------------------------------------------------------
Operator == applyFilter \/ applySelect \/ NotImplemented
doJoin ==
  \/ JoinGone \/ JoinRemote \/ StartFreed \/ JoinBegin \/ Loop \/ JoinEnd
  \/ NoSelectors \/ Retrieve \/ Merge \/ NoMatch \/ OutOfMemory \/ CopyFails \/ JoinCrash
Transfer ==
  \/ onQueryCompleted \/ HandOver \/ sendQueryContinue \/ SendFails
  \/ ReceiveContinue \/ ReceiveFails

Next == Operator \/ doJoin \/ Transfer

(* The executor, and the communication thread, go on.                      *)
Spec == Init /\ [][Next]_vars /\ WF_vars(Next)

-----------------------------------------------------------------------------
TypeOK ==
  /\ query \in Queries /\ owner \in Layers /\ layer \in Layers /\ moves \in BOOLEAN
  /\ place \in [Nodes(query) -> Layers \cup {Absent}]
  /\ pc \in {"run", "loop", "retrieve", "match", "send", "wire", "done", "crashed"}
  /\ counter \in 0 .. Len(query) /\ steps \in {-1, UShort - 1} \cup 0 .. Len(query)
  /\ DOMAIN heap \subseteq Nat \ {NULL}
  /\ \A t \in DOMAIN heap : heap[t].next \in DOMAIN heap \cup {NULL}
  /\ join \in [cs : Nat, cj : Nat, ns : Nat, nj : Nat, last : Nat, prev : Nat, once : BOOLEAN, applied : {0, 1}]
  /\ hops \in 0 .. MaxHops

(* What the operators promise, on lists of tuples as a whole: a filter     *)
(* keeps the tuples for which its predicates hold, a selection keeps the   *)
(* items that are listed, and a join puts every tuple of the stream        *)
(* together with every tuple of the node that goes with it.                *)
Tuple(items) == Tupel(items, NULL)

Matches(o, items) ==
  LET Fits(t) == \A p \in o.predicates : Holds(p, Tuple(items), Tuple(t))
      sel == CHOOSE v \in Value(o.selector, Tuple(items), Tuple(items)) : TRUE
      fitting == SelectSeq(Joined(o.node, SelectedRows(o.node, sel)), Fits)
  IN [k \in DOMAIN fitting |-> items \o fitting[k]]

Applied(o, list) ==
  CASE o.type = "FILTER" ->
         SelectSeq(list, LAMBDA t : \A p \in o.predicates : Holds(p, Tuple(t), NoTuple))
    [] o.type = "SELECT" ->
         [k \in DOMAIN list |-> SelectSeq(list[k], LAMBDA i : i.name \in o.elements)]
    [] o.type = "JOIN" -> FlattenSeq([k \in DOMAIN list |-> Matches(o, list[k])])
    [] OTHER -> list

Answer(list) ==
  LET after[k \in 0 .. Len(query)] ==
        IF k = 0 THEN list ELSE Applied(query[k], after[k - 1])
  IN after[Len(query)]

(* onQueryCompleted gets the answer to the query, wherever the nodes and   *)
(* the query are registered, however often the tuples travel and wherever  *)
(* realloc puts them, unless one of these happened.                        *)
(*  lost, memory, gone: tuples are dropped, as the code says;              *)
(*  float: the kernel had to compare numbers of type FLOAT;                *)
(*  selector: a join found no selector in the tuple;                       *)
(*  round: a join on wildcards with more than two tuples in the stream and *)
(*    several to join loses count of the rounds, so pairs are missing      *)
(*    (the comments in doJoin promise that the right side is kept for all).*)
ResultIsAnswer == pc = "done" /\ mishap \subseteq {"repeated"} => out = Answer(stream)

(* The tuples that are compared are there.  NULL or freed memory is used   *)
(* in these cases only:                                                    *)
(*  hole: a SELECT before the join deleted an item;                        *)
(*  moved: the tuples have to go to the other layer after the first one    *)
(*    was freed or moved;                                                  *)
(*  dangling: a tuple lacks the selector of a join after one before it was *)
(*    joined: what was joined to that one is always gone by then;          *)
(*  copy: memory runs out while a tuple is copied.                         *)
(* And no tuple stays in memory when the execution is over, unless a node  *)
(* was gone, or a join that had unlinked its stream found no memory or no  *)
(* selector.                                                               *)
MemorySafe ==
  /\ pc = "match" => {curTupleStream, curTupleJoin} \subseteq DOMAIN heap
  /\ pc = "retrieve" => join.ns \in DOMAIN heap /\ join.cj \notin DOMAIN heap
  /\ pc = "crashed" => mishap \cap {"hole", "moved", "dangling", "copy"} # {}
  /\ pc = "done" => DOMAIN heap = {} \/ mishap \cap {"gone", "unlinked"} # {}

(* The other layer can execute the query as it was registered.             *)
CompactQueryIsQuery == BlockIsQuery(Whole(query), 100, 5000)

(* The execution comes to an end, unless a join was done here before the   *)
(* tuples that came with it had to go to the other layer, where everything *)
(* is done from the beginning: they go back and forth for ever.            *)
Terminates == <>(pc \in {"done", "crashed"} \/ "repeated" \in mishap)
===============================================================================
