----------------------------- MODULE MCExecution ------------------------------
EXTENDS Execution

Item(name, value) == [name |-> name, value |-> value]
Pred(type, left, right) == [type |-> type, left |-> left, right |-> right]

Filter(p) == [type |-> "FILTER", predicates |-> {p}]
Select(names) == [type |-> "SELECT", elements |-> names]
JoinOn(node, selector, preds) ==
  [type |-> "JOIN", node |-> node, selector |-> selector, predicates |-> preds]
Avg == [type |-> "AVG", elements |-> {"src"}]

MCOrigin ==
  [type |-> "GEN_EVENT", node |-> "event", len |-> 2, selectors |-> 1, ok |-> TRUE]
MCNodeType == [event |-> "EVENT", a |-> "SOURCE", b |-> "OBJECT"]

\* A tuple of the stream has an item src, one of type FLOAT, and an item dev,
\* which selects the rows of a join.
Tuple2(v, d) == <<Item("src", v), Item("dev", d), Item("flt", v)>>
\* One without dev, after one that no row of a goes with, or that is joined.
Tuple1(v) == <<Item("src", v), Item("flt", v)>>
MCStreams ==
  {<<Tuple2(1, d), Tuple1(1)>> : d \in {1, 3}} \cup
  {<<Tuple2(v, d)>> : v \in 1 .. 2, d \in 1 .. 3}
    \cup {<<Tuple2(1, d), Tuple2(v, e)>> : v \in 1 .. 2, d, e \in 1 .. 3}
    \cup {<<Tuple2(2, d), Tuple2(v, 1), Tuple2(1, e)>> : v, e \in 1 .. 2, d \in 1 .. 3}

\* The rows of a for device 1 have the values 1 and 2, that of device 2 has 2;
\* device 3 has none.
MCRows == [a |-> 0 :> <<1, 2, 2>> @@ 1 :> <<1, 2>> @@ 2 :> <<2>>, b |-> 0 :> <<1>> @@ 1 :> <<1>>]

Equal(n) == Pred("EQUAL", InStream("src"), InJoin(n))
Larger == Filter(Pred("GE", InStream("src"), Pod(1)))
Each(n) == JoinOn(n, InStream("dev"), {})
EachEqual(n) == JoinOn(n, InStream("dev"), {Equal(n)})
All(n) == JoinOn(n, Pod(0), {})
AllEqual(n) == JoinOn(n, Pod(0), {Equal(n)})

MCQueries ==
  { <<Larger, Each("a")>>, <<EachEqual("a"), Select({"src", "a"})>>, <<AllEqual("a"), Avg>>,
    <<All("a"), Filter(Pred("NEQ", InStream("a"), InStream("src")))>>,
    <<Select({"src", "dev", "flt"}), Each("a"), Larger>>, <<Select({"dev"}), Each("a")>>,
    <<Select({"src"}), Each("a")>>, <<Filter(Pred("LEQ", Pod(2), InStream("flt")))>>,
    <<Each("a"), Filter(Pred("LEQ", Pod(2), InStream("flt")))>>,
    <<Each("a"), All("b")>>, <<AllEqual("a"), Larger, EachEqual("b")>>, <<AllEqual("b"), Avg>>, <<Larger>>,
    <<Filter(Equal("src")), Each("a")>>,
    <<Select({})>>, <<Each("event")>> }
===============================================================================
