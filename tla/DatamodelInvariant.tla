-------------------------- MODULE DatamodelInvariant --------------------------
(***************************************************************************)
(* Why the datamodel is the union of the registered trees: the inductive   *)
(* invariant of Datamodel, in parts.  While an operation goes through a    *)
(* provider's tree, it says how much of that tree is in the datamodel, from*)
(* where the cursor is.                                                    *)
(***************************************************************************)
EXTENDS Datamodel

(* q branches off to the left of c: the walk is through with q and what is *)
(* below it before it comes to c.                                          *)
Before(q, c) ==
  \E k \in DOMAIN q \cap DOMAIN c : q[k] < c[k] /\ \A i \in 1 .. k - 1 : q[i] = c[i]

(* The nodes the merge is through with when the cursor is at c, and those  *)
(* the deletion has left behind when it is at c and through with the       *)
(* children of c up to the name n.                                         *)
Passed(t, c) == {q \in DOMAIN t : Before(q, c) \/ IsStrictPrefix(q, c)}
Left(t, c, n) ==
  {q \in DOMAIN t : Before(q, c) \/ (IsStrictPrefix(c, q) /\ q[Len(c) + 1] <= n)}

Visited == IF cur # <<>> THEN Passed(new, cur) ELSE IF prev # <<>> THEN DOMAIN new ELSE {}
ThroughWith == IF prev # <<>> /\ Front(prev) = cur THEN Last(prev) ELSE 0
Finished == Left(new, cur, ThroughWith)

(* What the datamodel has of a provider's tree.                            *)
Standing(p) ==
  CASE p = by /\ op = "merge" -> Visited
    [] p = by /\ op = "delete" -> DOMAIN new \ Finished
    [] p \in registered /\ ~(p = by /\ op \in {"merge", "delete"}) -> DOMAIN Model[p]
    [] OTHER -> {}

-----------------------------------------------------------------------------
(* The operation and its cursor.                                           *)
WalkOk ==
  /\ op = "idle" => by = NoProvider
  /\ Running =>
       /\ by \in Providers /\ cur \in DOMAIN new /\ prev \in DOMAIN new
       /\ \A q \in DOMAIN new : KindsOk(new, q)
       /\ op = "dryRun" => Own(by)
       /\ op # "delete" /\ cur # <<>> => prev # <<>>
       /\ op = "delete" <=> by \in registered
       /\ by \notin checked

(* The trees that are or will be registered went through the check.        *)
CheckedTrees == \A p \in registered \cup checked : \A q \in DOMAIN Model[p] : KindsOk(Model[p], q)

Base == TypeOK /\ WalkOk /\ CheckedTrees

(* No node of the provider at hand is childless in one tree and has        *)
(* children in another.                                                    *)
Untangled == Running => \A r \in registered \ {by} : ~Entangled(by, r)

(* The nodes that two providers may have in common, and how they must be.  *)
Shareable == {"MODEL", "NAMESPACE", "OBJECT"}
Fits(p, r, q) == Model[p][q] = Model[r][q] /\ Model[p][q].type \in Shareable

TreeStands ==
  /\ DOMAIN tree = {<<>>} \cup UNION {Standing(p) : p \in Providers}
  /\ tree[<<>>].node = Node("MODEL", FALSE, "-")
  /\ \A p \in Providers : \A q \in Standing(p) : tree[q].node = Model[p][q]

SharedFit ==
  \A p, r \in Providers : p # r => \A q \in Standing(p) \cap Standing(r) : Fits(p, r, q)

(* What the dry run has seen fits, so the merge after it is not refused.   *)
Mergeable ==
  \A r \in registered :
    /\ op = "dryRun" => \A q \in Visited \cap DOMAIN Model[r] : Fits(by, r, q)
    /\ op = "merge" /\ Own(by) => \A q \in DOMAIN new \cap DOMAIN Model[r] : Fits(by, r, q)

(* An entry that is NULL is one of a node on the way to the cursor.        *)
HolesOnPath ==
  /\ op \notin {"delete", "crashed"} => holes = {}
  /\ op = "delete" => \A h \in holes : h # <<>> /\ IsPrefix(Front(h), cur)

(* The names that the trees of this layer use lead somewhere.              *)
NamesStand ==
  /\ \A p \in (registered \cap Local) \ lost :
       ~(p = by /\ op = "delete") => Uses(p) \subseteq DOMAIN tree
  /\ op \in {"dryRun", "merge"} /\ Own(by) /\ by \notin lost =>
       Uses(by) \subseteq DOMAIN tree \cup DOMAIN new
  /\ \A p \in checked \ (registered \cup lost) : Uses(p) \subseteq DOMAIN tree \cup DOMAIN Model[p]

Sound ==
  /\ TreeStands /\ SharedFit /\ Mergeable /\ Untangled /\ HolesOnPath /\ NamesStand

(* Even when something was degraded the datamodel is a tree with nodes     *)
(* only where their kind is allowed, and what is above the cursor of the   *)
(* merge is there, of the same types.                                      *)
IsRooted ==
  /\ IsTree(Plainly(tree)) /\ KindsFit(Plainly(tree))
  /\ op \in {"dryRun", "merge"} /\ cur # <<>> =>
       \A q \in DOMAIN new : IsStrictPrefix(q, cur) =>
         q \in DOMAIN tree /\ tree[q].node.type = new[q].type

IInv ==
  /\ Base /\ IsRooted
  /\ ~degraded /\ op \notin {"crashed", "raced"} => Sound
===============================================================================
