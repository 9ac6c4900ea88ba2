---------------------------- MODULE DatamodelTree -----------------------------
(***************************************************************************)
(* Trees of DataModelElement_t (include/datamodel.h, lib/datamodel.c) and  *)
(* what the code computes from one without changing it: the walk over its  *)
(* nodes, the check of its syntax, the type behind a node and the layout   *)
(* of a complex type, and the copy in one block of memory that is sent to  *)
(* the other layer.                                                        *)
(*                                                                         *)
(* A tree is a function from paths to nodes.  A path is the sequence of    *)
(* the names below the root, whose own path is <<>>.  Names are numbers,   *)
(* and the children of a node are in the order of their names: the order   *)
(* is the one the caller chose when he filled the children arrays.         *)
(***************************************************************************)
EXTENDS Integers, Sequences, FiniteSets, SequencesExt, FiniteSetsExt

CONSTANT Names

ASSUME NamesAssumption == Names \subseteq Nat \ {0}

(* enum DataModelType.  The types are bits: array says whether ARRAY is    *)
(* set too, which is considered for plain types only.                      *)
Leaves == {"SOURCE", "EVENT", "REF"} \cup {"STRING", "INT", "FLOAT", "BYTE"}
Plain == {"STRING", "INT", "FLOAT", "BYTE"}
Types == {"MODEL", "NAMESPACE", "OBJECT", "COMPLEX"} \cup Leaves

(* info is what typeInfo holds and the code looks at: the path of the type *)
(* of a REF, or of what a SOURCE or EVENT returns if that is COMPLEX; else *)
(* a plain type (what a source or event returns, what identifies objects), *)
(* or "-" where typeInfo is NULL.                                          *)
Node(type, array, info) == [type |-> type, array |-> array, info |-> info]

(* A tree has the ancestors of its nodes, and a root made by INIT_MODEL.   *)
(* Of the macros only INIT_PLAINTYPE sets ARRAY in the type of a node.     *)
IsTree(t) ==
  /\ DOMAIN t \subseteq Seq(Names) /\ IsFiniteSet(DOMAIN t)
  /\ \A q \in DOMAIN t : \A k \in 0 .. Len(q) : SubSeq(q, 1, k) \in DOMAIN t
  /\ <<>> \in DOMAIN t /\ t[<<>>] = Node("MODEL", FALSE, "-")
  /\ \A q \in DOMAIN t :
       /\ t[q] = Node(t[q].type, t[q].array, t[q].info)
       /\ t[q].type = "NAMESPACE" => t[q].info = "-"
       /\ t[q].type = "REF" => t[q].info \in Seq(Names)
       /\ t[q].array => t[q].type \in Plain

RefPath(node) ==
  IF node.type \in {"REF", "SOURCE", "EVENT"} /\ node.info \notin Plain THEN {node.info} ELSE {}

-----------------------------------------------------------------------------
(* Variants of definitions below, each with a plausible bug.  Nothing uses *)
(* them; they show which bug breaks which property (PROJECT.json).         *)

AfterSkipsOne(t, p) ==
  LET q == Append(Front(p), Last(p) + 2) IN IF Last(p) < Max(Names) THEN q ELSE <<>>

NodeSyntaxAnyName(current, t, p) ==
  LET Below1 == {q \in DOMAIN t : Len(q) = Len(p) + 1 /\ IsPrefix(p, q)}
  IN t[p].type \in {"MODEL", "NAMESPACE", "COMPLEX"} => Below1 # {}

RewriteNULLToo(ptr, old, new) == (ptr - old) + new

-----------------------------------------------------------------------------
(* Where things are.                                                       *)

getDescription(t, p) == p \in DOMAIN t /\ p # <<>>

Children(t, p) == {n \in Names : Append(p, n) \in DOMAIN t}
Child(t, p) == Append(p, Min(Children(t, p)))
Below(t, p) == {q \in DOMAIN t : IsPrefix(p, q)}

(* The next sibling of p or of its closest ancestor that has one, else the *)
(* root: the inner loop of every walk.                                     *)
Later(t, p) == {n \in Children(t, Front(p)) : n > Last(p)}
Turns(t, p) == {k \in 1 .. Len(p) : Later(t, SubSeq(p, 1, k)) # {}}
After(t, p) ==
  IF Turns(t, p) = {} THEN <<>>
  ELSE LET q == SubSeq(p, 1, Max(Turns(t, p))) IN Append(Front(q), Min(Later(t, q)))

Step(t, p) == IF Children(t, p) # {} THEN Child(t, p) ELSE After(t, p)

(* The walk: the nodes of t in the order the code visits them.             *)
Walk(t) ==
  LET Further == [w \in Seq(DOMAIN t) |-> Append(w, Step(t, Last(w)))]
      walk[k \in 1 .. Cardinality(DOMAIN t)] == IF k = 1 THEN << <<>> >> ELSE Further[walk[k - 1]]
  IN walk[Cardinality(DOMAIN t)]

-----------------------------------------------------------------------------
(* checkDataModelSyntax.  Callbacks and typeInfo that are NULL are left    *)
(* out: the macros of datamodel.h set them.                                *)

AllowedTypes(type) ==
  CASE type = "MODEL" -> {"NAMESPACE"}
    [] type = "NAMESPACE" -> {"NAMESPACE", "SOURCE", "EVENT", "OBJECT", "COMPLEX"}
    [] type = "OBJECT" -> {"SOURCE", "EVENT"}
    [] type = "COMPLEX" -> {"REF", "COMPLEX"} \cup Plain
    [] OTHER -> {}

NeedsChildren(type) == type \in {"MODEL", "NAMESPACE", "COMPLEX"}

KindsOk(t, p) ==
  /\ t[p].type = "OBJECT" => t[p].info \in Plain
  /\ NeedsChildren(t[p].type) => Children(t, p) # {}
  /\ \A n \in Children(t, p) : t[Append(p, n)].type \in AllowedTypes(t[p].type)

NodeSyntaxOk(current, t, p) ==
  /\ KindsOk(t, p)
  /\ \A r \in RefPath(t[p]) : getDescription(t, r) \/ getDescription(current, r)

checkDataModelSyntax(current, t) == \A p \in DOMAIN t : NodeSyntaxOk(current, t, p)

-----------------------------------------------------------------------------
(* resolveType follows names until a node has a type of its own.  It does  *)
(* not stop in a cycle and trusts every name: Resolvable says when it may  *)
(* be called.                                                              *)

Referred(t, p) ==
  LET follow[k \in 0 .. Cardinality(DOMAIN t)] ==
        IF k = 0 THEN p
        ELSE LET q == follow[k - 1]
             IN IF q \in DOMAIN t /\ RefPath(t[q]) # {} THEN t[q].info ELSE q
  IN follow[Cardinality(DOMAIN t)]

Resolvable(t, p) == Referred(t, p) \in DOMAIN t /\ RefPath(t[Referred(t, p)]) = {}

resolveType(t, p) ==
  LET node == t[Referred(t, p)]
  IN IF node.type \in {"SOURCE", "EVENT", "OBJECT"}
     THEN [type |-> node.info, array |-> FALSE] ELSE [type |-> node.type, array |-> node.array]

(* enum SizePOD, for pointers of 8 bytes.                                  *)
SizePOD == [INT |-> 4, STRING |-> 8, FLOAT |-> 8, BYTE |-> 1]
SIZE_ARRAY == 8

PlainSize(node) == IF node.array THEN SIZE_ARRAY ELSE SizePOD[node.type]
IsPlain(node) == node.array \/ node.type \in Plain

(* A REF counts as what it leads to; but if that is COMPLEX, what the code *)
(* adds up are the children of the REF itself, which has none.  (For a REF *)
(* to a NAMESPACE the code returns -1; the model has none.)                *)
RefSize(t, p) == LET type == resolveType(t, p) IN IF IsPlain(type) THEN PlainSize(type) ELSE 0

getComplexTypeSize(t, c) ==
  LET Size(p) == CASE IsPlain(t[p]) -> PlainSize(t[p])
                   [] t[p].type = "REF" -> RefSize(t, p)
                   [] OTHER -> 0
  IN MapThenSumSet(Size, Below(t, c) \ {c})

getDataModelSize(t, p) ==
  LET type == resolveType(t, p)
  IN IF IsPlain(type) THEN PlainSize(type) ELSE getComplexTypeSize(t, p)

(* A variant of MemberSize, which does not test ARRAY first.               *)
MemberSizeByType(t, p) ==
  CASE t[p].type \in Plain -> SizePOD[t[p].type]
    [] t[p].type = "COMPLEX" -> getComplexTypeSize(t, p)
    [] t[p].type = "REF" -> RefSize(t, p)
    [] OTHER -> 0

MemberSize(t, p) ==
  CASE IsPlain(t[p]) -> PlainSize(t[p])
    [] t[p].type = "COMPLEX" -> getComplexTypeSize(t, p)
    [] t[p].type = "REF" -> RefSize(t, p)
    [] OTHER -> 0

getComplexTypeOffset(t, c, n) ==
  MapThenSumSet(LAMBDA m : MemberSize(t, Append(c, m)), {m \in Children(t, c) : m < n})

-----------------------------------------------------------------------------
(* The copy in one block.  Sizes are those of the fields that matter:      *)
(* NodeSize for DataModelElement_t, 1 for each pointer to a child, and     *)
(* InfoSize for what typeInfo points to.                                   *)

NodeSize == 6
NULL == 0

InfoSize(node) ==
  CASE node.type = "REF" -> Len(node.info) + 1
    [] node.type = "OBJECT" -> 3
    [] node.type \in {"SOURCE", "EVENT"} -> 4
    [] OTHER -> 0

Bytes(t, p) == NodeSize + Cardinality(Children(t, p)) + InfoSize(t[p])

calcDatamodelSize(t) ==
  LET walk == Walk(t)
      size[k \in 0 .. Len(walk)] == IF k = 0 THEN 0 ELSE size[k - 1] + Bytes(t, walk[k])
  IN size[Len(walk)]

(* copyNodeAdjacent lays a node out at address a; the parent and the       *)
(* pointers to the children are filled in by its caller, from the          *)
(* addresses of the nodes, addr.  (The children pointer of a leaf is not   *)
(* NULL in the code, but nobody follows or rewrites it.)                   *)
copyNodeAdjacent(t, p, addr) ==
  LET a == addr[p]
  IN [parent   |-> IF p = <<>> THEN NULL ELSE addr[Front(p)],
      children |-> IF Children(t, p) = {} THEN NULL ELSE a + NodeSize,
      child    |-> [n \in Children(t, p) |-> addr[Append(p, n)]],
      typeInfo |-> IF InfoSize(t[p]) = 0 THEN NULL
                   ELSE a + NodeSize + Cardinality(Children(t, p))]

Address(t, base) ==
  LET walk == Walk(t)
      freeMem[k \in DOMAIN walk] ==
        IF k = 1 THEN base ELSE freeMem[k - 1] + Bytes(t, walk[k - 1])
  IN [p \in DOMAIN t |-> freeMem[CHOOSE k \in DOMAIN walk : walk[k] = p]]

copyAndCollectDatamodel(t, base) ==
  LET addr == Address(t, base) IN [p \in DOMAIN t |-> copyNodeAdjacent(t, p, addr)]

(* REWRITE_ADDR of every pointer that is set.                              *)
Rewrite(ptr, old, new) == (ptr - old) + new
RewriteSet(ptr, old, new) == IF ptr = NULL THEN NULL ELSE Rewrite(ptr, old, new)

rewriteDatamodelAddress(copy, old, new) ==
  [p \in DOMAIN copy |->
     LET node == copy[p]
     IN [parent   |-> RewriteSet(node.parent, old, new),
         children |-> RewriteSet(node.children, old, new),
         child    |-> [n \in DOMAIN node.child |-> Rewrite(node.child[n], old, new)],
         typeInfo |-> RewriteSet(node.typeInfo, old, new)]]
===============================================================================
