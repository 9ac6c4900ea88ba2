------------------------------ MODULE Datamodel -------------------------------
(***************************************************************************)
(* The datamodel of one layer, SLC_DATA_MODEL: providers of this layer     *)
(* register and unregister their trees (registerProvider and               *)
(* unregisterProvider in lib/api.c), and the communication thread does the *)
(* same for providers of the other layer (MSG_DM_ADD and MSG_DM_DEL).      *)
(* mergeDataModel and deleteSubtree (lib/datamodel.c) go through the       *)
(* provider's tree with a cursor; an iteration of their loops is a step.   *)
(* slcLock is held for writing all the time.  In the kernel that keeps     *)
(* operations apart.  In userspace, where the macros of the lock are       *)
(* crossed (common.h:154), writers share it, and an operation may meet     *)
(* another one.  checkDataModelSyntax reads the datamodel before the lock  *)
(* is taken, in both layers.                                               *)
(***************************************************************************)
EXTENDS ItemMemory

CONSTANTS
  Providers,
  Model,       \* the tree each provider registers
  Local,       \* the providers of this layer
  NoProvider,
  MayFail,     \* whether allocations may fail
  Exclusive,   \* whether slcLock keeps writers apart: in the kernel
  MaxCalls     \* bound of the model on calls between check and lock

(* The trees of the other layer went through checkDataModelSyntax there.   *)
ASSUME DatamodelAssumption ==
  /\ Local \subseteq Providers /\ NoProvider \notin Providers
  /\ MayFail \in BOOLEAN /\ Exclusive \in BOOLEAN /\ MaxCalls \in Nat
  /\ \A p \in Providers : IsTree(Model[p])
  /\ \A p \in Providers \ Local : \A q \in DOMAIN Model[p] : KindsOk(Model[p], q)

VARIABLES
  tree,        \* SLC_DATA_MODEL; nodes also say which layer they belong to
  holes,       \* paths whose entry in the children array is NULL
  op, by,      \* the operation that holds slcLock, the provider it is for
  cur, prev,   \* curNodeNew or curDelete, and curDeletePrev
  checked,     \* providers whose call is between the check and slcLock
  registered,  \* providers that were told their tree is registered
  lost,        \* history: providers that use a type that went since the check
  degraded     \* history: something happened that the code gets wrong

walk == <<op, by, cur, prev>>
vars == <<tree, holes, walk, checked, registered, lost, degraded>>

Own(p) == p \in Local
new == Model[by]
Copy(t, own) == [q \in DOMAIN t |-> [node |-> t[q], own |-> own]]
Plainly(t) == [q \in DOMAIN t |-> t[q].node]
Root == [q \in {<<>>} |-> [node |-> Node("MODEL", FALSE, "-"), own |-> TRUE]]

Idle == op = "idle"
Init ==
  /\ tree = Root /\ holes = {}
  /\ op = "idle" /\ by = NoProvider /\ cur = <<>> /\ prev = <<>>
  /\ checked = {} /\ registered = {} /\ lost = {} /\ degraded = FALSE

-----------------------------------------------------------------------------
(* An OBJECT may have no children.  If it has some in the tree of another  *)
(* provider, the code does not get the union right: deleting the childless *)
(* one frees it with what is below, deleting the others frees it as well,  *)
(* and merging the childless one into the tree does not terminate.         *)

Childless(p) == {q \in DOMAIN Model[p] : Children(Model[p], q) = {} /\ Model[p][q].type = "OBJECT"}
Entangled(p, r) == (Childless(p) \cap DOMAIN Model[r]) \cup (Childless(r) \cap DOMAIN Model[p]) # {}

(* An operation gets slcLock.  Bound of the model: after degraded nobody   *)
(* registers any more, and after a NULL is left behind nothing happens.    *)
Begin(what, p) ==
  /\ Idle /\ (degraded => what = "delete" /\ holes = {})
  /\ op' = what /\ by' = p /\ cur' = <<>> /\ prev' = <<>>
  /\ degraded' = (degraded \/ \E r \in registered \ {p} : Entangled(p, r))
  /\ lost' = IF what = "delete" THEN lost \ {p} ELSE lost
  /\ checked' = checked \ {p}
  /\ UNCHANGED <<tree, holes>>

End == op' = "idle" /\ by' = NoProvider /\ cur' = <<>> /\ prev' = <<>>
Goto(c) == cur' = c /\ UNCHANGED <<op, by>>
Uses(p) == UNION {RefPath(Model[p][q]) : q \in DOMAIN Model[p]}

-----------------------------------------------------------------------------
(* Variants of definitions below, each with a plausible bug.  Nothing uses *)
(* them; they show which bug breaks which property (PROJECT.json).         *)

RefusedAnyIdentifier(old) ==
  \/ old.type # new[cur].type \/ old.array # new[cur].array
  \/ new[cur].type \in {"COMPLEX", "SOURCE", "EVENT"}

MergeAbsentSameChild ==
  /\ op \in {"dryRun", "merge"} /\ cur # <<>> /\ cur \notin DOMAIN tree
  /\ Goto(IF op = "merge" THEN After(new, cur) ELSE Append(Front(cur), Min(Children(new, Front(cur)))))
  /\ IF op = "merge" THEN tree' = Copy(new, Own(by)) @@ tree ELSE UNCHANGED tree
  /\ UNCHANGED <<holes, prev, registered, checked, lost, degraded>>

-----------------------------------------------------------------------------
(* mergeDataModel.  curNodeOld is always the parent of the node in the     *)
(* tree that curNodeNew is looked for.                                     *)

(* -EDIFFERENTNODETYPE, -ESAMENODE or -EOBECJTIDENT for the node at the    *)
(* cursor.                                                                 *)
Refused(old) ==
  \/ old.type # new[cur].type \/ old.array # new[cur].array
  \/ new[cur].type \in {"COMPLEX", "SOURCE", "EVENT"}
  \/ new[cur].type = "OBJECT" /\ old.info # new[cur].info

Present == cur \in DOMAIN tree

(* addSubtree copies the node with what is below.  mergeDataModel does not *)
(* look whether that failed.                                               *)
addSubtree(q) ==
  \/ /\ tree' = [r \in DOMAIN tree \cup Below(new, q) |->
                   IF r \in DOMAIN tree THEN tree[r] ELSE Copy(new, Own(by))[r]]
     /\ UNCHANGED degraded
  \/ /\ MayFail /\ degraded' = TRUE
     /\ UNCHANGED tree

\* A variant again.
MergeAbsentGoesDown ==
  /\ op \in {"dryRun", "merge"} /\ cur # <<>> /\ ~Present
  /\ Goto(Step(new, cur))
  /\ IF op = "merge" THEN addSubtree(cur) ELSE UNCHANGED <<tree, degraded>>
  /\ UNCHANGED <<holes, prev, registered, checked, lost>>

MergeRoot ==
  /\ op \in {"dryRun", "merge"} /\ cur = <<>> /\ prev = <<>>
  /\ Goto(Child(new, <<>>)) /\ prev' = cur'
  /\ UNCHANGED <<tree, holes, registered, checked, lost, degraded>>

(* Present and mergeable: step down.  A childless one is met for ever.     *)
MergePresent ==
  /\ op \in {"dryRun", "merge"} /\ cur # <<>>
  /\ Present /\ ~Refused(tree[cur].node)
  /\ Goto(IF Children(new, cur) # {} THEN Child(new, cur) ELSE cur)
  /\ UNCHANGED <<tree, holes, prev, registered, checked, lost, degraded>>

(* registerProvider returns the error of the dry run.  For a provider of   *)
(* the other layer there was none, and the error is only logged.           *)
MergeRefused ==
  /\ op \in {"dryRun", "merge"} /\ cur # <<>>
  /\ Present /\ Refused(tree[cur].node)
  /\ End
  /\ registered' = IF Own(by) THEN registered ELSE registered \cup {by}
  /\ degraded' = (degraded \/ ~Own(by))
  /\ UNCHANGED <<tree, holes, checked, lost>>

MergeAbsent ==
  /\ op \in {"dryRun", "merge"} /\ cur # <<>> /\ ~Present
  /\ Goto(After(new, cur))
  /\ IF op = "merge" THEN addSubtree(cur) ELSE UNCHANGED <<tree, degraded>>
  /\ UNCHANGED <<holes, prev, registered, checked, lost>>

(* Back at the root.  After the dry run registerProvider merges.           *)
MergeEnd ==
  /\ op \in {"dryRun", "merge"} /\ cur = <<>> /\ prev # <<>>
  /\ IF op = "dryRun" THEN op' = "merge" /\ prev' = <<>> /\ UNCHANGED <<by, cur, registered, lost>>
     ELSE End /\ registered' = registered \cup {by} /\ UNCHANGED lost
  /\ UNCHANGED <<tree, holes, checked, degraded>>

-----------------------------------------------------------------------------
(* deleteSubtree.  curPresent is always the node of the tree at the same   *)
(* path as curDelete.                                                      *)

(* freeNode.  What is below the node is lost.  It looks for queries at     *)
(* nodes of this layer, in an array that only some nodes have: a node      *)
(* without one is a NULL dereference.                                      *)
Crashes(q) == tree[q].own /\ tree[q].node.type \notin {"SOURCE", "EVENT", "OBJECT"}

freeNode(q) ==
  /\ tree' = [r \in DOMAIN tree \ Below(tree, q) |-> tree[r]]
  /\ holes' = {r \in holes : ~IsPrefix(q, r)} \cup {q}
  /\ lost' = lost \cup {p \in (registered \cup checked) \ {by} : Uses(p) \cap Below(tree, q) # {}}

Crash == op' = "crashed" /\ UNCHANGED <<tree, holes, by, cur, prev, lost>>

(* The children of the cursor in the delete tree that are still to do.     *)
ToDo ==
  IF prev # <<>> /\ Front(prev) = cur THEN {n \in Children(new, cur) : n > Last(prev)}
  ELSE Children(new, cur)

NextChild == Append(cur, Min(ToDo))
Found(c) == c \in DOMAIN tree /\ tree[c].node.type = new[c].type

GoUp == IF cur = <<>> THEN End ELSE Goto(Front(cur)) /\ prev' = cur

DeleteLeaf ==
  /\ op = "delete" /\ Children(new, cur) = {}
  /\ IF Crashes(cur) THEN Crash ELSE freeNode(cur) /\ GoUp
  /\ UNCHANGED <<registered, checked, degraded>>

DeleteDown ==
  /\ op = "delete" /\ ToDo # {}
  /\ Found(NextChild)
  /\ Goto(NextChild) /\ prev' = cur
  /\ UNCHANGED <<tree, holes, registered, checked, lost, degraded>>

(* A child that is not there: the code gives up its siblings as well, and  *)
(* leaves the array of children with the entries it has set to NULL.       *)
DeleteMissing ==
  /\ op = "delete" /\ ToDo # {}
  /\ ~Found(NextChild)
  /\ GoUp
  /\ registered' = IF cur = <<>> THEN registered \ {by} ELSE registered
  /\ UNCHANGED <<tree, holes, checked, lost, degraded>>

(* All children done, some are left: a smaller array without the NULLs.    *)
DeleteShrink ==
  /\ op = "delete" /\ Children(new, cur) # {} /\ ToDo = {}
  /\ Children(tree, cur) # {}
  /\ \/ /\ holes' = {q \in holes : Front(q) # cur}
        /\ GoUp
        /\ registered' = IF cur = <<>> THEN registered \ {by} ELSE registered
        /\ UNCHANGED degraded
     \/ /\ MayFail /\ End /\ degraded' = TRUE       \* -ENOMEMORY
        /\ UNCHANGED <<holes, registered>>
  /\ UNCHANGED <<tree, checked, lost>>

(* None left: the node goes too, in the end even the root, which           *)
(* initSLCDatamodel makes anew.                                            *)
DeleteEmpty ==
  /\ op = "delete" /\ Children(new, cur) # {} /\ ToDo = {}
  /\ Children(tree, cur) = {}
  /\ IF Crashes(cur) THEN Crash /\ UNCHANGED registered
     ELSE IF cur = <<>> THEN
            /\ tree' = Root /\ holes' = {}
            /\ End /\ registered' = registered \ {by} /\ UNCHANGED lost
     ELSE freeNode(cur) /\ GoUp /\ UNCHANGED registered
  /\ UNCHANGED <<checked, degraded>>

-----------------------------------------------------------------------------
(* The calls.  checkDataModelSyntax comes first for providers of this      *)
(* layer; when it fails nothing changes.  Whoever holds slcLock may be in  *)
(* the middle of an operation meanwhile.                                   *)

Check(p) ==
  /\ Own(p) /\ p # by /\ p \notin checked /\ Cardinality(checked) < MaxCalls
  /\ op \notin {"crashed", "raced"} /\ (Idle => holes = {})
  /\ checkDataModelSyntax(Plainly(tree), Model[p])
  /\ checked' = checked \cup {p}
  /\ lost' = IF p \in registered THEN lost ELSE lost \ {p}
  /\ UNCHANGED <<tree, holes, walk, registered, degraded>>

registerProvider(p) ==
  /\ p \in checked \ registered
  /\ Begin("dryRun", p) /\ UNCHANGED registered

unregisterProvider(p) ==
  /\ p \in checked \cap registered
  /\ Begin("delete", p) /\ UNCHANGED registered

ReceiveAdd(p) == ~Own(p) /\ p \notin registered /\ Begin("merge", p) /\ UNCHANGED registered
ReceiveDel(p) == ~Own(p) /\ p \in registered /\ Begin("delete", p) /\ UNCHANGED registered

(* A data race: somebody looks names up in arrays of children that an      *)
(* operation reallocates or sets to NULL, or, in userspace, two operations *)
(* change them.  What comes of it is left open, and it may go well too.    *)
Running == op \in {"dryRun", "merge", "delete"}
Race ==
  /\ Running
  /\ \/ \E p \in Local \ (checked \cup {by}) : Uses(p) # {}
     \/ ~Exclusive /\ (checked # {} \/ (Own(by) /\ Local # Providers))
  /\ op' = "raced"
  /\ UNCHANGED <<tree, holes, by, cur, prev, checked, registered, lost, degraded>>

Merge == MergeRoot \/ MergePresent \/ MergeRefused \/ MergeAbsent \/ MergeEnd
Delete == DeleteLeaf \/ DeleteDown \/ DeleteMissing \/ DeleteShrink \/ DeleteEmpty

Next ==
  \/ Merge \/ Delete
  \/ \E p \in Providers :
       \/ Check(p) \/ registerProvider(p) \/ unregisterProvider(p)
       \/ ReceiveAdd(p) \/ ReceiveDel(p)
  \/ Race

(* The thread that holds slcLock goes on.                                  *)
Spec == Init /\ [][Next]_vars /\ WF_vars(Merge) /\ WF_vars(Delete)

-----------------------------------------------------------------------------
Paths == {<<>>} \cup UNION {DOMAIN Model[p] : p \in Providers}

TypeOK ==
  /\ DOMAIN tree \subseteq Paths /\ holes \subseteq Paths
  /\ op \in {"idle", "dryRun", "merge", "delete", "crashed", "raced"}
  /\ by \in Providers \cup {NoProvider}
  /\ cur \in Paths /\ prev \in Paths
  /\ registered \cup lost \subseteq Providers /\ checked \subseteq Local
  /\ degraded \in BOOLEAN

(* The promise of registerProvider and unregisterProvider: the datamodel   *)
(* is the union of the registered trees.  In particular a refused          *)
(* registration leaves nothing behind, unregistering takes nothing of      *)
(* another provider along and no empty parent stays, and no entry of an    *)
(* array of children is NULL, which getDescription would dereference.  It  *)
(* holds while no operation met another one (Race), and nothing happened   *)
(* that the code gets wrong (degraded): a failed allocation, a refused     *)
(* tree of the other layer, a childless object with children elsewhere.    *)
Union == {<<>>} \cup UNION {DOMAIN Model[p] : p \in registered}

TreeIsUnion ==
  Idle /\ ~degraded =>
    /\ holes = {} /\ DOMAIN tree = Union
    /\ \A p \in registered : \A q \in DOMAIN Model[p] : tree[q].node = Model[p][q]

(* Also when the code got something wrong, or was cut short: the datamodel *)
(* is a tree at every step, without a node whose parent is missing, and    *)
(* each node is where its kind is allowed.  A merge that could not add a   *)
(* subtree (addSubtree, whose result nobody looks at) leaves out all of    *)
(* it, and a deletion that gives up in the middle leaves no subtree        *)
(* hanging.                                                                *)
KindsFit(t) == \A q \in DOMAIN t \ {<<>>} : t[q].type \in AllowedTypes(t[Front(q)].type)

AlwaysATree ==
  op # "raced" => IsTree(Plainly(tree)) /\ KindsFit(Plainly(tree))

(* checkDataModelSyntax looks the names of types up once, before slcLock   *)
(* is taken (api.c:49), and what it finds may be a node of another         *)
(* provider.  When that one unregisters, before slcLock is taken or later, *)
(* nothing is done about it: resolveType dereferences NULL.  There is no   *)
(* other way for a name to lead nowhere: what the check found and nobody   *)
(* freed since is there, whatever else was registered, refused or freed.   *)
NamesResolve ==
  Idle /\ ~degraded =>
    \A p \in (registered \cap Local) \ lost : Uses(p) \subseteq DOMAIN tree

(* Every operation gives slcLock back, unless it is cut short by the NULL  *)
(* dereference in freeNode or meets another operation (Race), or the merge *)
(* comes, in the tree it adds, to a node without children that is there    *)
(* already: found is set and the cursor stays (datamodel.c:615), for ever. *)
Endless ==
  /\ op \in {"dryRun", "merge"} /\ cur # <<>>
  /\ Present /\ ~Refused(tree[cur].node) /\ Children(new, cur) = {}

LockIsReleased == [](~Idle => <>(Idle \/ op \in {"crashed", "raced"} \/ Endless))

-----------------------------------------------------------------------------
(* Two computations on the datamodel, for every tree that comes about.     *)

(* What sendDatamodel puts into shared memory fills the size calculated    *)
(* for it, from the root on, and no node overlaps another one; and after   *)
(* the other layer has rewritten the addresses the block is the one that   *)
(* would have been laid out there.                                         *)
FillsBlock(t, base) ==
  LET addr == Address(t, base)
      size == calcDatamodelSize(t)
      Behind(p) == addr[p] + Bytes(t, p)
  IN /\ \A p, q \in DOMAIN t : p # q => Behind(p) <= addr[q] \/ Behind(q) <= addr[p]
     /\ \A p \in DOMAIN t : base <= addr[p] /\ Behind(p) <= base + size
     /\ addr[<<>>] = base /\ \E p \in DOMAIN t : Behind(p) = base + size

CompactCopyIsTree ==
  Idle => LET t == Plainly(tree)
          IN /\ FillsBlock(t, 10)
             /\ rewriteDatamodelAddress(copyAndCollectDatamodel(t, 10), 10, 500)
                  = copyAndCollectDatamodel(t, 500)

Structs(t) == {q \in DOMAIN t : t[q].type = "COMPLEX"}
Readable == Idle /\ \A q \in DOMAIN tree : Resolvable(Plainly(tree), q)

MembersFillType(t, c) ==
  LET End_(n) == getComplexTypeOffset(t, c, n) + getDataModelSize(t, Append(c, n))
  IN /\ \A n, m \in Children(t, c) : n < m => End_(n) <= getComplexTypeOffset(t, c, m)
     /\ Children(t, c) # {} => End_(Max(Children(t, c))) = getDataModelSize(t, c)

(* The members of a complex type follow each other without overlap and     *)
(* fill the memory allocated for it, though size and offset are computed   *)
(* in two places.  A REF to a COMPLEX type counts 0 in both.  It holds of  *)
(* every complex type, once all names can be resolved.                     *)
MembersFit ==
  Readable => \A c \in Structs(Plainly(tree)) : MembersFillType(Plainly(tree), c)

(* Where the strings and arrays of a value at v are.                       *)
MemberAt(t, c, p) ==
  MapThenSumSet(LAMBDA k : getComplexTypeOffset(t, SubSeq(p, 1, k), p[k + 1]), Len(c) .. Len(p) - 1)
TrueIndirect(t, c, v) ==
  {v + MemberAt(t, c, p) : p \in {q \in Below(t, c) : Blocks(t, q, <<0>>) # <<>>}}

(* The copy of a value that goes to the other layer fits into the memory   *)
(* that getItemSize asked for, and after its addresses are rewritten it is *)
(* the one that would have been made there.  copyTupel replaces every      *)
(* pointer of the original, so that no two tuples share memory, and        *)
(* freeItem finds every pointer.  It does not if a member is a struct with *)
(* a single member that does not come first: the address it goes on with   *)
(* is wrong.                                                               *)
Lone(t, c) ==
  \E p \in Below(t, c) \ {c} :
    t[p].type = "COMPLEX" /\ Cardinality(Children(t, p)) = 1 /\ Last(p) > Min(Children(t, Front(p)))

ValueIsMovedWhole(t, c, value) ==
  LET here == copyItem(t, c, value, 100)
      shifted == [x \in {y + 400 : y \in DOMAIN here.pointers} |-> here.pointers[x - 400]]
  IN /\ here.size = getItemSize(t, c, value)
     /\ rewriteAdditionalMem(t, c, value, shifted, 100, 500) = copyItem(t, c, value, 500).pointers
     /\ copyAdditionalMem(t, c, 100) = TrueIndirect(t, c, 100)
     /\ Lone(t, c) \/ freeItem(t, c, 100) = TrueIndirect(t, c, 100)

(* Values of every type, as long as no REF leads to a COMPLEX type, which  *)
(* none of the walks expects.                                              *)
ValuesKeepTheirMemory ==
  LET t == Plainly(tree)
      Flat(c) == \A p \in Below(t, c) : t[p].type = "REF" => ~IsComplex(t, p)
  IN Readable => \A c \in Structs(t) :
       Flat(c) => ValueIsMovedWhole(t, c, [p \in Below(t, c) |-> <<1, 2>>])
===============================================================================
