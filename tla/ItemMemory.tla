------------------------------ MODULE ItemMemory ------------------------------
(***************************************************************************)
(* The value of an item in memory (lib/resultset.c).  The value of a       *)
(* complex type is a struct whose members follow each other; strings and   *)
(* arrays are pointers to memory of their own.  Five functions go through  *)
(* such a value, guided by the datamodel, with the same walk, which moves  *)
(* an address along by differences of offsets: to add up how much memory   *)
(* there is, to copy it next to the struct (for the other layer) or to     *)
(* memory of its own, to rewrite its addresses, and to free it.            *)
(***************************************************************************)
EXTENDS DatamodelTree

-----------------------------------------------------------------------------
(* Variants of definitions below, each with a plausible bug.  Nothing uses *)
(* them; they show which bug breaks which property (PROJECT.json).         *)

UpFromStart(t, s) ==
  LET p == Front(s.node) off == getComplexTypeOffset(t, Front(p), Last(p))
  IN [node |-> p, value |-> s.value, cur |-> off, prev |-> off, fresh |-> FALSE]

-----------------------------------------------------------------------------
(* The walk.  value is the address of the node (curValue), cur and prev    *)
(* are curOffset and prevOffset; fresh says that the node has just been    *)
(* reached and is to be handled.                                           *)

Down(t, s) == [s EXCEPT !.node = Child(t, s.node), !.prev = 0, !.cur = 0]

(* freeItem forgets curOffset.                                             *)
DownWhenFreeing(t, s) == [s EXCEPT !.node = Child(t, s.node), !.prev = 0]

Over(t, s) ==
  LET p == Append(Front(s.node), Min(Later(t, s.node)))
      off == getComplexTypeOffset(t, Front(p), Last(p))
  IN [node |-> p, value |-> s.value + off - s.prev, cur |-> off, prev |-> off, fresh |-> TRUE]

Up(t, s) ==
  LET p == Front(s.node) off == getComplexTypeOffset(t, Front(p), Last(p))
  IN [node |-> p, value |-> s.value - s.cur, cur |-> off, prev |-> off, fresh |-> FALSE]

IsComplex(t, p) == resolveType(t, p).type = "COMPLEX"

(* The nodes of the type c that are handled, each with the address where   *)
(* its value is thought to be, for a value at address v.                   *)
ItemWalk(t, c, v, freeing) ==
  LET Next1(s) == IF s.fresh /\ IsComplex(t, s.node)
                  THEN IF freeing THEN DownWhenFreeing(t, s) ELSE Down(t, s)
                  ELSE IF s.node = c THEN [s EXCEPT !.fresh = FALSE]
                  ELSE IF Later(t, s.node) # {} THEN Over(t, s) ELSE Up(t, s)
      start == [node |-> c, value |-> v, cur |-> 0, prev |-> 0, fresh |-> TRUE]
      walk == FoldLeft(LAMBDA w, k : Append(w, Next1(Last(w))), <<start>>,
                       [k \in 1 .. 2 * Cardinality(Below(t, c)) |-> k])
  IN SelectSeq(walk, LAMBDA s : s.fresh /\ ~IsComplex(t, s.node))

-----------------------------------------------------------------------------
(* What a member points to: the sizes of the blocks, for a value that is   *)
(* given by the lengths of its strings, or by as many entries as an array  *)
(* has.  An array begins with its length, an int.                          *)

SIZE_INT == SizePOD["INT"]
SIZE_STRING == SizePOD["STRING"]

Blocks(t, p, lengths) ==
  LET type == resolveType(t, p)
      Strings == [k \in DOMAIN lengths |-> lengths[k] + 1]
      string == type.type = "STRING"
  IN CASE type.array /\ string  -> <<SIZE_INT + Len(lengths) * SIZE_STRING>> \o Strings
       [] type.array /\ ~string -> <<SIZE_INT + Len(lengths) * SizePOD[type.type]>>
       [] ~type.array /\ string -> <<lengths[1] + 1>>
       [] OTHER -> <<>>

Sum(sizes) == FoldSeq(+, 0, sizes)

(* The blocks of the members in the order of a walk; value gives the       *)
(* lengths of each member of the type.                                     *)
MemberBlocks(t, walk, value) ==
  [k \in DOMAIN walk |-> Blocks(t, walk[k].node, value[walk[k].node])]

Total(blocks) == Sum([k \in DOMAIN blocks |-> Sum(blocks[k])])

getItemSize(t, c, value) == Total(MemberBlocks(t, ItemWalk(t, c, 0, FALSE), value))

(* The pointers of the member at an address, if its blocks are at a, one   *)
(* after the other: a function from where a pointer is to what it is.      *)
Entry(block, k) == block + SIZE_INT + (k - 1) * SIZE_STRING
Pointers(at, blocks, a) ==
  LET Start(k) == a + Sum(SubSeq(blocks, 1, k - 1))
  IN (IF blocks = <<>> THEN <<>> ELSE at :> a)
       @@ [x \in {Entry(a, k) : k \in 1 .. Len(blocks) - 1} |->
             Start((x - Entry(a, 1)) \div SIZE_STRING + 2)]

(* The memory behind the value at v goes to freeMem and the following:     *)
(* the pointers that the copy has then, and the number of bytes.           *)
Copied(walk, blocks, freeMem) ==
  LET Free(k) == freeMem + Total(SubSeq(blocks, 1, k - 1))
  IN [pointers |-> FoldFunction(@@, <<>>, [k \in DOMAIN walk |->
                      Pointers(walk[k].value, blocks[k], Free(k))]),
      size |-> Free(Len(walk) + 1) - freeMem]

CopiedAlong(t, walk, value, freeMem) == Copied(walk, MemberBlocks(t, walk, value), freeMem)
copyAndCollectAdditionalMem(t, c, value, v, freeMem) ==
  CopiedAlong(t, ItemWalk(t, c, v, FALSE), value, freeMem)

(* An item of a compact tuple: its value and what belongs to it.           *)
copyItem(t, c, value, base) ==
  copyAndCollectAdditionalMem(t, c, value, base, base + getDataModelSize(t, c))

(* rewriteAdditionalMem: the pointers of a block that is at new, from when *)
(* it was at old.  The entries of an array of strings are found by the     *)
(* pointer to it that has just been rewritten.                             *)
rewriteAdditionalMem(t, c, value, memory, old, new) ==
  LET RewriteAt(mem, x) == [mem EXCEPT ![x] = Rewrite(@, old, new)]
      Member(mem, s) ==
        LET blocks == Blocks(t, s.node, value[s.node])
            set == IF blocks = <<>> THEN mem ELSE RewriteAt(mem, s.value)
        IN FoldLeft(LAMBDA m, k : RewriteAt(m, Entry(set[s.value], k)), set,
                    [k \in 1 .. Len(blocks) - 1 |-> k])
  IN FoldLeft(Member, memory, ItemWalk(t, c, new, FALSE))

(* Where copyAdditionalMem replaces a pointer by one to a copy, and where  *)
(* freeItem frees what the pointer leads to.                               *)
Indirect(t, walk) ==
  {walk[k].value : k \in {i \in DOMAIN walk : Blocks(t, walk[i].node, <<0>>) # <<>>}}
copyAdditionalMem(t, c, v) == Indirect(t, ItemWalk(t, c, v, FALSE))
freeItem(t, c, v) == Indirect(t, ItemWalk(t, c, v, TRUE))
===============================================================================
