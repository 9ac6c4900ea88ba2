---------------------------- MODULE LinkInvariant ----------------------------
(***************************************************************************)
(* Why the layers agree: the inductive invariant of Link, in parts.  Most  *)
(* of it says what becomes of an item: fresh, in a call of its owner, had  *)
(* by its own layer, on its way to the other layer, gone.  What cannot be  *)
(* said any more after a mishap is said under the condition that it did    *)
(* not happen.                                                             *)
(***************************************************************************)
EXTENDS Link

None(what) == mishap \cap what = {}

(* A thread is in a call for an item of its own.                           *)
CallsOwn ==
  \A t \in Threads :
    /\ op[t] = "idle" <=> arg[t] = Nothing
    /\ op[t] # "idle" => OwnerOf[arg[t]] = t
    /\ op[t] \in {"sendDMAdd", "sendDMDel"} => arg[t] \in Providers
    /\ op[t] \in {"checkedAdd", "checkedDel", "sendAddQuery", "sendDelQuery"} => arg[t] \in Queries
    /\ LayerOf[t] = User /\ daemon # "up" => op[t] = "idle"

(* How far the item is while its owner is in the call.                     *)
CallsKnow ==
  /\ transferred \cap fresh = {}
  /\ \A t \in Threads :
      /\ op[t] = "checkedAdd" => arg[t] \in fresh
      /\ op[t] = "sendAddQuery" => arg[t] \notin transferred
      /\ op[t] \in {"checkedDel", "sendDMAdd", "sendAddQuery"} => arg[t] \in registered
      /\ op[t] \in {"sendDMDel", "sendDelQuery"} => arg[t] \notin registered /\ arg[t] \notin fresh

(* A layer sends news of its own items only, and the request of the daemon *)
(* is empty.                                                               *)
RingOwn ==
  \A l \in Layers : \A i \in DOMAIN ring[l] :
    /\ ring[l][i].type \in {"DM_ADD", "DM_DEL", "QUERY_ADD", "QUERY_DEL"} => Home(ring[l][i].what) = l
    /\ l = User /\ ring[l][i].type = "DM_SNAPSHOT" => ring[l][i].what = {}

(* What is registered is had by its own layer, and the other way round.    *)
HomeHas ==
  /\ \A x \in registered : x \notin fresh
  /\ \A p \in Providers \cap registered : p \in dm[Home(p)]
  /\ None({"memory", "restart"}) => \A p \in Providers : p \in dm[Home(p)] => p \in registered
  /\ \A q \in Queries : q \in slots[Home(q)] => q \in registered
  /\ None({"unregistered", "memory", "restart"}) => \A q \in Queries \cap registered : q \in slots[Home(q)]

SlotsHaveNode == \A l \in Layers : \A q \in slots[l] : NodeOf[q] \in dm[l]

(* A provider that queries count on is registered.                         *)
UsedIsThere ==
  None({"unregistered", "memory", "restart"}) => \A p \in Providers : InUse(p) => p \in dm[Home(p)]

CheckedHasNode ==
  None({"unregistered", "memory", "restart"}) =>
    \A t \in Threads : op[t] \in {"checkedAdd", "checkedDel"} => NodeOf[arg[t]] \in dm[LayerOf[t]]

(* What is reported to be gone is gone and does not come back.             *)
GoneIsGone ==
  None({"memory", "restart"}) =>
    \A l \in Layers : \A i \in DOMAIN ring[l] :
      ring[l][i].type \in {"DM_DEL", "QUERY_DEL"} => ring[l][i].what \notin registered \cup fresh

(* Until the kernel handles the request, it has nothing of the daemon, so  *)
(* the snapshot has not either.                                            *)
UserFree(S) == \A p \in S : Home(p) # User
RequestFirst ==
  None({"memory", "restart"}) =>
    /\ daemon \in {"down", "mapped"} => ring[User] = <<>>
    /\ \A i \in DOMAIN ring[User] :
         /\ daemon = "requested" => ring[User][i].type = "DM_SNAPSHOT"
         /\ ring[User][i].type = "DM_SNAPSHOT" => i = 1 /\ UserFree(dm[Kernel])
    /\ daemon \in {"down", "mapped", "requested"} => UserFree(dm[Kernel])
    /\ \A i \in DOMAIN ring[Kernel] :
         ring[Kernel][i].type = "DM_SNAPSHOT" => UserFree(ring[Kernel][i].what)

(* A query is behind the news of its provider.                             *)
NodeComesFirst ==
  None({"unregistered", "early", "partial", "memory", "restart"}) =>
    \A l \in Layers : \A i \in DOMAIN ring[l] :
      ring[l][i].type = "QUERY_ADD" =>
        LET p == NodeOf[ring[l][i].what]
        IN p \in dm[Peer(l)] \/ \E j \in 1 .. i - 1 : Adds(ring[l][j], p)

ToKernel(i, type, q) == ring[User][i].type = type /\ ring[User][i].what = q

(* What the kernel is told to forget it has, or will have by then, and it  *)
(* is told once.                                                           *)
KernelHas(q, n) == q \in slots[Kernel] \/ \E j \in 1 .. n : ToKernel(j, "QUERY_ADD", q)
KernelCanForget ==
  None({"refused", "unregistered", "memory", "restart"}) /\ fatal = {} =>
    /\ \A q \in Queries :
         Home(q) = User /\ (q \in registered \cap transferred \/ About(q) = "sendDelQuery") =>
           /\ KernelHas(q, Len(ring[User]))
           /\ \A i \in DOMAIN ring[User] : ~ToKernel(i, "QUERY_DEL", q)
    /\ \A i \in DOMAIN ring[User] :
         ring[User][i].type = "QUERY_DEL" =>
           /\ KernelHas(ring[User][i].what, i - 1)
           /\ \A j \in DOMAIN ring[User] : ToKernel(j, "QUERY_DEL", ring[User][i].what) => j = i

(* A registered query was sent or is about to be.                          *)
RegisteredIsSent ==
  "memory" \notin mishap => \A q \in Queries \cap registered :
    Home(q) = User \/ "unsent" \notin mishap => q \in transferred \/ About(q) = "sendAddQuery"

(* Without the daemon nothing is on its way to it.                         *)
NobodyThere ==
  Sound /\ daemon \in {"down", "flushed"} =>
    /\ \A i \in DOMAIN ring[Kernel] : ring[Kernel][i].type = "EMPTY"
    /\ daemon = "flushed" => Len(ring[Kernel]) = Capacity
    /\ daemon = "down" =>
         /\ Has(User) = {}
         /\ \A t \in Threads : op[t] \notin {"sendAddQuery", "sendDelQuery"}
         /\ mishap = {} => \A q \in Queries : Home(q) = Kernel => q \notin registered

(* LayersAgree, before and after the daemon has its snapshot.              *)
Asked == daemon \in {"requested", "up"} /\ \A i \in DOMAIN ring[User] : ring[User][i].type # "DM_SNAPSHOT"
Agreement ==
  Sound /\ fatal = {} =>
    \A x \in Items :
      /\ Home(x) = User => (WillHave(x) <=> x \in Has(User))
      /\ Home(x) = Kernel /\ daemon # "flushed" =>
           /\ x \in Providers /\ WillHave(x) => x \in Has(Kernel)
           /\ x \in Providers /\ x \in Has(Kernel) /\ Asked => WillHave(x)
           /\ x \in Queries /\ mishap = {} => (WillHave(x) <=> x \in Has(Kernel))

IInv ==
  /\ TypeOK /\ CallsOwn /\ CallsKnow /\ RingOwn /\ HomeHas /\ SlotsHaveNode /\ UsedIsThere
  /\ CheckedHasNode /\ GoneIsGone /\ RequestFirst /\ NodeComesFirst
  /\ KernelCanForget /\ RegisteredIsSent /\ NobodyThere /\ Agreement /\ FatalHasCause
===============================================================================
