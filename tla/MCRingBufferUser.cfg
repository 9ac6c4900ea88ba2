CONSTANTS
  Writers = {w1, w2}
  Size = 3
  FREE_THRESHOLD = 2
  Addrs = {a1, a2, a3}
  NULL = NULL
  PayloadTypes = {QUERY}
  BareTypes = {SNAPSHOT}
  MSG_EMPTY = MSG_EMPTY
  ExclusiveLock = FALSE
SPECIFICATION Spec
SYMMETRY Symmetry
INVARIANTS
  NoConcurrentStores
