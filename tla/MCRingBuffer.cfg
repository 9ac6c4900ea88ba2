\* No symmetry: the run checks temporal properties too.
CONSTANTS
  Writers = {w1, w2}
  Size = 3
  FREE_THRESHOLD = 2
  Addrs = {a1, a2, a3, a4}
  NULL = NULL
  PayloadTypes = {QUERY}
  BareTypes = {SNAPSHOT}
  MSG_EMPTY = MSG_EMPTY
  ExclusiveLock = TRUE
SPECIFICATION Spec
INVARIANTS
  SweepSeesEmptySlots
  PayloadStaysLive
  NoBlockLost
  IInv
PROPERTIES
  LinkSpec
  SweepTerminates
