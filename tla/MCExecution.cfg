CONSTANTS
  Origin <- MCOrigin
  NodeType <- MCNodeType
  Queries <- MCQueries
  Streams <- MCStreams
  Rows <- MCRows
  Floats = {"flt"}
  Kernel = kernel
  User = user
  Absent = absent
  MaxHops = 2
  MayFail = TRUE
SPECIFICATION Spec
CHECK_DEADLOCK FALSE
INVARIANTS
  ResultIsAnswer
  MemorySafe
  CompactQueryIsQuery
PROPERTIES
  Terminates
