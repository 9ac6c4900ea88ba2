\* Three queries compete for two slots of a node in the kernel.
CONSTANTS
  q1 = q1
  q2 = q2
  q3 = q3
  OBJECT_CREATE = OBJECT_CREATE
  OBJECT_DELETE = OBJECT_DELETE
  OBJECT_STATUS = OBJECT_STATUS
  Queries <- MCQueries
  NoQuery = NoQuery
  Slots = 2
  NodeTypes = {"EVENT", "OBJECT", "SOURCE"}
  Events <- MCEvents
  Wishes <- BothWishes
  Handlers = {h1, h2}
  MaxJobs = 3
  MaxDrift = 1
SPECIFICATION Spec
CHECK_DEADLOCK FALSE
INVARIANTS
  OwnSlot
  NoStaleSlot
  NoJobOfFreedQuery
PROPERTIES
  SettledBroadcastHasTuples
