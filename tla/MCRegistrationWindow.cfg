\* A broadcast while activate or deactivate runs.
CONSTANTS
  q1 = q1
  q2 = q2
  q3 = q3
  OBJECT_CREATE = OBJECT_CREATE
  OBJECT_DELETE = OBJECT_DELETE
  OBJECT_STATUS = OBJECT_STATUS
  Queries <- MCQueries
  NoQuery = NoQuery
  Slots = 2
  NodeTypes = {"EVENT"}
  Events <- MCEvents
  Wishes <- JustWithoutStatus
  Handlers = {}
  MaxJobs = 3
  MaxDrift = 1
SPECIFICATION Spec
CHECK_DEADLOCK FALSE
INVARIANTS
  EveryJobHasTuple
