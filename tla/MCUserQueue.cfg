\* Queries are unregistered while jobs wait, and the layer exits.
CONSTANTS
  Queries = {q1, q2}
  NoQuery = NoQuery
  Producers = {p1, p2}
  Deleters = {d1}
  MaxJobs = 3
  MaxSem = 4
SPECIFICATION Spec
INVARIANTS
  TypeOK
  EveryJobAnnounced
  CounterAgrees
PROPERTIES
  JobQueueSpec
  ExecutorEnds
CHECK_DEADLOCK FALSE
