\* Queries are unregistered while jobs wait.  The executor may be stopped, or
\* crash on an empty list, so the system may end.
CONSTANTS
  Queries = {q1, q2}
  NoQuery = NoQuery
  Producers = {p1, p2}
  Deleters = {d1}
  MaxJobs = 4
  MaxWaiting = 5
SPECIFICATION Spec
CHECK_DEADLOCK FALSE
INVARIANTS
  TypeOK
  EveryJobCounted
  NoLostWakeup
  DrainedAtExit
PROPERTIES
  JobQueueSafety
  JobsRun
