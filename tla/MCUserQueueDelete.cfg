CONSTANTS
  Queries = {q1, q2}
  NoQuery = NoQuery
  Producers = {p1, p2}
  Deleters = {d1}
  MaxJobs = 3
  MaxSem = 4
SPECIFICATION Spec
INVARIANTS
  ReleasesSlcLock
