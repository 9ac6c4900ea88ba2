SPECIFICATION Spec
CONSTANTS
  Queries = {q1, q2}
  Exit = exit
  Kinds = {"probe", "thread", "hrtimer", "timer"}
  MayFail = TRUE
INVARIANTS
  StreamFollowsQueries
  NoStaleUse
PROPERTY
  StopEnds
CHECK_DEADLOCK FALSE
