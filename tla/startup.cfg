SPECIFICATION FairSpec
CONSTANTS
  Starts = {s1, s2, s3}
  Stops = {q1, q2}
  None = None
  LockExists = TRUE
INVARIANT PathTellsTruth
PROPERTIES StopReturns
CHECK_DEADLOCK FALSE
