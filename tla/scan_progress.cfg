SPECIFICATION FairSweepSpec
CONSTANTS
  Docs = {d1}
  Images = {d1}
  Executions = {w1, w2}
  Jobs = {j1, j2, j3}
  Requests = {}
  MaxAttempts = 2
  RetryLimit = 1
  ReprocessRetryLimit = 0
  Faults = {"overrun", "rollback"}
  Tokens = {1, 2, 3}
  None = None
  Workers = {s1}
INVARIANT PendingHasJob
PROPERTIES EventuallyTreated SweepsAreAtomic
CHECK_DEADLOCK FALSE
