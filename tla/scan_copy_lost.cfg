SPECIFICATION Spec
CONSTANTS
  Docs = {d1}
  Images = {d1}
  Executions = {w1, w2}
  Jobs = {j1, j2}
  Requests = {r1}
  MaxAttempts = 1
  RetryLimit = 0
  ReprocessRetryLimit = 0
  Faults = {}
  Tokens = {1, 2, 3}
  None = None
INVARIANT CleanImageHasCopy
CHECK_DEADLOCK FALSE
