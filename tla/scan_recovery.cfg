SPECIFICATION FairSpec
CONSTANTS
  Docs = {d1}
  Images = {d1}
  Executions = {w1}
  Jobs = {j1,j2}
  Requests = {r1}
  MaxAttempts = 2
  RetryLimit = 1
  ReprocessRetryLimit = 1
  Faults = {"crash", "database", "overrun", "longLease", "removal"}
  Tokens = {1, 2, 3}
  None = None
PROPERTY ClaimsEnd
INVARIANT CleanImageHasCopy
CHECK_DEADLOCK FALSE
