SPECIFICATION Spec
CONSTANTS
  Docs = {d1}
  Images = {d1}
  Executions = {w1, w2}
  Jobs = {j1, j2}
  Requests = {r1}
  MaxAttempts = 2
  RetryLimit = 1
  ReprocessRetryLimit = 0
  Faults = {"crash", "database", "overrun", "longLease", "removal"}
  Tokens = {1, 2, 3}
  None = None
SYMMETRY Symmetry
INVARIANTS OneHolder FailedWhenExhausted AuditMatchesStatus ColumnsMatchStatus
PROPERTIES LiveClaimEndsByItsHolder ImplementsLifecycle
CHECK_DEADLOCK FALSE
