SPECIFICATION FairSpec
CONSTANTS
  Docs = {d1}
  Executions = {e1, e2}
  MaxAttempts = 2
  RetryLimit = 1
  MaxScanRounds = 1
  MaxReprocesses = 1
  MaxStarts = 2
  MaxMishaps = 1
  None = None
INVARIANTS ScopeAgrees ResultsMatchRounds NoPdfSent PendingHasJob
PROPERTIES LiveClaimEndsByItsHolder OcrEnds
CHECK_DEADLOCK FALSE
