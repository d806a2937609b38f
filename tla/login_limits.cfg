SPECIFICATION Spec
CONSTANTS
  Accounts = {a1}
  k1 = k1
  Keys = {k1}
  Key <- SameKey
  Clients = {c1, c2}
  Requests = {q1, q2}
  Max = 2
  Length = 2
  Limit = 2
  Base = 2
  Cap = 3
  Window = 5
  Second = 2
  MaxTime = 5
  None = None
SYMMETRY Symmetry
INVARIANTS DelayHolds RetryAfterEnough RetryAfterTight NothingKeptLong
PROPERTIES OneAtATime LimiterAnswers
CHECK_DEADLOCK FALSE
