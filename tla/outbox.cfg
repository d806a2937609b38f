SPECIFICATION FairSpec
CONSTANTS
  Users = {u1}
  Entries = {1, 2, 3}
  Broken = {1}
  Dispatchers = {d1, d2}
  Limit = 2
  MaxMishaps = 1
  None = None
INVARIANTS DeliveredOnce LinkWorks
PROPERTY EveryEmailSent
CHECK_DEADLOCK FALSE
