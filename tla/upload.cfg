SPECIFICATION FairSpec
CONSTANTS
  Users = {u1}
  Uploads = {f1, f2, f3}
  Sizes = {1, 2}
  Quota = 3
  Faults = {"crash", "database", "inDoubt"}
  None = None
INVARIANTS QuotaRespected QuotaRefusalIsTrue RefusalLeavesNothing
PROPERTY UploadsEnd
CHECK_DEADLOCK FALSE
