SPECIFICATION Spec
CONSTANTS
  Sessions = {s1, s2, s3}
  Requests = {q1, q2}
  IdleWindow = 2
  Lifetime = 3
  RotationInterval = 1
  Grace = 1
  MaxTime = 2
  None = None
SYMMETRY Symmetry
INVARIANTS OneSuccessor WindowsKept OneEventPerLogout OnlyNewerSurvive
PROPERTY RevokedForGood
CHECK_DEADLOCK FALSE
