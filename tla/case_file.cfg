SPECIFICATION Spec
CONSTANTS
  Users = {u1, u2, a1}
  Admins = {a1}
  Cases = {c1, c2}
  Docs = {d1}
  Requests = {q1, q2}
  MaxAsked = 1
  MaxTexts = 2
  MaxShown = 2
  None = None
SYMMETRY Symmetry
INVARIANTS OnlyOwnShown CompletedHasText
CHECK_DEADLOCK FALSE
