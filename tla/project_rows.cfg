SPECIFICATION Spec
CONSTANTS
  None = None
  Users = {u1, u2}
  Admins = {u1}
  Projects = {p1}
  Rows = {r1}
  Members = {m1, m2}
  Calls = {c1, c2}
  Keys = {k1, k2}
  Values = {v1}
  MaxCalls = 4
INVARIANTS
  LostOnlyByOverlap
  OnlyCreators
  StrandedKnowingly
SYMMETRY MCSymmetry
CHECK_DEADLOCK FALSE
