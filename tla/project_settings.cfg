SPECIFICATION PSpec
CONSTANTS
  Nothing = Nothing
  Projects = {p1, p2}
  Items = {i1, i2}
  Slots = {s1, s2}
  MaxRev = 1
  MaxCalls = 4
INVARIANTS
  SpinnerStops
  ListSettles
CHECK_DEADLOCK FALSE
