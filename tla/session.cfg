SPECIFICATION Spec
CONSTANTS
  None = None
  Sessions = {s1}
  Apis = {a1}
  Workers = {w1}
  MaxIterations = 1
  MaxVersion = 2
  MaxRuns = 1
  DbMayFail = TRUE
  Unrouted = TRUE
INVARIANTS
  JournalMatchesHistory
  HistoryIsAWalk
