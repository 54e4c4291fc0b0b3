SPECIFICATION FairSpec
CONSTANTS
  c1 = c1
  c2 = c2
  Scans <- MCScans
  NProxies = 2
  MaxFailures = 2
  SuccessStreak = 2
  MaxConcurrent = 1
  Concurrency = 2
  NQueries <- MCNQueries
  NPages <- MCNPages
INVARIANTS
  SlotsAreGivenBack
  EachPageOnce
  StatusFollowsCounters
PROPERTIES
  ScansEnd
CHECK_DEADLOCK FALSE
