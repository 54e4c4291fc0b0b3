SPECIFICATION GFairSpec
CONSTANTS
  NoJob = NoJob
  Jobs = {j1, j2}
  Reviewed = {j1}
  MaxAttempts = 1
  MaxPolls = 2
  MaxSockets = 2
  MaxDrops = 1
INVARIANTS
  OneSocket
PROPERTIES
  RunningIsBacked
  JobsAreLeft
CHECK_DEADLOCK FALSE
