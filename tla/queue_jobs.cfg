SPECIFICATION QFairSpec
CONSTANTS
  None = None
  Requests = {c1, c2}
  MaxInFlight = 1
  MayCrash = TRUE
  RedisMayFail = TRUE
  MaxInits = 2
  MaxMessages = 1
  MaxMillis = 1
INVARIANTS
  NoJobLost
  RightPage
PROPERTY
  CallersAnswered
CHECK_DEADLOCK FALSE
