SPECIFICATION FairSpec
CONSTANTS
  None = None
  Jobs = {j1}
  Workers = {w1, w2}
  Locals = {}
  Requests = {r1}
  MaxQueue = 1
  DbMayFail = FALSE
  RedisMayFail = FALSE
  MayStop = {}
INVARIANTS
  AnnouncedIsStored
  RunningIsOwned
PROPERTY JobSettles
