SPECIFICATION Spec
CONSTANTS
  None = None
  Jobs = {j1}
  Workers = {w1}
  Locals = {l1}
  Requests = {r1}
  MaxQueue = 1
  DbMayFail = TRUE
  RedisMayFail = TRUE
  MayStop = {"worker", "api"}
INVARIANTS
  CompletedHasCode
  
PROPERTY CodeIsKept
