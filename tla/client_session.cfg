SPECIFICATION Spec
CONSTANTS
  None = None
  Accounts = {a1, a2}
  Tabs = {t1, t2}
  Calls = {c1, c2}
  MaxTokens = 2
  NetMayFail = TRUE
INVARIANTS
  StoreAgrees
  NoRevival
  EndedStaysEnded
PROPERTY EndedKnowingly
SYMMETRY ClientSymmetry
