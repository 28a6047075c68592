SPECIFICATION Spec
CONSTANTS
  s1 = s1
  Sess = {s1}
  NoSession = NoSession
  MaxID = 3
  MaxDrops = 2
  UserCalls = {}
  Refusals = FALSE
  Impatient = FALSE
  ReuseIDs = FALSE
  Quiet = TRUE
INVARIANTS Reestablished
CHECK_DEADLOCK FALSE
