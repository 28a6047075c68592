SPECIFICATION Spec
CONSTANTS
  s1 = s1
  Sess = {s1}
  NoSession = NoSession
  MaxID = 2
  MaxDrops = 1
  UserCalls = {}
  Refusals = FALSE
  Impatient = FALSE
  ReuseIDs = FALSE
  Quiet = FALSE
INVARIANTS Reestablished
CHECK_DEADLOCK FALSE
