SPECIFICATION Spec
CONSTANTS
  s1 = s1
  s2 = s2
  Sess = {s1, s2}
  NoSession = NoSession
  MaxID = 2
  MaxDrops = 1
  UserCalls = {}
  Refusals = FALSE
  Impatient = FALSE
  ReuseIDs = TRUE
  Quiet = FALSE
INVARIANTS NoneForgotten
CHECK_DEADLOCK FALSE
