SPECIFICATION FairSpec
CONSTANTS
  s1 = s1
  s2 = s2
  Sess = {s1, s2}
  NoSession = NoSession
  MaxID = 2
  MaxDrops = 2
  UserCalls = {"register"}
  Refusals = TRUE
  Impatient = TRUE
  ReuseIDs = TRUE
  Quiet = TRUE
PROPERTIES EverySessionGetsATurn
CHECK_DEADLOCK FALSE
