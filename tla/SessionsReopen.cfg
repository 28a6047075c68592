SPECIFICATION FairSpec
CONSTANTS
  s1 = s1
  s2 = s2
  Sess = {s1, s2}
  NoSession = NoSession
  MaxID = 2
  MaxDrops = 1
  UserCalls = {"register", "unregister", "close"}
  Refusals = TRUE
  Impatient = FALSE
  ReuseIDs = TRUE
  Quiet = TRUE
INVARIANTS Reestablished ClosedIsNotRouted
PROPERTIES EverySessionGetsATurn
CHECK_DEADLOCK FALSE
