SPECIFICATION Spec
CONSTANTS
  s1 = s1
  Sess = {s1}
  NoSession = NoSession
  MaxID = 2
  MaxDrops = 1
  UserCalls = {"close"}
  Refusals = FALSE
  Impatient = FALSE
  ReuseIDs = FALSE
  Quiet = FALSE
INVARIANTS ClosedIsNotRouted
CHECK_DEADLOCK FALSE
