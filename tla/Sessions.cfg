SPECIFICATION Spec
CONSTANTS
  s1 = s1
  s2 = s2
  Sess = {s1, s2}
  NoSession = NoSession
  MaxID = 2
  MaxDrops = 2
  UserCalls = {"close", "reclose"}
  Refusals = TRUE
  Impatient = TRUE
  ReuseIDs = TRUE
  Quiet = FALSE
SYMMETRY Symmetry
INVARIANTS TypeOK OneOwner
CHECK_DEADLOCK FALSE
