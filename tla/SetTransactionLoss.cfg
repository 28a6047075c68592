SPECIFICATION Spec
CONSTANTS
  t1 = t1
  b1 = b1
  Tx = {t1}
  Bindings = {b1}
  MaxVars = 1
  HandlerKinds = {"twoPhase"}
  QueueCap = 3
  MaxDrops = 1
  PacketIDsRestart = FALSE
INVARIANTS EntriesAreRemoved
CHECK_DEADLOCK FALSE
