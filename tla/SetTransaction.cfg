SPECIFICATION Spec
CONSTANTS
  t1 = t1
  t2 = t2
  b1 = b1
  b2 = b2
  Tx = {t1, t2}
  Bindings = {b1, b2}
  MaxVars = 2
  HandlerKinds = {"none", "single", "twoPhase"}
  QueueCap = 3
  MaxDrops = 1
  PacketIDsRestart = FALSE
INVARIANTS TypeOK HandlerGetsTestedBindings NothingLeftBehind
SYMMETRY Symmetry
CHECK_DEADLOCK FALSE
