SPECIFICATION Spec
CONSTANTS
  s1 = s1
  s2 = s2
  Sess = {s1, s2}
  Unknown = Unknown
  Kinds = {"request", "cleanup", "response", "garbled", "garbledCleanup"}
  MaxPDUs = 3
  QueueCap = 2
  WireCap = 1
  Prompt = {}
  Asking = {s1, s2}
  Targets = {s1, s2, Unknown}
  MayClose = {"session"}
SYMMETRY Symmetry
INVARIANTS TypeOK AnswersAreRight AnsweredInOrder
CHECK_DEADLOCK FALSE
