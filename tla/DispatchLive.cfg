SPECIFICATION FairSpec
CONSTANTS
  s1 = s1
  s2 = s2
  Sess = {s1, s2}
  Unknown = Unknown
  Kinds = {"request"}
  MaxPDUs = 3
  QueueCap = 1
  WireCap = 1
  Prompt = {s2}
  Asking = {s2}
  Targets = {s1, s2}
  MayClose = {"client"}
PROPERTIES RequestsAnswered CloseEndsEverything
CHECK_DEADLOCK FALSE
