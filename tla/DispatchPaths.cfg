SPECIFICATION FairSpec
CONSTANTS
  s1 = s1
  Sess = {s1}
  Unknown = Unknown
  Kinds = {"request", "garbled", "response"}
  MaxPDUs = 3
  QueueCap = 1
  WireCap = 1
  Prompt = {s1}
  Asking = {s1}
  Targets = {s1, Unknown}
  MayClose = {"client"}
PROPERTIES RequestsAnswered CloseEndsEverything
CHECK_DEADLOCK FALSE
