SPECIFICATION FairSpec
CONSTANTS
  r1 = r1
  r2 = r2
  Reporters = {r1, r2}
  MaxReports = 4
  Cap = 2
INVARIANTS TypeOK NoSendOnClosed ErrorsAccounted
PROPERTIES CloseIsNotBlocked HandlerDrainsAndEnds
CHECK_DEADLOCK FALSE
