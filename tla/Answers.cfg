SPECIFICATION FairSpec
CONSTANTS
  Names <- SmallNames
  Paddings = {FALSE}
  Values = {"good", "bad"}
  Handlers = {"none", "list", "failing"}
  Encodable = {"good"}
  Errors = {"plain", "noError", "notWritable"}
  Columns <- SmallColumns
  MaxRequests = 4
INVARIANTS TypeOK GetNextIsLeast AnswersFit WalkIsComplete
PROPERTIES EveryRequestAnswered
CHECK_DEADLOCK FALSE
