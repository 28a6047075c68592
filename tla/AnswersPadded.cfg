SPECIFICATION Spec
CONSTANTS
  Names <- SmallNames
  Paddings = {FALSE, TRUE}
  Values = {"good"}
  Handlers = {"list"}
  Encodable = {"good"}
  Errors = {"plain"}
  Columns <- SmallColumns
  MaxRequests = 1
INVARIANTS StrictlySorted
CHECK_DEADLOCK FALSE
