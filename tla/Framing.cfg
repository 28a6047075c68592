SPECIFICATION FairSpec
CONSTANTS
  HeaderSize = 2
  Align = 2
  MaxPayloadLength = 4
  Radix = 3
  Lengths = {0, 1, 2, 4, 6}
  MaxPDUs = 2
  MaxDrops = 1
INVARIANTS TypeOK StaysFramed OutcomesMatch GivesUpOnlyWhenLost
PROPERTIES ArrivedIsRead
CHECK_DEADLOCK FALSE
