SPECIFICATION Spec
CONSTANTS
  Radix = 4
  MaxSubidentifiers = 2
  Tick = 2
  Second = 2
  TypeCodes <- SmallCodes
  OIDTexts <- SmallTexts
  OIDSysUpTime <- UpTimeOID
  OIDSnmpTrapOID <- TrapOID
  Packets <- SmallPackets
INVARIANTS RoundTrip InBounds StaysAligned NotifiesInOrder
CHECK_DEADLOCK FALSE
