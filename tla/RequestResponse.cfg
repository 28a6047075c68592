SPECIFICATION Spec
CONSTANTS
  c1 = c1
  c2 = c2
  Calls = {c1, c2}
  NoCall = NoCall
  NoFrame = NoFrame
  PacketIDSpace = 2
  MaxRequests = 2
  WireCap = 2
  MaxDrops = 1
INVARIANTS TypeOK Correlation WaitingIsReachable
PROPERTIES ImplementsCallSpec
CHECK_DEADLOCK FALSE
