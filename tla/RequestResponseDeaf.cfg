SPECIFICATION ClientFairSpec
CONSTANTS
  c1 = c1
  c2 = c2
  c3 = c3
  Calls = {c1, c2, c3}
  NoCall = NoCall
  NoFrame = NoFrame
  PacketIDSpace = 3
  MaxRequests = 3
  WireCap = 1
  MaxDrops = 0
PROPERTIES EveryCallReturns
CHECK_DEADLOCK FALSE
