SPECIFICATION FairSpec
CONSTANTS
  c1 = c1
  Calls = {c1}
  NoCall = NoCall
  NoFrame = NoFrame
  PacketIDSpace = 1
  MaxRequests = 1
  WireCap = 1
  MaxDrops = 1
PROPERTIES EveryCallReturns CloseStopsTheClient
CHECK_DEADLOCK FALSE
