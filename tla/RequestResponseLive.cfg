SPECIFICATION FairSpec
CONSTANTS
  c1 = c1
  c2 = c2
  Calls = {c1, c2}
  NoCall = NoCall
  NoFrame = NoFrame
  PacketIDSpace = 1
  MaxRequests = 2
  WireCap = 1
  MaxDrops = 0
INVARIANTS NoPendingLeak DispatcherNeverBlocks
PROPERTIES EveryCallReturns CloseStopsTheClient
CHECK_DEADLOCK FALSE
