CONSTANTS
  Frames <- SomeFrames
  MACs = {"m1", "m2"}
  Zero = "zero"
  Self = "self"
  Gateway = "gw"
  CacheSize = 2
  RingSize = 40
  TxCount = 2
  MaxWaits = 2
SPECIFICATION FairSpec
INVARIANTS TypeOK FramesInOrder CacheHoldsLast FoundStaysValid
PROPERTIES SearchFindsKnown SendsOnce LookupReturns
CONSTRAINT Apart
