CONSTANTS
  Frames <- FewFrames
  MACs = {"m1", "m2"}
  Zero = "zero"
  Self = "self"
  Gateway = "gw"
  CacheSize = 2
  RingSize = 40
  TxCount = 4
  MaxWaits = 1
SPECIFICATION Spec
PROPERTIES SendUsesARegister
