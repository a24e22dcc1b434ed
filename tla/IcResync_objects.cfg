CONSTANTS
  InCap = 3
  IntfCap = 8
  ProtectLen = 2
  PktLen = 4
  MaxLag = 1
  MaxSize = 2
  b1 = b1
  b2 = b2
  Bases = {b1, b2}
  MaxHeaders = 3
  MaxObjects = 3
SPECIFICATION Spec
SYMMETRY Symmetry
INVARIANTS ResyncInv StackAfterCollision CancelledOnce
