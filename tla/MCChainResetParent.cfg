SPECIFICATION Spec
CONSTANTS
  g = g
  a1 = a1
  a2 = a2
  a3 = a3
  b1 = b1
  b2 = b2
  b3 = b3
  c1 = c1
  Block = {g, a1, a2}
  Genesis = g
  Parent <- Tree
  Work <- Depth
  Pointer <- Pointers
  BadContext = {}
  BadConnect = {}
  Thread = {t1}
  NoTarget = NoTarget
  Rpcs = {"invalidate", "reconsider"}
  MaxPrecious = 1
INVARIANTS BestChainActive
