SPECIFICATION Spec
CONSTANTS
  t1 = t1
  t2 = t2
  b1 = b1
  b2 = b2
  Txid = {t1, t2}
  Out = {0, 1}
  Block = {b1, b2}
  NoEntry = NoEntry
  NoHash = NoHash
INVARIANTS CacheInv NeverMisapplied
PROPERTIES ImplementsViews
