SPECIFICATION PoolSpec
CONSTANTS
  n1 = n1
  a = a
  b = b
  o1 = o1
  o2 = o2
  o3 = o3
  p1 = p1
  p2 = p2
  Name = {n1}
  Owner = {a}
  Payout = {p1}
  Outpoint = {o1, o2, o3}
  NoInfo = NoInfo
  NoName = NoName
  NoBond = NoBond
  NoCoin = NoCoin
  NoBlock = NoBlock
  COIN = 4
  MaxMoney = 14
  ActiveBlocks = 1
  GraceBlocks = 0
  PricingTarget = 1
  PricingWindow = 2
  PricingEpoch = 2
  NameLen <- Lengths
  MaxHeight = 3
  MaxBlockTxs = 1
  MaxReorg = 2
  Amount <- Amounts
  Fee = {3, 4}
  MaxPool = 2
SYMMETRY Symmetry
INVARIANTS TestedBlockConnects
