SPECIFICATION Spec
CONSTANTS
  n1 = n1
  n2 = n2
  a = a
  b = b
  o1 = o1
  o2 = o2
  o3 = o3
  o4 = o4
  p1 = p1
  p2 = p2
  Name = {n1, n2}
  Owner = {a, b}
  Payout = {p1}
  Outpoint = {o1, o2, o3}
  NoInfo = NoInfo
  NoName = NoName
  NoBond = NoBond
  NoCoin = NoCoin
  NoBlock = NoBlock
  COIN = 4
  MaxMoney = 600
  ActiveBlocks = 1
  GraceBlocks = 1
  PricingTarget = 1
  PricingWindow = 2
  PricingEpoch = 100
  NameLen <- Lengths
  MaxHeight = 3
  MaxBlockTxs = 3
  MaxReorg = 1
SYMMETRY Symmetry
INVARIANT IInv
