SPECIFICATION ServiceSpec
CONSTANTS
  ab = ab
  Name = {ab}
  Length <- Lengths
  MaxAts = 3
  Address = {alice, bob}
  Amount = {1}
  Width = 3
  Supply = 2
  MaxBlock = 1
  Thread = {t1, t2}
  Idle = Idle
  Nothing = Nothing
SYMMETRY Exchanges
INVARIANTS PendingIsRight
PROPERTIES TransactionsAreAtomic
