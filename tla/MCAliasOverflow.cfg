SPECIFICATION ServiceSpec
CONSTANTS
  ab = ab
  Name = {abc}
  Length <- Lengths
  MaxAts = 1
  Address = {alice, bob}
  Amount = {1, 2, 7}
  Width = 3
  Supply = 2
  MaxBlock = 1
  Thread = {t1, t2}
  Idle = Idle
  Nothing = Nothing
PROPERTIES ReportedIsMoved
