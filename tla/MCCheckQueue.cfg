SPECIFICATION Spec
CONSTANTS
  w1 = w1
  w2 = w2
  m = m
  c1 = c1
  c2 = c2
  c3 = c3
  c4 = c4
  Worker = {w1, w2}
  Master = m
  Check = {c1, c2, c3}
  BatchSize = 2
INVARIANTS QueueInv VerdictRight CleanHandover WakeupOwed
PROPERTIES WaitReturns
