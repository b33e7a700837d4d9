CONSTANTS
  m1 = m1
  m2 = m2
  w1 = w1
  w2 = w2
  a1 = a1
  a2 = a2
  Masters = {m1, m2}
  Workers = {w1, w2}
  Arenas = {a1, a2}
  MarketWorkers = 2
  Wanted <- Wants
  Scenarios <- TwoLevels
SPECIFICATION FairSpec
PROPERTIES EnqueuedRun
CHECK_DEADLOCK FALSE
