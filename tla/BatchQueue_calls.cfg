SPECIFICATION FairSpec
CONSTANTS
  w1 = w1
  w2 = w2
  Caller = {c1, c2, c3}
  Worker = {w1, w2}
  BatchSize <- Sizes
  MaxPending = 3
INVARIANTS
  RequestsAccountedFor
PROPERTIES
  EveryCallReturns
CHECK_DEADLOCK FALSE
