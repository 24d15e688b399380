SPECIFICATION FairSpec
CONSTANTS
  Caller = {c1, c2, c3, c4}
  Instance = {m1, m2}
  NoInstance = NoInstance
  Strategies = {"fixed", "adaptive", "visual", "buckets"}
  Tokens = {1, 3}
  Budgets = {2, 3}
  MaxPending = 2
  HeadBypasses = 1
  MaxSeqs = 2
  BatchedTokens = 3
INVARIANTS
  LeasesExclusive
  BudgetLedger
  HeadBypassedSeldom
PROPERTIES
  NoStarvation
