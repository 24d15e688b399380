SPECIFICATION FairSpec
CONSTANTS
  j1 = j1
  j2 = j2
  Job = {j1, j2}
  NoJob = NoJob
  Pages <- TwoPages
  Priority <- TwoPriorities
  InputOrder <- TwoInOrder
  Reader = {r1, r2}
  Worker = {w1, w2}
  MaxQueuedPages = 2
INVARIANTS
  FailuresStayLocal
  PagesStartInOrder
PROPERTIES
  BatchEnds
CHECK_DEADLOCK FALSE
