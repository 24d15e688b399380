SPECIFICATION FairSpec
CONSTANTS
  p1 = p1
  MaxBoxes = 3
  NoPage = NoPage
  NoCrop = NoCrop
  Page = {p1}
  BoxCounts = {1, 3}
  BoxWorker = {b1, b2}
  Modes <- Three
  RecWorker = {v1}
  MaxRequests = 1
  MaxBytes = 2
  Size <- LargeLast
INVARIANTS
  NothingOutlivesPage
  PageReportIsTrue
  TasksBounded
  CropsHandedOver
PROPERTIES
  EveryPageReturns
