SPECIFICATION Spec
CONSTANTS
  p1 = p1
  MaxBoxes = 3
  NoPage = NoPage
  NoCrop = NoCrop
  Page = {p1}
  BoxCounts = {2}
  BoxWorker = {b1, b2}
  Modes <- Plain
  RecWorker = {v1}
  MaxRequests = 1
  MaxBytes = 2
  Size <- UnitSize
INVARIANTS
  PageWaitsForItsTasks

