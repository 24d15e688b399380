SPECIFICATION FairSpec
CONSTANTS
  j1 = j1
  j2 = j2
  Cleaner = Cleaner
  NoJob = NoJob
  Id = {j1, j2}
  Readers = {r1}
  PageWorkers = {w1}
  Priority <- SecondFirst
  MaxPages = 1
  PageBytes = {1}
  Chunks = {}
  MaxUploadBytes = 1
  MaxInflightUploadBytes = 1
  MaxJobs = 2
  MaxActiveJobs = 2
  MaxQueuedPages = 1
  MaxQueuedPageBytes = 2
PROPERTIES
  EveryJobEnds
  ShutdownCompletes
CHECK_DEADLOCK FALSE
