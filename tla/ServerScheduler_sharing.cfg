SPECIFICATION Spec
CONSTANTS
  j1 = j1
  j2 = j2
  Cleaner = Cleaner
  NoJob = NoJob
  Id = {j1, j2}
  Readers = {r1, r2}
  PageWorkers = {w1}
  Priority <- SamePriority
  MaxPages = 1
  PageBytes = {1, 2}
  Chunks = {1, 2}
  MaxUploadBytes = 2
  MaxInflightUploadBytes = 3
  MaxJobs = 2
  MaxActiveJobs = 2
  MaxQueuedPages = 2
  MaxQueuedPageBytes = 2
SYMMETRY JobSymmetry
INVARIANTS
  TypeOK
  AdmissionLedger
  QuotasBalance
