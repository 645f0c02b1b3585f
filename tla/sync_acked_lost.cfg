SPECIFICATION Spec
CONSTANTS
  b1 = b1
  b2 = b2
  Blobs = {b1}
  NoBlob = NoBlob
  Size <- MCSize
  Enqueuers = {e1, e2}
  Workers = {w1}
  EnumCap = 1
  WorkCap = 1
  ResCap = 1
  MaxBatch = 1
  MaxRecentErrors = 1
  FullSyncOnStart = FALSE
  MaxCrashes = 1
INVARIANT AckedIsDurable
