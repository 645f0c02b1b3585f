SPECIFICATION FairSpec
CONSTANTS
  b1 = b1
  b2 = b2
  Blobs = {b1, b2}
  NoBlob = NoBlob
  Size <- MCSize
  Enqueuers = {e1}
  Workers = {w1}
  EnumCap = 1
  WorkCap = 2
  ResCap = 1
  MaxBatch = 2
  MaxRecentErrors = 1
  FullSyncOnStart = FALSE
  MaxCrashes = 1
PROPERTY PendingEventuallyCopied
