SPECIFICATION Spec
CONSTANTS
  b1 = b1
  b2 = b2
  Blobs = {b1, b2}
  NoBlob = NoBlob
  Size <- MCSize
  Enqueuers = {e1, e2}
  Workers = {w1, w2}
  EnumCap = 1
  WorkCap = 2
  ResCap = 1
  MaxBatch = 2
  MaxRecentErrors = 1
  FullSyncOnStart = FALSE
  MaxCrashes = 1
INVARIANTS
  TypeOK BytesRemainIsSum LastFailSubset DurableNotLost QueueRowsPending
  NoBlobCopiedTwiceAtOnce CopyingAccurate EveryFedBlobYieldsAResult
PROPERTY ImplementsDurableQueue
SYMMETRY Alike
