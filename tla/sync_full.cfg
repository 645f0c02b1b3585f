SPECIFICATION Spec
CONSTANTS
  b1 = b1
  b2 = b2
  Blobs = {b1, b2}
  NoBlob = NoBlob
  Size <- MCSize
  Enqueuers = {e1}
  Workers = {w1, w2}
  EnumCap = 1
  WorkCap = 1
  ResCap = 1
  MaxBatch = 2
  MaxRecentErrors = 1
  FullSyncOnStart = TRUE
  MaxCrashes = 0
SYMMETRY Alike
INVARIANTS
  BytesRemainIsSum
  EveryFedBlobYieldsAResult
