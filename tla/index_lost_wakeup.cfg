SPECIFICATION FairSpec
CONSTANTS
  k = k
  c = c
  x = x
  d = d
  f = f
  Blobs = {k, f}
  NoBlob = NoBlob
  Kind <- FileKind
  Deps <- FileDeps
  Target <- FileTarget
  Receivers = {r1, r2}
  Ooo = Ooo
  HasCorpus = FALSE
  SourceFirst = TRUE
  Failures = FALSE
  MaxCrashes = 0
PROPERTY IndexedOnceDepsArrive
