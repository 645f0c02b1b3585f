SPECIFICATION FairSpec
CONSTANTS
  k = k
  c = c
  x = x
  d = d
  f = f
  Blobs = {k, f, d, c, x}
  NoBlob = NoBlob
  Kind <- LiveKind
  Deps <- LiveDeps
  Target <- LiveTarget
  Receivers = {r1}
  Ooo = Ooo
  HasCorpus = TRUE
  SourceFirst = TRUE
  Failures = FALSE
  MaxCrashes = 0
PROPERTY IndexedOnceDepsArrive
