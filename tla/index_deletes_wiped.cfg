SPECIFICATION Spec
CONSTANTS
  k = k
  c = c
  x = x
  d = d
  f = f
  Blobs = {k, c, x}
  NoBlob = NoBlob
  Kind <- ClaimKind
  Deps <- ClaimDeps
  Target <- ClaimTarget
  Receivers = {r1}
  Ooo = Ooo
  HasCorpus = FALSE
  SourceFirst = TRUE
  Failures = FALSE
  MaxCrashes = 1
INVARIANT DeletesCacheHasRows
