SPECIFICATION Spec
CONSTANTS
  k = k
  c = c
  x = x
  d = d
  f = f
  Blobs = {k, d, f}
  NoBlob = NoBlob
  Kind <- FileKind
  Deps <- FileDeps
  Target <- FileTarget
  Receivers = {r1, r2}
  Ooo = Ooo
  HasCorpus = FALSE
  SourceFirst = FALSE
  Failures = FALSE
  MaxCrashes = 1
INVARIANTS  NotForgotten
SYMMETRY Alike
