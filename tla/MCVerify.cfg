CONSTANTS
  Jobs = {1, 2}
  Files = {f}
  Images = {golang}
  Digests = {d1, d2}
  NoDigest = NoDigest
  Keys = {checkout}
  Commits = {c1, c2}
  NoCommit = NoCommit
  NoKey = NoKey
  Workflows <- MCWorkflows
  NoFile = NoFile
  NoManifest = NoManifest
  WorkflowName = WorkflowName
  Heads = {0}
  NoHead = NoHead
  MaxMoves = 2
SYMMETRY MCSymmetry
SPECIFICATION Spec
CHECK_DEADLOCK FALSE
INVARIANTS ManifestFaithful VerifiedMeans FailureHasCause StrictReproduces
