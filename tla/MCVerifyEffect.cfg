CONSTANTS
  Jobs = {1, 2}
  Files = {f}
  Images = {golang}
  Digests = {d1, d2}
  NoDigest = NoDigest
  Keys = {checkout}
  Commits = {c1, c2}
  NoCommit = NoCommit
  NoKey = NoKey
  Workflows <- MCDeploy
  NoFile = NoFile
  NoManifest = NoManifest
  WorkflowName = WorkflowName
  Heads = {0}
  NoHead = NoHead
  MaxMoves = 1
SYMMETRY MCSymmetry
SPECIFICATION Spec
CHECK_DEADLOCK FALSE
INVARIANT EffectOnlyVerifies
