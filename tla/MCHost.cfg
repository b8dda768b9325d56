CONSTANTS
  p1 = p1
  p2 = p2
  p3 = p3
  Procs = {p1, p2, p3}
  v1 = v1
  main = main
  Names = {v1, main}
  c1 = c1
  c2 = c2
  t1 = t1
  Commits = {c1, c2}
  TagObjects = {t1}
  NoObject = NoObject
  NoTree = NoTree
  Peel <- MCPeel
  History <- MCHistory
  Keyed = {c1}
  Symbols <- MCSymbols
  Scenes <- MCScenes
  NoRun = NoRun
  NoLink = NoLink
SPECIFICATION Spec
INVARIANTS CacheHoldsPinned CachedNeedsNoNetwork ExitNamesCause LatestTells
INVARIANTS NoSecretShown MaskedAsWhole
CHECK_DEADLOCK FALSE
