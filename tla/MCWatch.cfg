CONSTANTS
  Branches = {1}
  Tags = {2, 3}
  Patterns = {versions, releases}
  versions = versions
  releases = releases
  p1 = p1
  p2 = p2
  Matching <- MCVersions
  a = a
  b = b
  Shas = {a, b}
  NoSha = NoSha
  Torn = Torn
  Passes = {p1, p2}
  Scenes <- MCScenes
SPECIFICATION FairSpec
INVARIANTS RefiresBounded FiresAreChanges
PROPERTIES NoChangeSwallowed TakenUpUnlessTorn
