CONSTANTS
  Branches = {1}
  Tags = {2, 3}
  Patterns = {versions, releases}
  versions = versions
  releases = releases
  p1 = p1
  p2 = p2
  Matching <- MCMatching
  a = a
  b = b
  Shas = {a, b}
  NoSha = NoSha
  Torn = Torn
  Passes = {p1, p2}
  Scenes <- MCPatternScenes
SPECIFICATION Spec
INVARIANT AtMostOncePerChange
