CONSTANTS
  Jobs <- MCJobs
  Images = {alpine, golang}
  NoJob = NoJob
  NoOuts = NoOuts
  Workflows <- MCMatrixIds
  a = a
  b = b
  underscore = underscore
  space = space
  alpine = alpine
  golang = golang
  NameChars = {a, b, underscore}
  Underscore = underscore
  Steps = 1
  Ignorable = 1
SPECIFICATION Spec
INVARIANT NamesFree
CHECK_DEADLOCK FALSE
