CONSTANTS
  Jobs <- MCJobs
  Images = {alpine, golang}
  NoJob = NoJob
  NoOuts = NoOuts
  Workflows <- MCWorkflows
  a = a
  b = b
  underscore = underscore
  space = space
  alpine = alpine
  golang = golang
  NameChars = {a, b, underscore}
  Underscore = underscore
  Steps = 1
  Ignorable = 1
SPECIFICATION FairSpec
INVARIANTS TypeOK SeesNeedsOutputs SeedsWholeParent OwnOutputsOnly ImageReady
  StartedContainersRemoved AttestsSettledTrees ExitTells
PROPERTY RunExits
CHECK_DEADLOCK FALSE
