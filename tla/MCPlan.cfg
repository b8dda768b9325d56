CONSTANTS
  NoJob = NoJob
  NoCondition = NoCondition
  Texts = {"", "0", "False", "main"}
  Empty = ""
  Falsy = {"", "0", "False"}
  Environments <- MCEnvironments
  Families <- MCFamilies
  DepsChoices <- Graphs
SPECIFICATION PlanSpec
INVARIANTS Deterministic CyclesReported WavesExact
INVARIANTS ExpansionStaysValid FanOutExact ChainsExact ConditionExact
CHECK_DEADLOCK FALSE
