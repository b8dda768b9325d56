CONSTANTS
  Jobs <- MCJobs
  NeedsChoices <- MCNeeds
  NoJob = NoJob
  MaxChoices = {0, 2}
SPECIFICATION FairSpec
INVARIANTS TypeOK NeedsSucceeded SlotWaitIsBrief NoEligibleJobWaits ReturnedComplete SkipExact
  SequentialFollowsOrder
PROPERTIES RunReturns DrainReturns ImplementsJobRun
CHECK_DEADLOCK FALSE
