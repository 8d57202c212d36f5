SPECIFICATION FairSpec
CONSTANTS
  j1 = j1
  j2 = j2
  Jobs <- TwoJobs
  SyncJobs <- OneJob
  DeletableJobs <- OneJob
  MaxConcurrentJobs = 1
  MaxCrashes = 0
  MaxFaults = 1
PROPERTIES JobSettles ThreadReturns SyncAnswers
CHECK_DEADLOCK FALSE
