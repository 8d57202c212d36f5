SPECIFICATION FairSpec
CONSTANTS
  j1 = j1
  j2 = j2
  Jobs <- TwoJobs
  SyncJobs <- OneJob
  DeletableJobs <- NoJobs
  MaxConcurrentJobs = 1
  MaxCrashes = 0
  MaxFaults = 0
PROPERTY PollTerminates
CHECK_DEADLOCK FALSE
