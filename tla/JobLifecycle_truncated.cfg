SPECIFICATION Spec
CONSTANTS
  j1 = j1
  j2 = j2
  Jobs <- TwoJobs
  SyncJobs <- NoJobs
  DeletableJobs <- NoJobs
  MaxConcurrentJobs = 1
  MaxCrashes = 1
  MaxFaults = 0
INVARIANT FallbackReadable
CHECK_DEADLOCK FALSE
