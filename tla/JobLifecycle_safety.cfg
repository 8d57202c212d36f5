SPECIFICATION Spec
CONSTANTS
  j1 = j1
  j2 = j2
  Jobs <- TwoJobs
  SyncJobs <- OneJob
  DeletableJobs <- TwoJobs
  MaxConcurrentJobs = 1
  MaxCrashes = 1
  MaxFaults = 1
INVARIANTS TypeOK NoOrphan PublishedIsDurable CompletedHasEvidence WorkersBounded
PROPERTY KeepsPromise
CHECK_DEADLOCK FALSE
