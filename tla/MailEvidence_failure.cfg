SPECIFICATION Spec
CONSTANTS
  Last = 2
  MaxWait = 2
  NoReport = NoReport
  NoBlock = NoBlock
INVARIANT FailureNeverReadsBenign
CHECK_DEADLOCK FALSE
