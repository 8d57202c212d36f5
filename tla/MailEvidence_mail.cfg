SPECIFICATION FairSpec
CONSTANTS
  Last = 2
  MaxWait = 2
  NoReport = NoReport
  NoBlock = NoBlock
INVARIANTS TypeOK BlocksAreServedReports GapsReachTheModel
PROPERTY MailSettles
CHECK_DEADLOCK FALSE
