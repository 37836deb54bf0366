SPECIFICATION FairSpec
CONSTANTS
  N = 4
  Mine <- MCMine
  OnTimeout <- MCFirst
  OnFailure <- MCFirst
  RebootActions <- MCLast
  PullRetries = 1
  Boxes <- MCBoxes
  MaxFaults = 2
  MaxCrashes = 2
  None = None
INVARIANTS TypeOK InOrder OverlapOnlyAfterCrash
PROPERTIES ImplementsWorkflow 
CHECK_DEADLOCK FALSE
