SPECIFICATION Spec
CONSTANTS
  N = 2
  Mine <- MCAll
  OnTimeout <- MCFirst
  OnFailure <- MCNone
  RebootActions <- MCLast
  PullRetries = 1
  Boxes <- MCBoxes
  MaxFaults = 0
  MaxCrashes = 0
  None = None
INVARIANT OnTimeoutRuns
CHECK_DEADLOCK FALSE
