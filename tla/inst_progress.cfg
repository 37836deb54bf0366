SPECIFICATION FairSpec
\* A deauthorized host without an Instance has nothing left to do.
CHECK_DEADLOCK FALSE
CONSTANTS
  Hosts = {h1}
  Kinds = {"infra", "broken"}
  MaxInvFaults = 1
  MaxExtFaults = 1
  MaxCrashes = 0
PROPERTIES  DeletionCompletes DeauthorizedWorkflowRemoved DeauthorizedStatusIdle
