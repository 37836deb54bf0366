SPECIFICATION Spec
\* A deauthorized host without an Instance has nothing left to do.
CHECK_DEADLOCK FALSE
CONSTANTS
  Hosts = {h1}
  Kinds = {"infra", "standalone", "foreign", "noos", "broken", "vendor"}
  MaxInvFaults = 1
  MaxExtFaults = 1
  MaxCrashes = 1
INVARIANTS TypeOK ProvisionedMeansInstalled NoOrphanWorkflow NotReprovisioned
PROPERTIES FailureIsFinal ProvisionedStaysRunning
