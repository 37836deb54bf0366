SPECIFICATION Spec
\* A deauthorized host without an Instance has nothing left to do.
CHECK_DEADLOCK FALSE
CONSTANTS
  Hosts = {h1}
  Kinds = {"infra"}
  MaxInvFaults = 1
  MaxExtFaults = 0
  MaxCrashes = 0
INVARIANT NeverReprovisioned
