SPECIFICATION Spec
CONSTANTS
  d1 = d1
  d2 = d2
  h1 = h1
  h2 = h2
  k1 = k1
  k2 = k2
  None = None
  Devices <- MCDevices
  ValidSerials <- MCValidSerials
  Hosts <- MCHosts
  UserHosts <- MCUserHosts
  Handlers <- MCHandlers
  AutoProvision = TRUE
  MaxFaults = 1
  MaxReboots = 1
SYMMETRY HandlerSymmetry
INVARIANTS TypeOK AuthorizedCredentials
PROPERTY UuidNeverChanges
CHECK_DEADLOCK FALSE
