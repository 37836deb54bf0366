SPECIFICATION FairSpec
CONSTANTS
  d1 = d1
  d2 = d2
  h1 = h1
  h2 = h2
  k1 = k1
  k2 = k2
  None = None
  Devices <- MCDevices
  ValidSerials <- MCValidSerials
  Hosts <- MCHosts
  UserHosts <- MCUserHosts
  Handlers <- MCHandlers
  AutoProvision = TRUE
  MaxFaults = 1
  MaxReboots = 0
PROPERTIES ApprovedDeviceOnboards EveryRequestEnds
CHECK_DEADLOCK FALSE
