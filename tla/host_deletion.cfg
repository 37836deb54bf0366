SPECIFICATION FairSpec
CONSTANTS
  n1 = n1
  a1 = a1
  a2 = a2
  d1 = d1
  n2 = n2
  Nics <- MCNics
  Ips <- MCIps
  Devices <- MCDevices
  NicOf <- MCNicOf
  SkipOSProvisioning = FALSE
  MaxInvFaults = 2
  MaxExtFaults = 1
  MaxCrashes = 1
INVARIANTS TypeOK NoPartsLeft IpHasNic RemovedMeansRevoked 
PROPERTIES  DeauthorizationSticks
CHECK_DEADLOCK FALSE
