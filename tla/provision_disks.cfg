SPECIFICATION Spec
CONSTANTS
  Drives <- MCDrives
  Attr <- MCAttr
  Late <- MCLate
  Old <- MCOld
  Orders <- MCOrders
  Templates <- MCTemplates
  Rules <- MCRules
  Hosts <- MCHosts
  Ports <- MCPorts
  MaxTries = 1
  MaxFaults = 2
  MaxCrashes = 2
INVARIANTS TypeOK SuccessIsInstalled OneDisk ResolvKept 
PROPERTIES VerifiedFirst
CHECK_DEADLOCK FALSE
