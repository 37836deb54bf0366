SPECIFICATION FairSpec
CONSTANTS
  Oam = TRUE
  MaxCerts = 3
  MaxConfs = 2
  VproConfs = {2}
  MaxFaults = 1
  MaxMasked = 1
  MaxCrashes = 1
INVARIANTS TypeOK  KeysMatch
 
CHECK_DEADLOCK FALSE
