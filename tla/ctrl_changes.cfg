SPECIFICATION FairSpec
CONSTANTS
  h1 = h1  i1 = i1
  Hosts <- MCOneHost
  Instances <- MCInstances
  Owner <- MCOwner
  Existing <- MCOneHost
  Modes <- MCEitherMode
  BufSize = 1
  MaxChanges = 2
  MaxTroubles = 2
  None = None
INVARIANTS TypeOK NoChangeLost
PROPERTY ChangesHandled
