SPECIFICATION FairSpec
CONSTANTS
  p1 = p1
  p2 = p2
  p3 = p3
  Nobody = Nobody
  Procs <- MCProcs
  Stale = 1
  MaxTries = 2
  MaxFaults = 2
  Late <- OneLate
INVARIANTS
  FlockTypeOK
  Exclusive
PROPERTIES
  RemovesOwnOrDead
  DeadLocksGo
