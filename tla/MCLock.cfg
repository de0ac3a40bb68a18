SPECIFICATION FairSpec
CONSTANTS
  c1 = c1
  c2 = c2
  c3 = c3
  c4 = c4
  o1 = o1
  o2 = o2
  o3 = o3
  o4 = o4
  Clients = {c1, c2, c3, c4}
  Records = {o1, o2, o3, o4}
  NoRecord = NoRecord
INVARIANTS LockTypeOK NobodyForgotten
PROPERTIES WritersServed ImplementsReadWriteLock
