SPECIFICATION CooperativeSpec
CONSTANTS
  waiter = waiter
  canceller = canceller
  client = client
  Callers = {c1, c2, c3}
  Runners = {r1, r2, r3}
  Uses <- AnyUse
  MaxIds = 4
  NoRunner = NoRunner
SYMMETRY Symmetry
INVARIANT OneRunPerSession
CHECK_DEADLOCK FALSE
