SPECIFICATION FairSpec
CONSTANTS
  waiter = waiter
  canceller = canceller
  starter = starter
  Callers = {waiter, canceller, starter}
  Runners = {r1}
  Uses <- Roles
  MaxIds = 2
  NoRunner = NoRunner
PROPERTIES JoinersReleased
CHECK_DEADLOCK FALSE
