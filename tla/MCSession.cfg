SPECIFICATION SessionFairSpec
CONSTANTS
  waiter = waiter
  canceller = canceller
  client = client
  Callers = {waiter, canceller, client}
  Runners = {r1, r2}
  Uses <- Roles
  MaxIds = 2
  NoRunner = NoRunner
INVARIANTS SessionTypeOK LiveWorkIsCurrent OnlyUnbegunStrand CancelledIsStopped QuietIsIdle
PROPERTIES ImplementsSingleFlight CancelReturns BegunJoinersReleased
CHECK_DEADLOCK FALSE
