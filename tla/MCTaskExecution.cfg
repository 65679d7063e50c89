CONSTANTS
  MaxRetries = 3
  MaxSteps = 2
  MaxQueued = 2
  MaxLost = 1
  MaxRestarts = 1
SPECIFICATION FairSpec
INVARIANT TypeOK
INVARIANT AttemptsBounded
INVARIANT ClaimMeansInFlight
INVARIANT CompletedMeansVouched
PROPERTY PendingMoves
PROPERTY InFlightEnds
CHECK_DEADLOCK FALSE
