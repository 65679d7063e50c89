CONSTANTS
  MaxRetries = 3
  MaxSteps = 2
  MaxQueued = 2
  MaxLost = 1
  MaxRestarts = 1
SPECIFICATION FairSpec
CHECK_DEADLOCK FALSE
PROPERTY OnlyAbandonedSwept
