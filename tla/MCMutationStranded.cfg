CONSTANTS
  Roster <- TwoWorkers
  Sequential = FALSE
  Fault = {}
  MaxInterrupts = 1
SPECIFICATION Spec
INVARIANT ExplicitRecoveryPossible
CHECK_DEADLOCK FALSE
