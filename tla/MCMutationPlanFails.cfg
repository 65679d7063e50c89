CONSTANTS
  Roster <- TwoWorkers
  Sequential = FALSE
  Fault = {"plan"}
  MaxInterrupts = 0
SPECIFICATION Spec
INVARIANT ClaimsCleanedUp
CHECK_DEADLOCK FALSE
