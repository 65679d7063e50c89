CONSTANTS
  Roster <- TwoWorkers
  Sequential = TRUE
  Fault = {}
  MaxInterrupts = 0
SPECIFICATION FairSpec
INVARIANT EndsWhatItBegins
PROPERTY ClaimsEndEventually
CHECK_DEADLOCK FALSE
