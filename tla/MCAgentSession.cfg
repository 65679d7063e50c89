SPECIFICATION Spec
CONSTANTS
  edit = edit
  read = read
  Call = {edit, read}
  ReadOnly = {read}
  Replayable = {read}
  Gated = {edit}
  Answers <- MCAnswers
  MaxRuns = 2
  MaxRequests = 1
  MaxCalls = 2
  MaxCancels = 1
  MaxRestarts = 1
INVARIANTS
  TypeOK
  NoSilentEffect
  OnlyKilledCallsStayOpen
  DecisionReachesWaiter
PROPERTIES
  CrashIsRecovered
  CommittedNeverRepeats
  FinishedStaysFinished
  ImplementsLedger
  SessionSettles
CHECK_DEADLOCK FALSE
