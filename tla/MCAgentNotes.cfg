SPECIFICATION Spec
CONSTANTS
  edit = edit
  read = read
  Call = {read}
  ReadOnly = {read}
  Replayable = {read}
  Gated = {}
  Answers = {}
  MaxRuns = 3
  MaxRequests = 1
  MaxCalls = 2
  MaxCancels = 0
  MaxRestarts = 0
PROPERTIES
  NotesAreHandled
CHECK_DEADLOCK FALSE
