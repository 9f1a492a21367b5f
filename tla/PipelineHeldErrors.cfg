SPECIFICATION Spec
CONSTANTS
  NumRows = 2
  FailFast = 2
  Backlog = 2
  PrepareLimit = 1
  ReadAhead = 1
  PrepThreads = FALSE
  LeaveEarly = FALSE
INVARIANTS
  FinishedRowsAlwaysReadable
CHECK_DEADLOCK FALSE
