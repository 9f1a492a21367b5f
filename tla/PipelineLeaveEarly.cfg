SPECIFICATION Spec
CONSTANTS
  NumRows = 2
  FailFast = 0
  Backlog = 1
  PrepareLimit = 1
  ReadAhead = 1
  PrepThreads = FALSE
  LeaveEarly = TRUE
PROPERTIES
  LeavingStopsTheRun
CHECK_DEADLOCK FALSE
