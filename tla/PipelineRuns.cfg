SPECIFICATION Spec
CONSTANTS
  NumRows = 4
  FailFast = 2
  Backlog = 3
  PrepareLimit = 1
  ReadAhead = 2
  PrepThreads = TRUE
  LeaveEarly = FALSE
INVARIANTS
  PlacesConserved
  NoFinishedRowLost
  FailFastStoresNothing
  NothingAfterFinished
  RunEndsWhole
PROPERTIES
  Completes
  StoppedRunReturns
