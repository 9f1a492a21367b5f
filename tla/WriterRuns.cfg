SPECIFICATION Spec
CONSTANTS
  NumRows = 4
  QueueSize = 2
  Timer = TRUE
  Twice = TRUE
INVARIANTS
  RowsInOrder
  NothingLost
PROPERTIES
  DrainAlwaysEnds
  RowsGetStored
