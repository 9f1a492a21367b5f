SPECIFICATION Spec
CONSTANTS
  NumRows = 3
  QueueSize = 1
  Timer = TRUE
  Twice = FALSE
INVARIANTS
  WriteFailureShows
