SPECIFICATION Spec
CONSTANTS
  r1 = r1
  None = None
  Its = {r1}
  Items = {1, 2, 3, 4}
  Window = 2
  PoolSize = 4
  Executor = "given"
  FnRaises = {2}
  InputRaises = TRUE
INVARIANTS
  AtMostWindowInFlight
CHECK_DEADLOCK FALSE
