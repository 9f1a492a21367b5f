SPECIFICATION Spec
CONSTANTS
  a = a
  b = b
  Ids = {a, b}
  Input <- MCInput
  Failing = {a}
  Unfit = {b}
  FlushEvery = 2
  Attempts = 2
  MaxFaults = 2
  MaxDoubts = 1
  MaxRestarts = 2
  MaxTroubles = 3
INVARIANTS
  SkipDurable
  ReworkBounded
  Accounted
  StatsExact
PROPERTIES
  KeepsPromise
  ShardCompletes
