SPECIFICATION Spec
CONSTANTS
  s1 = s1
  s2 = s2
  Consecutive = 2
  MaxPolls = 4
  Sweeps = 2
  MaxMishaps = 2
  Series = {s1, s2}
  MaxFails = 2
  RetryEvery = 2
  MaxServed = 3
  MaxEvents = 2
  Every = 2
  MaxTicks = 4
  MaxRuns = 1
  MaxFaults = 1
  MaxTroubles = 2
INVARIANTS
  EngineSound
  ScrapeSound
  TelemetryWhole
  ClientClosed
PROPERTIES
  SessionEnds
