SPECIFICATION Spec
CONSTANTS
  MinLimit = 2
  MaxLimit = 8
  Starts = {8}
  HardLimits = {6}
  Step = 2
  Excess = {1}
  StallTicks = 2
  MaxBackoff = 2
  JitterTicks = 1
  TopLevel = 3
  MaxLatency = 1
INVARIANTS
  WindowBounded
PROPERTIES
  OneStallPerEpisode
  FailedTrialGoesBack
  SmallLossesDontAdd
  SearchGoesOn
