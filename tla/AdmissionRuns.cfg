SPECIFICATION Spec
CONSTANTS
  r1 = r1
  r2 = r2
  r3 = r3
  Rows = {r1, r2, r3}
  Multipart = {r3}
  Threshold = 2
  MaxAttempts = 2
  Probes = 2
  MaxLimit = 2
INVARIANTS
  OneOpener
  SlotsSound
  PressureCountedOnce
PROPERTIES
  AdmissionGuarded
  EveryPostEnds
