SPECIFICATION Spec
CONSTANTS
  a = a
  b = b
  c = c
  d = d
  pa = pa
  pb = pb
  pc = pc
  pc2 = pc2
  pc3 = pc3
  pd = pd
  p = p
  q = q
  NoId = NoId
  Runs = {p, q}
  Ids = {a, b, c, d}
  Failing = {c}
  Unsafe = {b}
  FirstRows = 1
  Paths <- MCPaths
  IdOf <- MCIdOf
  ShardOf <- MCShardOf
  World = 2
  Limit = 5
  Prefetch = 2
  MaxFaults = 1
  MaxKills = 1
  Crowded = {0}
INVARIANTS
  OrderKept
  AheadContained
  FilesWhole
PROPERTIES
  FilesKeepPromise
  FirstObjectsStored
