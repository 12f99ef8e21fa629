SPECIFICATION Spec
CONSTANTS
  PerSecond = 6
  Batch = 3
  Slack = 3
  CacheLen = 4
  MaxTick = 24
INVARIANTS
  SecondsWhole
  InBuffer
  AlmostWhole
  InOrder
