SPECIFICATION Spec
CONSTANTS
  PerBlock = 2
  IndexBlocks = 3
  Chunk = 2
  Residue = 1
  MaxGap = 1
  MaxSec = 7
CONSTRAINT Bounded
INVARIANTS
  KeptFound
  ReadsOwnSecond
  TimesReported
  ClearedGone
PROPERTY ImplementsRecording
