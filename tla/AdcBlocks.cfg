SPECIFICATION Spec
CONSTANTS
  PerBlock = 2
  IndexBlocks = 3
  Chunk = 2
  Residue = 1
  MaxGap = 1
  MaxSec = 9
CONSTRAINT Bounded
INVARIANT
  BlocksInIndex
