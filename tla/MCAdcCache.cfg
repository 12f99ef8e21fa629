SPECIFICATION Spec
CONSTANTS
  Items = {a, b, c}
  CacheLen = 4
  Lens = {2, 3}
INVARIANT
  RingOK
PROPERTY
  ImplementsFifo
