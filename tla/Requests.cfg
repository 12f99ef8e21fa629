SPECIFICATION Spec
CONSTANTS
  MAX_QUEUE_SIZE = 4
  MaxSecs = 2
  QueueLen = 3
  Tries = 2
  MaxReq = 3
  Msgs = {0, 1, 2, 3, 4, 5, 6, 7, 8}
INVARIANTS
  RingOK
  RoomForOne
PROPERTIES
  RingIsQueue
  ImplementsDelivery
  Drains
