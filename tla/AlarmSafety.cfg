SPECIFICATION Spec
CONSTANTS
  Kinds = {FRONT, REAR}
  NONE = NONE
  SAVE = SAVE
  FRONT = FRONT
  REAR = REAR
  Debounce = 2
  SaveSeconds = 2
  QueueLen = 2
  StartSec = 0
  MaxSec = 4
  LastAlarmSec = 2
  MaxAlarms = 2
  ClockJumps = TRUE
INVARIANTS
  TypeOK
  NumBounded
  NoLostWakeup
  RecordsComplete
  NoAlarmLost
  AsksNextSecond
  RaisedMeansRelay
CONSTRAINT Bounded
VIEW Live
SYMMETRY KindSymmetry
