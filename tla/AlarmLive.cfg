SPECIFICATION FairSpec
CONSTANTS
  Kinds = {FRONT}
  NONE = NONE
  SAVE = SAVE
  FRONT = FRONT
  Debounce = 1
  SaveSeconds = 2
  QueueLen = 1
  StartSec = 0
  MaxSec = 6
  LastAlarmSec = 2
  MaxAlarms = 1
  ClockJumps = FALSE
INVARIANT
  AsksPastSeconds
PROPERTY
  SaveEnds
ACTION_CONSTRAINT Sampled
