SPECIFICATION Spec
CONSTANTS
  Slots = 2
  RecLen = 2
  Gap = 0
  PerPage = 2
  MaxAlarm = 4
  MaxLate = 1
INVARIANTS
  TypeOK
  RecordsIntact
  AlarmsListed
  OwnSeconds
  ClearedGone
CONSTRAINT Bounded
