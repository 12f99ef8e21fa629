SPECIFICATION Spec
CONSTANTS
  CalLen = 2
  MaxEvents = 2
INVARIANTS
  TypeOK
  SavedAgrees
  Calibrated
PROPERTIES
  ChangeReachesStore
CONSTRAINT Bounded
