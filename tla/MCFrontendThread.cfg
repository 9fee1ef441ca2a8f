SPECIFICATION Spec
CONSTANTS
  Width = 3
  Modes <- AllModes
INVARIANTS
  ScanComplete
  MutEx
  OwnStatus
  EventsTrue
PROPERTIES
  ThreadObeys
  FindsSignal
CHECK_DEADLOCK FALSE
