SPECIFICATION Spec
CONSTANTS
  Size = 7
  HdrLen = 2
  Lens = {3, 5}
  Counts = {1, 3, 9}
  Big = 9
  Garble = 2
  Modes <- AllModes
  Starts = {0, 3, 5}
  MaxSections = 3
INVARIANTS
  RingCoherent
  WholeSections
PROPERTIES
  StopsStoring
  ReaderServed
CHECK_DEADLOCK FALSE
