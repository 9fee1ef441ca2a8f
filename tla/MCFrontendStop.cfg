SPECIFICATION Spec
CONSTANTS
  Width = 3
  Modes <- AllModes
INVARIANT
  ThreadExited
CHECK_DEADLOCK FALSE
