SPECIFICATION Spec
CONSTANTS
  BufSize = 65536
  Modes <- AllModes
INVARIANTS
  HandsOnStream
  NoUseAfterFree
PROPERTY
  KeepsDelivering
CHECK_DEADLOCK FALSE
