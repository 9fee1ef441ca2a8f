SPECIFICATION Spec
CONSTANTS
  Size = 5
  MaxLen = 4
  MaxStream = 12
INVARIANTS
  TypeOK
  Accounting
  Contents
  ReadsStream
PROPERTIES
  IsByteQueue
CHECK_DEADLOCK FALSE
