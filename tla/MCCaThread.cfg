SPECIFICATION LevelsSpec
CONSTANTS
  Modes <- AllModes
  Size = 15
  Word = 256
  MinLen = 2
  MaxLen = 6
  MaxPackets = 6
INVARIANTS
  ChangesCounted
  ResetHonoured
  WalkRight
  SpaceReclaimed
PROPERTIES
  InsertedRuns
  RemovedNoticed
  UnloadEnds
CHECK_DEADLOCK FALSE
