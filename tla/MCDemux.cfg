SPECIFICATION PathSpec
CONSTANTS
  Unit = 3
  Pass = 2
  MaxChunk = 7
  StreamLen = 11
  MaxCount = 5
  MaxSectionSize = 7
  CcMod = 3
  Counts = {3, 5}
  Lengths = {3, 7}
  Garbles = {3, 5}
  ResetsPusiSeen = TRUE
  Disturbances <- AllDisturbances
  MaxStarts = 2
  MaxSections = 3
  MaxDelivered = 4
INVARIANTS
  TypeOK
  ChunkingIrrelevant
  InSync
  SectionsRight
  BufferOK
  Lossless
CHECK_DEADLOCK FALSE
