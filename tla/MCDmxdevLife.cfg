SPECIFICATION Spec
CONSTANTS
  NFeeds = 2
  NFilters = 2
  NDev = 3
  Pes = {"video"}
  Pids = {"a", "b", "0x2000"}
  Modes <- AllModes
INVARIANTS
  Accounted
  PointersSafe
  StreamsOnce
  ActiveServed
PROPERTY
  CallsReturn
CHECK_DEADLOCK FALSE
