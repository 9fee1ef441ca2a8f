SPECIFICATION Spec
CONSTANTS
  Setups <- TwoBusySlots
INVARIANTS
  NeverEndsEarly
CHECK_DEADLOCK FALSE
