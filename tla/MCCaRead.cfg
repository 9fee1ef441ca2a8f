SPECIFICATION Spec
CONSTANTS
  Setups <- AllSetups
INVARIANTS
  ConditionTrue
  MessageWhole
PROPERTIES
  SlotServed
CHECK_DEADLOCK FALSE
