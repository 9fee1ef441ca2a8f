SPECIFICATION Spec
CONSTANTS
  MaxCount = 5
  MaxSectionSize = 7
  CcMod = 3
  Counts = {3, 5}
  Lengths = {3, 7}
  Garbles = {3, 5}
  ResetsPusiSeen = FALSE
  Disturbances <- RestartOnly
  MaxStarts = 2
  MaxSections = 3
  MaxDelivered = 4
INVARIANT
  NoGarbage
CHECK_DEADLOCK FALSE
