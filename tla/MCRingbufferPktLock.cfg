SPECIFICATION PktSpec
CONSTANTS
  Size = 15
  Word = 256
  MinLen = 2
  MaxLen = 6
  MaxPackets = 6
INVARIANT
  PacketWhole
CHECK_DEADLOCK FALSE
