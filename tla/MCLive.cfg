CONSTANTS
  PosMax = 1
  BOOT_LIMIT = 1
  PITCH_LIMIT = 1
  YAW_LIMIT = 1
  SEARCH_MAX_SIDE = 1
  PULSE_WIDTH = 2
  DENSITY_STEP = 1
  DIVIDER = 0
  TICK_LIMIT = 4
  Packets <- LostOrSeen
  PACKET_GAP = 3
  Keys = {"reset", "home"}
SPECIFICATION FairTransmitter
PROPERTIES SearchEnds ForcedReturnEnds
