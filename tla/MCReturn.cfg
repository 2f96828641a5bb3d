CONSTANTS
  PosMax = 3
  BOOT_LIMIT = 2
  PITCH_LIMIT = 1
  YAW_LIMIT = 1
  SEARCH_MAX_SIDE = 2
  PULSE_WIDTH = 4
  DENSITY_STEP = 1
  DIVIDER = 1
  TICK_LIMIT = 8
  Packets <- ThreeKinds
  PACKET_GAP = 9
  Keys = {}
  GapMax = 3
SPECIFICATION AccountSpec
PROPERTY ReturnsHome
