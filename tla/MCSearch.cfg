CONSTANTS
  PosMax = 3
  BOOT_LIMIT = 2
  PITCH_LIMIT = 1
  YAW_LIMIT = 2
  SEARCH_MAX_SIDE = 14
  PULSE_WIDTH = 1
  DENSITY_STEP = 3
SPECIFICATION HSpec
INVARIANTS TypeOK SeenFlag BlindTrackingIsIdle SpiralCounters SpiralShape SearchArea SearchCovers
PROPERTY WalksTaxicabSpiral
