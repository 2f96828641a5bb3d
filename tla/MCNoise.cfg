CONSTANTS
  LAST_BIT = 1
  BURST_MIN = 3
  BURST_MAX = 5
  SPACE_MIN = 2
  SPACE_MAX = 4
  DATA_BURST_MIN = 1
  DATA_BURST_MAX = 2
  BIT_THRESHOLD = 3
  TIMEOUT = 6
  TICK_MAX = 8
SPECIFICATION NoiseSpec
INVARIANTS IrRxTypeOK RecvAgrees FrameBounded FramesApart
