CONSTANTS
  BIT_COUNT_RESET_VAL = 2
  LAST_BIT = 2
  TICK_HEADER_BURST = 8
  TICK_HEADER_SPACE = 5
  TICK_DATA_BURST = 3
  TICK_DATA_SPACE = 7
  TICK_WAIT_GAP = 6
  TICK_LONG_WAIT = 40
  BURST_LIMIT = 2
  BURST_MIN = 6
  BURST_MAX = 10
  SPACE_MIN = 3
  SPACE_MAX = 8
  DATA_BURST_MIN = 1
  DATA_BURST_MAX = 4
  BIT_THRESHOLD = 5
  TIMEOUT = 50
  TICK_MAX = 51
  TX_LIMIT = 90
  Packets <- TwoFrames
  JITTER = 1
  LOSS_MAX = 0
  Resettable = {{"tx"}, {"rx"}}
  None = None
  MAX_AGE = 0
SPECIFICATION LinkSpec
PROPERTIES OnlyLastBitSuffers NeverCorrupt
