CONSTANTS
  BIT_COUNT_RESET_VAL = 7
  LAST_BIT = 7
  TICK_HEADER_BURST = 19
  TICK_HEADER_SPACE = 9
  TICK_DATA_BURST = 2
  TICK_DATA_SPACE = 6
  TICK_WAIT_GAP = 19
  TICK_LONG_WAIT = 119
  BURST_LIMIT = 5
  BURST_MIN = 15
  BURST_MAX = 23
  SPACE_MIN = 6
  SPACE_MAX = 12
  DATA_BURST_MIN = 0
  DATA_BURST_MAX = 3
  BIT_THRESHOLD = 4
  TIMEOUT = 99
  TICK_MAX = 208
  TX_LIMIT = 199
  Packets <- Frames
  JITTER = 1
  LOSS_MAX = 0
  Resettable = {{}}
  None = None
  MAX_AGE = 432
SPECIFICATION FairLink
INVARIANTS FreshCommand RestsAfterBurst
PROPERTIES ReliableMailbox EveryPacketArrives
