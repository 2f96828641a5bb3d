CONSTANTS
  BUF_LEN = 3
  TX_FIFO = 2
  RX_FIFO = 2
  THRESHOLD = 1
  INT_MAX = 5
  DEFAULT_TIMEOUT = 2
  TICKS = 2
  MAX_CALL = 3
  TX_TOTAL = 4
  RX_TOTAL = 3
SPECIFICATION FairUart
INVARIANTS UartTypeOK CopiesApart
PROPERTIES OutputStream InputStream OutputArrives WriteEnds ReadEnds
