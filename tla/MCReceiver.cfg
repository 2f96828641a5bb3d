CONSTANTS
  SUM_THRESH = 2
  TARGET_CONFIDENCE_MAX = 6
  LOCK = 3
  MOVE_THRESH = 2
  MICRO_THRESH = 1
  LOW = 4
  START = 1
  CONVERT = 2
  ACQUIRE = 3
  BITS = 2
  HORIZON = 59
  Lights <- Spots
SPECIFICATION ReceiverSpec
INVARIANTS ReceiverTypeOK DropsInTime Settled OnTargetTells LineShows
PROPERTY LocksAfterEnough
