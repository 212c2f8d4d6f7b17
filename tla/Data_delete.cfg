SPECIFICATION PdSpec

CONSTANTS
  RX_QUEUE_LEN = 1
  TX_QUEUE_LEN = 1
  TCP_MSG_MAX_LEN = 4
  WORD = 16
  Objects <- Assorted
  SENT_MAX = 1
  NetFaults = {}

INVARIANTS
  DeletedOnce

CHECK_DEADLOCK FALSE
