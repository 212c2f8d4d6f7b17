SPECIFICATION PdFairSpec

CONSTANTS
  RX_QUEUE_LEN = 2
  TX_QUEUE_LEN = 1
  TCP_MSG_MAX_LEN = 4
  WORD = 16
  Objects <- Assorted
  SENT_MAX = 3
  NetFaults = {"socket", "connect", "close", "reset", "heap", "reboot"}

INVARIANTS
  NoTreeLeaked
  GateCommandsFromHost
  OneSocket
  RxReadsTheConnection
  QueueInStreamOrder

PROPERTIES
  FirstIsPerformed
  Connects
