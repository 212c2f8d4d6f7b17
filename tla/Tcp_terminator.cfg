SPECIFICATION TcpSpec

CONSTANTS
  RX_QUEUE_LEN = 1
  TX_QUEUE_LEN = 1
  TCP_MSG_MAX_LEN = 4
  WORD = 16
  Objects = {o}
  SENT_MAX = 1
  NetFaults = {"reset"}

INVARIANTS
  TerminatorInBuffer

CHECK_DEADLOCK FALSE
