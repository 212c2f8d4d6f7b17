SPECIFICATION BoardSpec

CONSTANTS
  PORT_NUM = 1
  PIN_NUM = 1
  QUEUE_LEN = 2
  Faults = {}
  GATE_QUEUE_LEN = 1
  Commands <- Starts
  Plant = "driven"
  RX_QUEUE_LEN = 1

PROPERTIES
  MessagesTaken
  SentToHardware
  DoneOnlyIfMoved
  ImplementsFairGates
