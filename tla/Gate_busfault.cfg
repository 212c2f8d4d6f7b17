SPECIFICATION Spec

CONSTANTS
  PORT_NUM = 2
  PIN_NUM = 1
  QUEUE_LEN = 2
  Faults = {"bus"}
  GATE_QUEUE_LEN = 1
  Commands <- OpenAndStop
  Plant = "still"

PROPERTIES
  DoneOnlyIfMoved
