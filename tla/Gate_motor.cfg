SPECIFICATION Spec

CONSTANTS
  PORT_NUM = 2
  PIN_NUM = 1
  QUEUE_LEN = 2
  Faults = {}
  GATE_QUEUE_LEN = 1
  Commands <- OpenOnly
  Plant = "driven"

PROPERTIES
  MotorUntilSignal
