SPECIFICATION Spec

CONSTANTS
  PORT_NUM = 2
  PIN_NUM = 1
  QUEUE_LEN = 2
  Faults = {"heap"}
  GATE_QUEUE_LEN = 2
  Commands <- AnyInImage
  Plant = "free"

VIEW LatchlessView

INVARIANTS
  TypeOK
  HandshakeInv
  OutputQueueNeverFull

PROPERTIES
  ImplementsService
  ImplementsIoDriver
