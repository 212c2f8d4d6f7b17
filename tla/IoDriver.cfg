SPECIFICATION IoFairSpec

CONSTANTS
  PORT_NUM = 2
  PIN_NUM = 1
  QUEUE_LEN = 2
  Faults = {"bus", "i2c", "heap"}

VIEW BlindView

INVARIANTS
  IoTypeOK
  LatchFollowsShadow
  AllOffAfterReset

PROPERTIES
  NothingStartsUncommanded
  QueuedIsServed
