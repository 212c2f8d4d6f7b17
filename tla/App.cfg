SPECIFICATION AppFairSpec

CONSTANTS
  MAXIMUM_RETRY = 10
  NUM_GATES = 2
  BootFaults = {"nvs", "heap"}

INVARIANTS
  SettingsPrintable
  GivesUpOnce

PROPERTIES
  NvsIsNeverErased
  BootReachesLoop
