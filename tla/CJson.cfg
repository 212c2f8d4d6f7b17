SPECIFICATION JsonSpec

CONSTANTS
  Inputs <- TheInputs
  CJSON_NESTING_LIMIT = 3
  default_buffer_size = 4

INVARIANTS
  JsonTypeOK
  Owned
  InBounds
  PrintsRight
  MinifyKeepsStrings
  Faithful
  Accepts
  FindsFirst
