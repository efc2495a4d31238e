SPECIFICATION CopySpec
CONSTANTS
  Top = 5
  Bytes = {0, 1, 2}
INVARIANTS
  CallTypeOK
  Moved
PROPERTIES
  Returns
CHECK_DEADLOCK FALSE
