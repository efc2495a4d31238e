SPECIFICATION Spec
CONSTANTS
  width = 4
  height = 6
  ByteSize = 6
  Burst = 3
INVARIANTS
  TypeOK
  WritesContained
  RowOnScreen
  NoUpwardDrift
  CursorShown
