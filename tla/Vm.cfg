SPECIFICATION Spec
CONSTANTS
  Length = 3
  LongLength = 5
  Programs <- MCPrograms
  HeapSize = 50
  Junk = {0, 9}
INVARIANTS
  TypeOK
  ExecutesAsAssembled
PROPERTIES
  PlainProgramsHalt
CHECK_DEADLOCK FALSE
