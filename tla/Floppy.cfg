SPECIFICATION Spec
CONSTANTS
  Lbas = {10, 36, 71, 2879}
  Cyls = {0, 1, 79}
  Junk = {0, 1, 255}
  Polls = 2
  Tries = 2
INVARIANTS
  TypeOK
  InStep
  WaitsAnswered
  ReadPrepared
  PanicJustified
PROPERTIES
  InitReturns
CHECK_DEADLOCK FALSE
