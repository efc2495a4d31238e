SPECIFICATION Spec
CONSTANTS
  Irqs = {0, 1, 6, 8, 12}
  Ticks = 2
INVARIANTS
  TypeOK
  NoStrayVector
  NothingLeftInService
PROPERTIES
  KeysRead
  TicksCounted
