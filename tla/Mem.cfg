SPECIFICATION Spec
CONSTANTS
  HDR = 2
  Heap = 4
  Setups <- MCSetups
  BootRequest = 5
  Requests = {4, 8}
  Margin = 18
  MaxHeld = 3
INVARIANTS
  TypeOK
  LifoNoDoubleAllocation
  AreasDisjoint
PROPERTIES
  MallocReturns
CHECK_DEADLOCK FALSE
