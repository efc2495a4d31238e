SPECIFICATION Spec
CONSTANTS
  HDR = 2
  Heap = 4
  Setups <- Roomy
  BootRequest = 5
  Requests = {4, 8}
  Margin = 18
  MaxHeld = 3
INVARIANT NoDoubleAllocation
CHECK_DEADLOCK FALSE
