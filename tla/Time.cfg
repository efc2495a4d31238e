SPECIFICATION Spec
CONSTANTS
  Starts <- MCStarts
  Beyond = {0, 100}
  Naps = {1, 3}
  MaxTicks = 6
INVARIANTS
  TypeOK
  TornTimeBounded
  SleepNotShort
PROPERTIES
  SleepReturns
