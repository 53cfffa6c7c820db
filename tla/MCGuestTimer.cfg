SPECIFICATION LiveSpec
CONSTANTS
  Half = 3
  Cap = 8
  MaxTime = 5
  Deltas = {1, 2}
  ForeignReads = TRUE
INVARIANTS
  TimeReadIsReal
PROPERTIES
  NoEarlyTick
  TickArrives
