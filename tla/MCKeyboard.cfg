SPECIFICATION LiveSpec
CONSTANTS
  Keys <- ThreeKeys
  Slots = 2
  ReportWait = 2
  RepeatDelay = 5
  RepeatPeriod = 2
  MaxPresses = 5
  MaxErrors = 1
  MaxPlugs = 2
INVARIANTS
  BufferStable
  OncePerPress
  RepeatOnlyWhileHeld
PROPERTY EveryPressTyped
CHECK_DEADLOCK FALSE
