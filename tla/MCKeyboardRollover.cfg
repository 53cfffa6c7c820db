SPECIFICATION Spec
CONSTANTS
  Keys <- ThreeKeys
  Slots = 2
  ReportWait = 2
  RepeatDelay = 5
  RepeatPeriod = 2
  MaxPresses = 4
  MaxErrors = 0
  MaxPlugs = 1
PROPERTY NeverTwice
CHECK_DEADLOCK FALSE
