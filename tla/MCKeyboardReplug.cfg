SPECIFICATION Spec
CONSTANTS
  Keys <- TwoKeys
  Slots = 2
  ReportWait = 2
  RepeatDelay = 5
  RepeatPeriod = 2
  MaxPresses = 2
  MaxErrors = 0
  MaxPlugs = 2
INVARIANT NoRepeatOfOldKeys
CHECK_DEADLOCK FALSE
