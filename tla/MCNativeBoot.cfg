SPECIFICATION Spec
CONSTANTS
  Boards <- MCBoards
  Page = 2
  DtbPa = 5
  Others <- MCOthers
  MaxRestarts = 2
INVARIANT
  LinuxIsPrepared
CHECK_DEADLOCK FALSE
