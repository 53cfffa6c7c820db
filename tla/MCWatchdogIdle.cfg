SPECIFICATION WatchSpec
CONSTANTS
  TraceLen = 2
  TraceDumps = 1
  TotalMod = 5
  QuietLimit = 2
  MaxTraps = 2
PROPERTY NoCryAtIdle
