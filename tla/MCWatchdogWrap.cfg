SPECIFICATION WatchSpec
CONSTANTS
  TraceLen = 2
  TraceDumps = 1
  TotalMod = 4
  QuietLimit = 2
  MaxTraps = 5
INVARIANT DumpEndsWithTrap
