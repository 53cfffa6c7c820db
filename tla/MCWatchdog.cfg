SPECIFICATION WatchLiveSpec
CONSTANTS
  TraceLen = 3
  TraceDumps = 2
  TotalMod = 5
  QuietLimit = 2
  MaxTraps = 7
INVARIANTS
  DumpIsHistory
PROPERTIES
  QuietIsReal
  WedgeReported
