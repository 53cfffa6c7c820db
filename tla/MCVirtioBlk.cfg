SPECIFICATION FairSpec
CONSTANTS
  Source <- OneSource
  MaxPriority = 1
  VirtioSource = 11
  QueueNum = 2
  IndexSize = 4
  Tag <- TwoTags
  NoTag = NoTag
  t1 = t1
  t2 = t2
  MaxSetups = 2
  QuietReset = TRUE
CHECK_DEADLOCK FALSE
INVARIANTS
  NoLostKick
  NoLostCompletion
  LineIsStatus
PROPERTIES
  ImplementsDisk
  EveryRequestCompletes
