SPECIFICATION Spec
CONSTANTS
  Source <- OneSource
  MaxPriority = 1
  VirtioSource = 11
  QueueNum = 2
  IndexSize = 4
  Tag <- TwoTags
  NoTag = NoTag
  t1 = t1
  t2 = t2
  MaxSetups = 1
  QuietReset = FALSE
CHECK_DEADLOCK FALSE
PROPERTY TornDownQueueUntouched
