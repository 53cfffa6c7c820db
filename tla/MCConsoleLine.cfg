SPECIFICATION Spec
CONSTANTS
  Source <- BothSources
  MaxPriority = 1
  UartSource = 10
  VirtioSource = 11
  RingSize = 3
  FifoSize = 1
  MaxBytes = 1
INVARIANTS
  TypeOK
  LevelNotLost
  NoStalePending
PROPERTY RingIsChannel
