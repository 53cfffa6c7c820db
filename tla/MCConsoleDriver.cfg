SPECIFICATION DriverSpec
CONSTANTS
  Source <- BothSources
  MaxPriority = 1
  UartSource = 10
  VirtioSource = 11
  RingSize = 3
  FifoSize = 2
  MaxBytes = 4
  MaxTx = 2
INVARIANTS
  NobodyCaredNever
  SnapshotCovered
  WireOrder
PROPERTIES
  InputDrains
  OutputDrains
