SPECIFICATION Spec
CONSTANTS
  MaxAddr = 1
  MieValues <- OneOfTwo
  Exceptions <- NoException
  MaxAhead = 1
INVARIANT WfiCanEnd
CHECK_DEADLOCK FALSE
