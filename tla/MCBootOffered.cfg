SPECIFICATION Spec
CONSTANTS
  Boards <- AllBoards
  Pairs <- AnyPairs
  Hole = "hole"
  Mapping = "mapping"
  Window = 3
INVARIANT OfferedIsServed
CHECK_DEADLOCK FALSE
