SPECIFICATION Spec
CONSTANTS
  Boards <- CleanBoards
  Pairs <- AnyPairs
  Hole = "hole"
  Mapping = "mapping"
  Window = 3
INVARIANT NoStalePlaceholder
CHECK_DEADLOCK FALSE
