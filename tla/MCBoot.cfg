SPECIFICATION LiveSpec
CONSTANTS
  Boards <- AllBoards
  Pairs <- AnyPairs
  Hole = "hole"
  Mapping = "mapping"
  Window = 3
INVARIANTS
  GuestIsWhole
  StackNotReused
  NoStrayTrap
PROPERTIES
  NothingMovesUnderGuest
  GuestStarts
CHECK_DEADLOCK FALSE
