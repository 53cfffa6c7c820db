SPECIFICATION FairSpec
CONSTANTS
  MaxAddr = 1
  MieValues <- AllOrOne
  Exceptions <- OneException
  MaxAhead = 2
INVARIANTS
  TypeOK
  NoStrandedInterrupt
  NoLostTick
PROPERTIES
  ImplementsHart
  ArmedWfiEnds
  CompletionSeen
CHECK_DEADLOCK FALSE
