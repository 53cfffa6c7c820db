SPECIFICATION RequestSpec
CONSTANTS
  Types <- AllTypes
  MaxSegments = 2
  Lengths <- SomeLengths
  BounceSectors = 2
  CardSectors = 6
  SectorMod = 8
  FirstSectors <- SomeSectors
CHECK_DEADLOCK FALSE
INVARIANT SectorsAreNamed
