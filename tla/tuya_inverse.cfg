SPECIFICATION MappingSpec
CONSTANTS
  Mappings <- OnlyInverse
  DimmerMin = 0
  DimmerMax = 100
  PointValues = {0, 1}
  UserValues = {0, 1}
  MaxMoves = 2
  MaxPackets = 2
PROPERTY NoEcho
CHECK_DEADLOCK FALSE
