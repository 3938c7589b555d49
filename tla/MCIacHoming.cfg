SPECIFICATION Spec
CONSTANTS
  Byte = 10
  Park = 5
  HousekeepingCount = 1
  PowerdownCount = 3
  LostPositions <- Anywhere
  ToolPresent = TRUE
PROPERTIES
  OpenPhaseEnds
