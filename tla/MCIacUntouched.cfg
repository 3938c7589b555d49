SPECIFICATION UntouchedSpec
CONSTANTS
  Byte = 10
  Park = 5
  HousekeepingCount = 1
  PowerdownCount = 14
  LostPositions <- Anywhere
  ToolPresent = TRUE
INVARIANTS
  BelievedIsReal
  ReleasedUntouched
PROPERTIES
  MarkedOnlyParked
  HomingEnds
