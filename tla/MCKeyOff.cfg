SPECIFICATION Spec
CONSTANTS
  ByteMod = 12
  MinorPeriod = 8
  MajorLoop = 4
  AAByte = 10
  HousekeepingCount = 2
  PowerdownCount = 7
  StartupLoops = 2
  NoRefLimit = 1
  RuntimeMod = 3
  AAWord = 2
INVARIANTS
  RunTimeNeedsNV
PROPERTIES
  ImplementsAbs
  PowersDown
  EngineCatches
