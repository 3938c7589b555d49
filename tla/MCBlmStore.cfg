SPECIFICATION Spec
CONSTANTS
  Cells = {0, 9}
  Idle = 0
  NonIdle = 9
  BlmMin = 1
  BlmMax = 4
  SamLow = 2
  SamHigh = 3
  Neutral = 2
  UpdateAmount = 1
  UpdateCount = 3
  ByteMax = 5
  FillByte = 5
  HousekeepingCount = 1
  PowerdownCount = 12
  TailSlots = {0, 3}
  HalfPeriod = 3
INVARIANTS
  TrimUsable
  CommitStands
PROPERTIES
  LearnsSettledCell
