SPECIFICATION Spec
CONSTANTS
  OpenDelay = 2
  DropHold = 2
  LoadDrop = 64
  HighRpmCount = 1
  OxygenTime = 1
  LowLoad = 25
  HighLoad = 100
  Loads = {20, 40, 110}
  Requests = {16, 40, 160, 255}
  Cycle = 6
  Seg1 = 1
  Seg7 = 3
  SegE = 4
  Housekeeping = 1
  PowerDown = 13
  BurnDelay = 1
  BurnTime = 2
  Ticks = 2
  W = 8
  NoEdgeLimit = 8
  Periods = {1, 6}
  Converted = {20, 60, 110, 195, 198, 203, 230}
  MinOn = 2
  LowTime = 1
  HighTime = 1
  Limit <- MCLimit
  Watchable = {13, 34, 44}
INVARIANTS
  TypeOK
  OpenLoopAirEnds
  ReleasedQuiet
  SpeedIsBounded
  FaultsEarned
PROPERTIES
  HeatsWhenEarned
  FanStaysOn
