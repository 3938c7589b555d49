SPECIFICATION StreamFairSpec
CONSTANTS
  Bits = 2
  NormalLast = 2
  DiagEnd = 6
  StartIndex = 6
  FactoryEnd = 4
  Restart = 255
  CounterLimit = 4
  ExerciseEvery = 2
  OffLimit = 2
  BootTimer = 3
  MaxResets = 2
INVARIANTS
  StreamTypeOK
PROPERTIES
  FrameInOrder
  SyncRecurs
