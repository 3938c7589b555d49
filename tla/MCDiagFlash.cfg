SPECIFICATION FlashSpec
CONSTANTS
  Masked <- CodeMasks
  Errors <- SomeErrors
  Blank = 2
  Blink = 1
  Gap = 2
INVARIANTS
  FlashedTrue
PROPERTIES
  EveryCodeThreeTimes
  KeepsFlashing
