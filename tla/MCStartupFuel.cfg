SPECIFICATION Spec
CONSTANTS
  FPeriod = 8
  StartCount = 2
  StartupLoops = 1
  PulsesPerService = 2
  MaxPulses = 2
  Unit = 2
  Levels <- MCLevels
  Delays <- MCDelays
  Repeats <- MCRepeats
  Decays <- MCDecays
INVARIANTS
  ServedAtOnce
  FreshStart
PROPERTIES
  ResumedNotRaised
  EnrichmentEnds
