SPECIFICATION Spec
CONSTANTS
  EntryCount = 2
  Lockout = 3
  Pulses = 2
  Injects = 2
PROPERTIES
  ReentryWaits
  EntryTimed
  OneStallShot
  CrankIsFuelled
  LimitingEnds
