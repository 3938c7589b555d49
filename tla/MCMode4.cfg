SPECIFICATION Spec
CONSTANTS
  Commands <- SomeCommands
  Timeout = 3
  Byte = 7
PROPERTIES
  OverridesAttended
  CommandsOnce
  AttendedStays
  AbandonedEnds
