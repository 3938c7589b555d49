SPECIFICATION Spec
CONSTANTS
  Limit <- MCLimit
  Watchable = {34}
INVARIANTS
  Err34NeedsLowMaf
