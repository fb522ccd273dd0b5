CONSTANTS
  MaxPour = 2
  RatioBase = 2
  RatioHardener = 1
  Tolerance = 5
  Health = {FALSE}
  MaxSessions = 1
SPECIFICATION Spec
CHECK_DEADLOCK FALSE
INVARIANT SpecIsTrue
