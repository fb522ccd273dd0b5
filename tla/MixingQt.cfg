CONSTANTS
  MaxPour = 2
  RatioBase = 2
  RatioHardener = 1
  Tolerance = 5
  Health = {TRUE}
  MaxSessions = 1
SPECIFICATION FairSpec
CHECK_DEADLOCK FALSE
PROPERTY SessionProceeds
