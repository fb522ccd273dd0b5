CONSTANTS
  Tags = {t1}
  Callers = {c1}
  None = None
  MaxCalls = 2
  MaxDown = 2
  Env = {"outage", "quiet"}
SPECIFICATION FairSpec
CHECK_DEADLOCK FALSE
INVARIANT TypeOK
INVARIANT CacheMatches
INVARIANT OwnAnswer
PROPERTY ClientFollows
