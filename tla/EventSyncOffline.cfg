CONSTANTS
  MaxEvents = 3
  BatchSize = 2
  MaxRetries = 2
  Poison = {}
  MaxBoots = 1
  Publishers = 2
  Env = {"outage"}
SPECIFICATION Spec
CHECK_DEADLOCK FALSE
INVARIANT NoEventLost
