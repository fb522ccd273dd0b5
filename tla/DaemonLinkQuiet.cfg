CONSTANTS
  Tags = {t1}
  Callers = {c1}
  None = None
  MaxCalls = 2
  MaxDown = 2
  Env = {"outage", "quiet"}
SPECIFICATION Spec
CHECK_DEADLOCK FALSE
PROPERTY NoClientDropped
