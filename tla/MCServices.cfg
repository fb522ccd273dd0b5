CONSTANTS
  MaxWeight = 3
  Threshold = 1
  NoWeight = NoWeight
  Sustain = 2
  ScanTimeout = 3
  StockLoading = TRUE
  Paints = {p1}
  MaxChanges = 2
  AdminRemoves = TRUE
  Channels = {mix}
  Mix = mix
  Callers = {c1, c2}
  NoChannel = NoChannel
  Unread = Unread
  MaxCalls = 2
  MaxLate = 1
  MaxQueue = 1
  MaxDrain = 1
  MaxStarts = 2
  MaxAlarms = 2
  Releases = {0, 1, 2}
  Broken = {1}
  NoRelease = NoRelease
  Unit = "none"
  MaxSessions = 2
  SessionLimit = 1
  MaxLogs = 2
  LogLimit = 1
  MaxPour = 1
  RatioBase = 2
  RatioHardener = 1
  Tolerance = 5
  Health = {TRUE, FALSE}
  MaxMixes = 1
SPECIFICATION MCSpec
INVARIANT ServicesTypeOK
INVARIANT StockAddsUp
INVARIANT ResolvedOnce
INVARIANT TriedCodeStays
INVARIANT NothingForgotten
INVARIANT BuzzerMatchesAlarm
PROPERTY AlarmsAreTrue
PROPERTY TareIsTrue
PROPERTY AlarmsComeAndGo
PROPERTY ServicesProgress
PROPERTY ManualSessionProceeds
CONSTRAINT NotStale
