CONSTANTS
  Lights = {s1}
  Users = {u1, u2}
  AllSlots = AllSlots
  NoSlot = NoSlot
  MaxQueued = 2
  MaxSets = 3
  WriterTags = {w1}
  Readers = {r1, r2}
  Products = {p1}
  NoWriterTag = NoWriterTag
  MaxWrites = 2
  MaxMoves = 1
  Tries = 1
  LoadTags = {l1, l2}
  Stabilize = 16
  ReturnAfter = 6
  BufferSize = 8
  RfidEvery = 4
  MaxPuts = 2
  Labels <- TwoLabels
  Stray = {"1", "S"}
  Receivers = {1, 2, 3}
  MinLength = 5
  MaxStray = 2
  MaxScans = 2
  ShelfCans = {c1, c2}
  Places = {q1}
  NoPlace = NoPlace
  NoProduct = NoProduct
  MaxScanned = 3
  MaxDialogs = 2
  MaxPort = 3
  MaxSwaps = 2
  Channels = {ch}
  Loads = {0, 1, 9}
  NoChannel = NoChannel
  Jump = 3
  Callers = {a, b}
  CellMoves = 2
  MaxCalls = 2
  MaxFaults = 2
  Raws = {3, 5}
  Presets = {1, 2}
  WizardSteps = 5
  MaxPresses = 4
  KivySessions = 3
  MaxPour = 1
  RatioBase = 2
  RatioHardener = 1
  Tolerance = 5
  Health = {TRUE, FALSE}
  MaxMixes = 2
  MaxPlays = 2
  NoData = NoData
  NotCached = NotCached
  SerialPorts = {y1, y2}
  MaxChanges = 2
  Keys = {k1, k2, k3}
  NoKey = NoKey
  Torn = Torn
  MaxCopies = 2
  MaxBackups = 5
  MaxSetBacks = 1
  MaxBuffer = 2
  MaxLines = 5
  Attempts = 2
  Launchers = {la, lb}
  Daemons = {da, db}
  NoDaemon = NoDaemon
  Segments = 1
  Percents = {40, 50, 150}
  StableWindow = 2
  MaxZeros = 2
  FanTemps = {38, 39, 40, 55, 70}
  FanThresholds = {40, 50, 70}
  FanSpeedAt <- FanCurve
  FanOffTemp = 38
  N = 2
  Tags = {t1, t2}
  NoTag = NoTag
  InUseAfter = 1
  ConsumedAfter = 2
  Screens = {"home"}
  Env = {"missed_reads", "restart"}
  Paints = {"pa", "pb", "pc"}
  KnownPaints = {"pa", "pb"}
  PaintLayers <- ChartLayers
  PaintCoverage <- ChartCoverage
  UsualCoverage = 6
  PaintRatio <- ChartRatio
  UsualRatio <- FourToOne
  PaintsAlike <- ChartAlike
  PaintSurfaces = {0, 2, 100}
  KivyMixed = {"pa"}
  KivyUnmixed = {"pb"}
  KivySurfaces = {10}
SPECIFICATION CabinetSpec
INVARIANT CabinetTypeOK
INVARIANT SignalsAreTrue
INVARIANT UpkeepHolds
INVARIANT BaseWeightIsTrue
INVARIANT ScreenFollowsEngine
INVARIANT HardwareIsShared
PROPERTY PourIsGuided
PROPERTY TagsAreTrue
PROPERTY ReadersTellSlots
PROPERTY CansCountOnce
PROPERTY ReadingsAreTrue
PROPERTY PanelsAreTrue
PROPERTY TrackerTellsCustody
CONSTRAINT BeforeMixUps
CONSTRAINT FewWrites
