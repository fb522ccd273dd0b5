CONSTANTS
  N = 2
  Tags = {t1, t2}
  NoTag = NoTag
  InUseAfter = 1
  ConsumedAfter = 2
  Screens = {"home", "mixing"}
  Env = {"session"}
SPECIFICATION MCFairSpec
INVARIANT TypeOK
INVARIANT OneSlotPerTag
INVARIANT TimersMatch
INVARIANT ViewMatchesShelf
PROPERTY RecordsFollow
