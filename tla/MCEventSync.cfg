CONSTANTS
  MaxEvents = 3
  BatchSize = 2
  MaxRetries = 2
  Poison = {1}
  MaxBoots = 3
  Publishers = 2
  Env = {"ws", "outage", "lost", "unsaved"}
SPECIFICATION MCSpec
CHECK_DEADLOCK FALSE
INVARIANT TypeOK
INVARIANT OnlyStuckAreDropped
INVARIANT PoisonTakesNobody
INVARIANT CloudLearnsInOrder
PROPERTY Delivers
PROPERTY QueueMoves
