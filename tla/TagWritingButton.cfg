CONSTANTS
  Tags = {t1}
  Readers = {r1, r2}
  Products = {p1}
  NoTag = NoTag
  MaxWrites = 1
  MaxMoves = 0
  Tries = 1
SPECIFICATION FairSpec
PROPERTY ButtonReturns
