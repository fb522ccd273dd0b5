CONSTANTS
  N = 2
  Tags = {t1, t2}
  NoTag = NoTag
  InUseAfter = 1
  ConsumedAfter = 2
  Screens = {"home", "tag_writer", "stock_loading", "shelf_map"}
  Env = {"outage", "restart"}
SPECIFICATION MCSpec
INVARIANT SlotsTellTheShelf
SYMMETRY TagSymmetry
