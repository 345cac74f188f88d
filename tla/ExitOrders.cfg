SPECIFICATION FairSpec
CONSTANTS
  Levels = {1, 2}
  Alloc <- AllToLevelOne
  N = 2
  MaxIndex = 2
  Closes = {}
  Kind <- KindDef
  PartialQty = 1
  None = None
  c1 = c1
INVARIANTS
  SellsCovered
  LiveLegTracked
PROPERTIES
  OneOrderPerSlice
  EventuallyProtected
