SPECIFICATION Spec
CONSTANTS
  Levels = {1}
  Alloc <- AllToLevelOne
  N = 1
  MaxIndex = 1
  Closes = {c1, c2}
  Kind <- KindDef
  PartialQty = 1
  None = None
  c1 = c1
INVARIANTS
  TypeOK
  LiveLegTracked
PROPERTIES
  FlattenAlone
