SPECIFICATION Spec
CONSTANTS
  Keys = {k1}
  Payloads = {p1}
  SlotOf <- SlotOfDef
  Qty = 2
  None = None
INVARIANTS
  NoFillMeansNoFill
