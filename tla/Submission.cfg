SPECIFICATION Spec
CONSTANTS
  Keys = {k1, k2}
  Payloads = {p1, p2}
  SlotOf <- SlotOfDef
  Qty = 2
  None = None
SYMMETRY Symmetry
INVARIANTS
  TypeOK
  AtMostOneOrder
  LiveOrderAccounted
  NoConcurrentEntries
  AnswersTrue
PROPERTIES
  NoEntryWhileUnknown
  VerdictsFinal
