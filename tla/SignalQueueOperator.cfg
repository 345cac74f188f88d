SPECIFICATION Spec
CONSTANTS
  Alerts = {a1}
  Manuals = {m1}
  Closes = {c1}
  None = None
PROPERTIES
  KeepsPromise
  AskedOnce
