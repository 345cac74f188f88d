SPECIFICATION FairSpec
CONSTANTS
  Alerts = {a1, a2}
  Manuals = {}
  Closes = {}
  None = None
INVARIANTS
  TypeOK
  CapturedStaysCaptured
PROPERTIES
  KeepsPromise
  OutlivedNeverRuns
  EveryAlertSettled
