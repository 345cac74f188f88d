SPECIFICATION Spec
CONSTANTS
  Policies <- PoliciesDef
  Capitals = {None, 20000, 95000, 150000}
  Strikes <- StrikesDef
  Spots = {20, 25, 33}
  Premiums = {80, 150, 240}
  Quotes <- QuotesDef
  TargetLo = 100
  TargetHi = 250
  CandidateCount = 3
  MinPremium = 100
  MaxPremium = 50000
  MaxSpread = 25
  MaxSpreadPercent = 20
  SlipCents = 10
  SlipPercent = 5
  MaxContracts = 5
  Rules <- NickelDime
  Multiplier = 100
  Distances = {10, 150}
  None = None
CHECK_DEADLOCK FALSE
INVARIANTS
  TypeOK
  StrikeWithinBand
  DebitWithinCapital
  LimitBest
  AllocationExact
  ExitsBracketEntry
