SPECIFICATION FairSpec
CONSTANTS
  Levels = {1, 2, 3}
  Policy <- BreakevenThenTrail
  Entry = 2
  StopTrigger = 1
  MaxTrigger = 3
  Placements <- OneStopAstray
  None = None
INVARIANTS
  TypeOK
  HigherTriggerInDoubt
  DoubtSurfaced
PROPERTIES
  RatchetOnly
  OneCallPerLeg
  AppliedReachesEveryStop
  TransitionResolves
