SPECIFICATION FairSpec
CONSTANTS
  MaxVal = 4
  RELAY_DELAY = 2
  DefaultTime = 9
  RunTimes <- MCRunTimes
  FullSwing = 6
  Targets <- MCTargets
  IntMax = 2
  MaxElapsed = 9
INVARIANTS TypeOK MovesAsBelieved KnownMovementEnds DriftBound
PROPERTIES RelayInterlock ReachesTarget
