SPECIFICATION Spec
CONSTANTS
  lisbon = lisbon
  kyoto = kyoto
  index = index
  noTime = noTime
  Trips <- TwoTrips
  MaxSends = 2
  MaxText = 1
  MaxMoves = 2
  NoTime = noTime
  Screens <- OneScreen
  Syncs <- TwoSyncs
  MaxChanges = 2
  MaxFaults = 1
  MaxMounts = 2
INVARIANTS OutcomeShown ShownInOrder IndicatorIsTrue
PROPERTIES SendsEnd CopyCatchesUp
CHECK_DEADLOCK FALSE
