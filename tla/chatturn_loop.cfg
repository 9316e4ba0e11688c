\* One turn, the whole tool loop with both special tools; writes fail on their
\* own and others delete the session.
SPECIFICATION FairSpec
CONSTANTS
  t1 = t1
  t2 = t2
  s1 = s1
  s2 = s2
  NoSession = NoSession
  Turns <- OneTurn
  Sessions <- OneSession
  Tools <- PlanningTools
  MaxIter = 2
  MaxFab = 2
  Planning = TRUE
  Gemini = FALSE
  StoreFaults = TRUE
  OtherDeletes = TRUE
INVARIANTS TurnOrder ShownIsStored
PROPERTIES EveryTurnEnds KeepsContract
CHECK_DEADLOCK FALSE
