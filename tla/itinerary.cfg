SPECIFICATION FairSpec
CONSTANTS
  c1 = c1
  c2 = c2
  p1 = p1
  x = x
  Owner = Owner
  Calls <- TwoCalls
  People <- OnePerson
  Titles <- OneTitle
  Lists <- UpToTwo
  MaxInvites = 1
  MaxTokens = 1
  MaxItems = 3
INVARIANTS DeletedOnce OneItemPerBooking
PROPERTIES RemovedEditorIsOut AllOrNothing EveryEditEnds
CHECK_DEADLOCK FALSE
