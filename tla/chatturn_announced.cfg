\* A turn that announced its answer, and its session.
SPECIFICATION Spec
CONSTANTS
  t1 = t1
  t2 = t2
  s1 = s1
  s2 = s2
  NoSession = NoSession
  Turns <- OneTurn
  Sessions <- OneSession
  Tools <- OtherTools
  MaxIter = 2
  MaxFab = 0
  Planning = FALSE
  Gemini = FALSE
  StoreFaults = FALSE
  OtherDeletes = FALSE
INVARIANTS AnnouncedSessionKept
CHECK_DEADLOCK FALSE
