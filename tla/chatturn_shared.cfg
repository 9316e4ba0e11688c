\* Two turns that share a session; the store works.
SPECIFICATION Spec
CONSTANTS
  t1 = t1
  t2 = t2
  s1 = s1
  s2 = s2
  NoSession = NoSession
  Turns <- TwoTurns
  Sessions <- OneSession
  Tools <- OtherTools
  MaxIter = 1
  MaxFab = 0
  Planning = FALSE
  Gemini = FALSE
  StoreFaults = FALSE
  OtherDeletes = FALSE
INVARIANTS AnswerKept AnswersHaveQuestions
SYMMETRY TurnSymmetry
CHECK_DEADLOCK FALSE
