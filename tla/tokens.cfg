\* Two tabs, two requests at the server at once (one may have been given up by
\* its tab), three tokens of up to three logins; everything may fail or get lost.
SPECIFICATION FairSpec
CONSTANTS
  q1 = q1
  q2 = q2
  Tabs = 2
  Requests <- TwoRequests
  MaxTokens = 3
INVARIANTS SessionKept LogoutIsFinal
PROPERTIES FamiliesAreSessions EveryRefreshEnds
CHECK_DEADLOCK FALSE
