\* Two tabs whose access token runs out at the same time; no fault is needed.
SPECIFICATION Spec
CONSTANTS
  q1 = q1
  q2 = q2
  Tabs = 2
  Requests <- TwoRequests
  MaxTokens = 3
INVARIANTS StaysLoggedIn
CHECK_DEADLOCK FALSE
