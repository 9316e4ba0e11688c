\* Requests only: a job adds nothing to what becomes of them.
SPECIFICATION ShutdownSpec
CONSTANTS
  r1 = r1
  r2 = r2
  Requests = {r1, r2}
  Jobs = {}
  MaxStatements = 2
INVARIANTS RequestsEndFirst
CHECK_DEADLOCK FALSE
