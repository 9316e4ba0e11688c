\* One trip with two sessions, two UpdateTrip handlers at once and three
\* requests in all; two deletion requests of one user, the jobs of two servers
\* and two retries instead of five; everything may fail and the servers may stop.
SPECIFICATION FairSpec
CONSTANTS
  s1 = s1
  s2 = s2
  u1 = u1
  u2 = u2
  q1 = q1
  q2 = q2
  j1 = j1
  j2 = j2
  Sessions <- TwoSessions
  Handlers <- TwoHandlers
  MaxUpdates = 3
  Retains = TRUE
  TripFaults = TRUE
  Requests <- TwoRequests
  Jobs <- TwoJobs
  NoRequest = NoRequest
  MaxRetries = 2
  Faults = TRUE
INVARIANTS FailedAfterAllRetries RetriesBounded
PROPERTIES ArchivalClockNotReset NewDeadlinesNeedEnd JobsGetThere EveryDeletionSettles
CHECK_DEADLOCK FALSE
