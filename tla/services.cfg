SPECIFICATION FairSpec
CONSTANTS
  Calls = {k1, k2}
  People = {ann, ben, cleo}
  Owner = olga
  MaxInvites = 1
  MaxTokens = 3
  Streams = {s1, s2}
  DailyLimit = 2
  MaxTurn = 2
  MaxDay = 2
  Turns = {t1, t2}
  SummaryThreshold = 3
  RefreshInterval = 2
  RecentWindow = 3
  MaxRows = 9
  MaxFailures = 2
  MaxRequests = 2
  LimitWindow = 2
  BlockFor = 2
  MaxPending = 2
  Procedures = {chats, others}
  Burst = 1
  IpBurst = 2
  IdleAfter = 2
  MaxTime = 5
  Airports <- MCAirports
  MaxClock = 2
  MaxBookings = 3
  MinLayover = 1
  CarReturnBuffer = 1
  NewTrips = {n1, n2}
  Experts = {e1, e2}
  Capacity = 1
  MaxToolCalls = 2
  NoOne = NoOne
  Providers = {"claude", "gemini", "openai"}
  NoProvider = NoProvider
  MaxRetries = 1
  MaxCalls = 2
  MaxTexts = 2
  Room = 2
  Requests = {r1, r2}
  Jobs = {job}
  MaxStatements = 2
  Travellers = {u1, u2, u3}
  MaxSize = 2
  Ttl = 2
  Areas = {a1, a2}
  MaxEntries = 1
  NearbyTtl = 1
  Lookups = {l1}
  MaxClockTicks = 4
  NoArea = NoArea
INVARIANTS
  BoundsHold
  OrderIndependent
  ClientIsTold
  ConversationFollowsTrip
  ProviderContract
PROPERTIES
  AcceptsOwnInvite
  ForgettingIsSafe
  GoroutinesEnd
  StatementsEndFirst
CHECK_DEADLOCK FALSE
