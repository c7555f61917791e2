SPECIFICATION SteamSpec
CONSTANTS
  overview = overview
  historic = historic
  Requests = {overview, historic}
  CacheTtl <- MCCacheTtl
  MinInterval = 1
  MaxInterval = 3
  OperatorIntervals = {2}
  Lease = 2
  LimitedRest = 2
  MaxPermits = 2
  Retries = {1}
  MaxTime = 3
  MaxTokens = 2
  Names = {a}
  Worker = worker
  History = history
  Singles = {s}
  Jobs = {1, 2}
  None = None
  AskLease = 1
  Backoff = 2
  Negative = 1
  Fresh = 1
  CacheFor = 1
  Remember = 1
  RetryAfter = {1}
  MaxReceipts = 2
  MaxMoves = 4
INVARIANTS GovernorInv AsksInv
PROPERTIES StartsPaced NeverStolen QuietKept 
\* Reservations and readings run out: the bounded system stops.
CHECK_DEADLOCK FALSE
