\* Two readers and the worker, two publications, two reads, two clock readings;
\* two pages of which only one fits beside the other, one commit; three
\* portfolios of which the cache keeps two.
SPECIFICATION MCSpec
CONSTANTS
  r1 = r1
  r2 = r2
  worker = worker
  Readers = {r1, r2}
  Ttl = 1
  PriceRest = 2
  ValueRest = 1
  Bucket = 2
  MaxTime = 1
  MaxRevision = 2
  MaxReads = 2
  Askers = {1, 2}
  small = small
  large = large
  Keys = {small, large}
  Size <- PageSize
  MaxEntryBytes = 2
  MaxBytes = 2
  MaxEntries = 2
  MaxFlights = 1
  MaxSaved = 1
  MaxCalls = 3
  MaxUnreadable = 1
  p1 = p1
  Portfolios = {p1, p2, p3}
  MaxCommits = 2
  MaxLooks = 4
  MaxFailures = 2
SYMMETRY Alike
INVARIANTS ReadsInv ValuesFresh SliceInv HoldingsInv
PROPERTY ClosesTrue
CHECK_DEADLOCK FALSE
