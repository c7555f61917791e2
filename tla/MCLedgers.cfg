\* Three kinds of source, two items, three receipt times, four publications;
\* two names, three times; two batches of which one warms charts, three revisions, one failure or write of others.
SPECIFICATION LedgersSpec
CONSTANTS
  waxpeer = waxpeer
  csfloat = csfloat
  steam = steam
  redline = redline
  awp = awp
  cheap = cheap
  dear = dear
  Subjects = {redline, awp}
  Facts = {cheap, dear}
  Feeds = {waxpeer}
  ItemSources = {csfloat}
  OtherSources = {steam}
  MaxTime = 3
  MaxRevision = 4
  MaxCaptures = 4
  Names = {a, b}
  None = None
  Outcomes <- MCOutcomes
  Floor <- MCFloor
  medal = medal
  key = key
  steamKey = steamKey
  Charted = {medal, key}
  ChartNames = {medal, key, steamKey}
  Batches = {p, q}
  Warming = {p}
  Limit = 1
  ChartTime = 2
  Revisions = 3
  MaxStarts = 2
  MaxMoves = 1
SYMMETRY Interchangeable
INVARIANTS LedgerInv FactsInv HistoryInv
PROPERTIES KeepsPromise Honest Unshrunk KeptCurrent
\* Receipt times and publications run out: the bounded system stops.
CHECK_DEADLOCK FALSE
