\* One reader is enough.
SPECIFICATION Spec
CONSTANTS
  r1 = r1
  r2 = r2
  worker = worker
  Readers = {r1, r2}
  Ttl = 1
  PriceRest = 2
  ValueRest = 1
  Bucket = 2
  MaxTime = 1
  MaxRevision = 1
  MaxReads = 2
PROPERTY AnalysesFresh
CHECK_DEADLOCK FALSE
