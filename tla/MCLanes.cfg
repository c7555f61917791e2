\* One reader and room for two generations; two portfolios and an old process
\* beside the new one, an hour being two intervals.
SPECIFICATION LanesSpec
CONSTANTS
  Readers = {r1}
  Capacity = 2
  Batches = 1
  Windows = 1
  MaxWrites = 1
  MaxExternal = 1
  MaxRestarts = 1
  MaxHeadMoves = 1
  MaxFaults = 1
  Folios = {A, B}
  Versions = {v, w}
  Owners = {1, 2, 3}
  Ids = {1, 2, 3, 4, 5, 6, 7}
  None = None
  Admission = 1
  Uncertain = 2
  RetryAfter = {1, 3}
  MaxMoves = 3
INVARIANTS GenerationsInv CurrentIsTrue CashInv
PROPERTIES PendingServed CashSteps CadenceServes
CHECK_DEADLOCK FALSE
