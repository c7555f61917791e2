\* Two Skinport feeds, or csfloat and steam.
SPECIFICATION PairsSpec
CONSTANTS
  live = live
  sales = sales
  csfloat = csfloat
  steam = steam
  Cadence <- MCCadence
  Lease = 2
  OriginGap = 2
  DelayCap = 3
  FailCap = 2
  WireMax = 1
  LockWait = 1
  Retries = {0, 2}
  MaxSteps = 1
  Providers = {live, sales, csfloat, steam}
  Skinport = {live, sales}
  PerItem = {csfloat}
  Switchable = {steam}
  MaxTime = 5
  MaxTokens = 3
INVARIANTS GateInv NoOverlap
PROPERTIES PacedAdmission DeadlinesOnlyRecede
\* Time and requests run out: the bounded system stops.
CHECK_DEADLOCK FALSE
