\* A bulk feed and csfloat, no fault: csfloat may have nothing to ask.
SPECIFICATION FairSpec
CONSTANTS
  sales = sales
  live = live
  waxpeer = waxpeer
  csfloat = csfloat
  Order <- FeedOrder
  Reference = {}
  PerItem = {csfloat}
  Skinport = {}
  MaxFaults = 0
PROPERTY EveryRequestEnds
