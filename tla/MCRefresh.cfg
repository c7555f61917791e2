\* A feed and csfloat, or the two sources of Skinport; one fault.
SPECIFICATION MCFairSpec
CONSTANTS
  sales = sales
  live = live
  waxpeer = waxpeer
  csfloat = csfloat
  Order <- AllOrder
  Reference = {sales}
  PerItem = {csfloat}
  Skinport = {sales, live}
  MaxFaults = 1
INVARIANT RefreshInv
PROPERTIES BulkSourcesEnd BulkRequestEnds
