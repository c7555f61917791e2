SPECIFICATION MCSpec
CONSTANTS
  Keys = {1, 2}
  Versions = {1, 2}
  Runs = {p, q}
  None = None
  MaxReceipts = 5
  MaxMoves = 1
  steam = steam
  buff163 = buff163
  Names = {a}
  Prices <- MCPrices
  Order <- MCOrder
  AutoSync = AutoSync
  Asked = {Asked}
  Interval = 1
  Bucket = 2
  MaxTime = 3
  MarketMoves = 1
  Gens <- MCGens
  Readers = {r1}
  MaxGenerations = 3
  RoleMoves = 5
  Papers = {f, g}
  Shapes = {narrow, wide}
  IndexMoves = 2
INVARIANTS MigrationInv ReportsTrue MarketInv LifecycleInv IndexInv
PROPERTY NoOlder
CHECK_DEADLOCK FALSE
