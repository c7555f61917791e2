SPECIFICATION Spec
CONSTANTS
    steam = steam
    buff163 = buff163
    Names = {a}
    Prices <- MCPrices
    Order <- MCOrder
    AutoSync = AutoSync
    Asked = {Asked}
    Interval = 1
    Bucket = 2
    None = None
    MaxTime = 3
    MaxMoves = 1
INVARIANT MissingGone
CHECK_DEADLOCK FALSE
