SPECIFICATION Spec
CONSTANTS
    o1 = o1
    o2 = o2
    o3 = o3
    Orders = {o1, o2}
    Resting = {o1}
    Terms <- OneFill
    TradeCap = 1
    PassCap = 1
    WriteCap = 2
    BatchSize = 2
    RecentCap = 2
    MaxTrades = 1
    MaxBoots = 1
    MaxRuns = 0
    MaxErrors = 0
CHECK_DEADLOCK FALSE
INVARIANTS
    EveryTradeStored
