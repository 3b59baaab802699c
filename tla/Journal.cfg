SPECIFICATION Spec
CONSTANTS
    o1 = o1
    o2 = o2
    o3 = o3
    Orders = {o1, o2, o3}
    Resting = {o1}
    Terms <- TwoDays
    TradeCap = 1
    PassCap = 1
    WriteCap = 2
    BatchSize = 2
    RecentCap = 2
    MaxTrades = 3
    MaxBoots = 2
    MaxRuns = 2
    MaxErrors = 1
CHECK_DEADLOCK FALSE
INVARIANTS
    TypeOK
    TradesRecorded
    RecentAreNewest
    RowsCatchUp
    BilledWereFilled
    BuysEqualSells
