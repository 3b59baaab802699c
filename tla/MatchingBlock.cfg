SPECIFICATION FairSpec
CONSTANTS
    Orders = {o1, o2, o3}
    o1 = o1
    o2 = o2
    o3 = o3
    NoOrder = NoOrder
    OrderTerms <- QueueTerms
    EventCap = 1
    TradeCap = 2
    LevelCap = 2
PROPERTIES
    AddReturns
CHECK_DEADLOCK FALSE
