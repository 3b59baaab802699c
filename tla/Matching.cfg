SPECIFICATION MixedSpec
CONSTANTS
    Orders = {o1, o2, o3}
    o1 = o1
    o2 = o2
    o3 = o3
    NoOrder = NoOrder
    OrderTerms <- MixedTerms
    EventCap = 6
    TradeCap = 1
    LevelCap = 1
INVARIANTS
    TypeOK
    BookWellFormed
    DepthCoversOrders
    TradesWithinLimits
    FillsMatchStatus
    MarketNeverRests
    TapeInOrder
PROPERTIES
    ImplementsLedger
    CancelSticks
    ComesToRest
