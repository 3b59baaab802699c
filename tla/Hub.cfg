SPECIFICATION FairSpec
CONSTANTS
    c1 = c1
    Conns = {c1}
    Topics = {"orders", "price"}
    NoTopic = NoTopic
    OrdersTopic <- OwnOrders
    RegisterCap = 1
    BroadcastCap = 1
    SendCap = 1
    MaxCalls = 3
    MaxReads <- TwoReads
CHECK_DEADLOCK FALSE
INVARIANTS
    TypeOK
    PanicsOnlyIfSlow
    NoGaps
PROPERTIES
    GoneIsForgotten
