SPECIFICATION Spec
CONSTANTS
    Orders = {o1, o2, o3}
    o1 = o1
    o2 = o2
    o3 = o3
    NoOrder = NoOrder
    OrderTerms <- CrossTerms
    EventCap = 6
    TradeCap = 2
    LevelCap = 2
SYMMETRY OrderSymmetry
INVARIANTS
    UncrossedAtRest
