SPECIFICATION Spec
CONSTANTS
    Orders = {o1, o2}
    o1 = o1
    o2 = o2
    OrderTerms <- LimitTerms
    Balance <- SmallBalance
    Prices = {5}
    FreezeQty = 4
    MaxBoots = 2
    MaxFaults = 1
SYMMETRY OrderSymmetry
CHECK_DEADLOCK FALSE
INVARIANTS
    OpenWithinBalance
