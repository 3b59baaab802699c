SPECIFICATION Spec
CONSTANTS
    Orders = {o1, o2}
    o1 = o1
    o2 = o2
    OrderTerms <- MixedTerms
    Balance <- SmallBalance
    Prices = {5}
    FreezeQty = 4
    MaxBoots = 2
    MaxFaults = 1
SYMMETRY OrderSymmetry
CHECK_DEADLOCK FALSE
INVARIANTS
    TypeOK
    MarginAddsUp
    CancelledStaysOut
    BookIsBacked
    AcceptedSurvives
    RejectedStaysOut
