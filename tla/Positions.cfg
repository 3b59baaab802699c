SPECIFICATION Spec
CONSTANTS
    Keys = {k1, k2}
    k1 = k1
    k2 = k2
    Prices = {1, 5}
    Quantities = {1, 2}
    MaxTrades = 3
    EventCap = 4
CONSTRAINT NothingDropped
SYMMETRY KeySymmetry
INVARIANTS
    TypeOK
    SharesConserved
    OneWayProfitExact
    SavedCatchesUp
