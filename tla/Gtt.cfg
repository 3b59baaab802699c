SPECIFICATION FairSpec
CONSTANTS
    GttTerms <- PairTerms
    MaxGtts = 3
    Prices = {0, 2, 3}
    EventCap = 1
INVARIANTS
    TypeOK
    FiresOnce
    PairFiresOnce
    OutcomeAnnounced
PROPERTIES
    ReachedIsServed
