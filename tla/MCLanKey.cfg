\* A time to live of 30 minutes, a refresh every 12.
SPECIFICATION FairSpec
CONSTANTS
    MaxPairings = 3
    Ttl = 5
    RefreshEvery = 2
INVARIANTS
    TypeOK
    StaleIsBounded
    WarmUnlessFailing
PROPERTIES
    KeyCatchesUp
