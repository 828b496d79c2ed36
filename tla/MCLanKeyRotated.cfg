\* The doorbell is paired anew while its old key is cached.
SPECIFICATION Spec
CONSTANTS
    MaxPairings = 3
    Ttl = 5
    RefreshEvery = 2
INVARIANT RefetchedOnConnect
