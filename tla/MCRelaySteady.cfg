\* The upstream does not end by itself and no write breaks; under fairness.
SPECIFICATION FairSpec
CONSTANTS
    None = None
    Clients = {c1, c2}
    Prewarms = {p1}
    MaxUnits = 2
    MinTail = 1
    Faults = {"lan_failure"}
INVARIANTS
    OneSession
    WarmHasCloser
PROPERTIES
    IdleSessionEnds
