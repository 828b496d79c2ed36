\* Every fault; two viewers, sessions of two chunks, under fairness.
SPECIFICATION FairSpec
CONSTANTS
    None = None
    Clients = {c1, c2}
    Prewarms = {}
    MaxUnits = 2
    MinTail = 1
    Faults = {"lan_failure", "eof", "broken_pipe"}
INVARIANTS
    TypeOK
    RelayConsistent
    LeakOnlyAfterEof
    SeenIsFresh
    EntityShowsRelay
PROPERTIES
    ImplementsUpstream
    InOrder
    AbandonedEnds
    StopReturns
