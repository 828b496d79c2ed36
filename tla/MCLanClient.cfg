\* Under fairness; the doorbell may stay silent for ever.
SPECIFICATION FairSpec
CONSTANTS
    Clients = {a, b}
    NoClient = NoClient
INVARIANTS
    TypeOK
    SocketsAccounted
    StaleStartsNothing
    PumpSeesNoError
PROPERTIES
    CloseFreesReader
    LockIsReleased
