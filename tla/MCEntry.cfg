\* Under fairness.
SPECIFICATION FairSpec
CONSTANTS
    a = a
    b = b
    c = c
    d = d
    v = v
    Views = {v}
    Lives = {a, b}
    Codes = {c, d}
    Foreign = Foreign
    Library = Library
    None = None
    MaxCrashes = 1
    Scopes <- AllScopes
INVARIANTS
    TypeOK
    TokenIsOwn
    CallsHaveToken
    RelayIsOwned
    FfmpegStopped
PROPERTIES
    OptionTakesEffect
    UnloadReturns
