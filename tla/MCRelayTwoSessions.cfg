\* The upstream ends by itself.
SPECIFICATION Spec
CONSTANTS
    None = None
    Clients = {c1, c2}
    Prewarms = {}
    MaxUnits = 1
    MinTail = 1
    Faults = {"eof"}
SYMMETRY Symmetry
INVARIANTS
    OneSession
