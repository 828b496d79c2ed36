\* No fault.
SPECIFICATION Spec
CONSTANTS
    None = None
    Clients = {c1, c2}
    Prewarms = {}
    MaxUnits = 1
    MinTail = 1
    Faults = {}
SYMMETRY Symmetry
PROPERTIES
    AttachingKeepsSession
