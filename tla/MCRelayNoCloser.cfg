\* A write to a viewer that has left breaks.
SPECIFICATION Spec
CONSTANTS
    None = None
    Clients = {c1, c2}
    Prewarms = {}
    MaxUnits = 1
    MinTail = 1
    Faults = {"broken_pipe"}
SYMMETRY Symmetry
INVARIANTS
    WarmHasCloser
