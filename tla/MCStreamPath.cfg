\* Streams of five frames; trims happen before and after the first keyframe.
SPECIFICATION Spec
CONSTANTS
    Length = 5
    Wires <- MCWires
    MaxPending = 8
    Lookback = 2
    MaxRead = 4
    TrimTarget = 6
    MinOffset = 2
    MinTail = 3
CHECK_DEADLOCK FALSE
INVARIANTS
    FeedIsOneShot
    BuffersBounded
    SnapshotUntrimmed
    SeenIsComplete
