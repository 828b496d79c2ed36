\* A sensor with a button, and a kind of alarm without a sensor.
SPECIFICATION FairSpec
CONSTANTS
    Kinds = {gate, other}
    Sensors = {gate}
    Buttons = {gate}
    MaxAlarms = 2
    MaxVersions = 2
    StaticEvery = 2
INVARIANTS
    TypeOK
    PulsesAreNew
    DataIsComplete
    PulseIsTimed
PROPERTIES
    PulsesArePrewarmed
    LastAlarmArrives
    StatusCatchesUp
