SPECIFICATION Spec
CONSTANTS
    Relay = {r1, r2}
    ContactFrame <- MCContact
    AtcFrame <- MCAtc
    MaxQueue = 1
    MaxMoves = 2
    MaxFaults = 2
    Capacity = 2
    None = None
INVARIANTS
    TypeOK
    StaleOnlyByOtherRelay
    SensorFollows
PROPERTY
    StopsOnlyOnDamaged
SYMMETRY Symmetry
