SPECIFICATION Spec
CONSTANTS
    Address <- MCNewLease
    MaxWrong = 2
INVARIANTS
    NoDuplicateConnection
    ScanMissesNone
\* The main loop may hang or panic here.
CHECK_DEADLOCK FALSE
