SPECIFICATION Spec
CONSTANTS
    Address <- MCNewLease
    MaxWrong = 0
INVARIANT
    StaysResponsive
