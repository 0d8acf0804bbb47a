SPECIFICATION Spec
CONSTANTS
    Address <- MCOneAddressEach
    MaxWrong = 2
INVARIANT
    StaysResponsive
