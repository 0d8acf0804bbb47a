SPECIFICATION FairSpec
CONSTANTS
    Address <- MCOneAddressEach
    MaxWrong = 1
INVARIANTS
    TypeOK
    StaysResponsive
PROPERTIES
    DropsOnlyBroken
    ClosingEventuallyGone
