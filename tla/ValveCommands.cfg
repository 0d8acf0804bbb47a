SPECIFICATION FairSpec
CONSTANTS
    Valve = {v1, v2}
    Actuator = {a1}
    Rssi <- MCRssi
    MaxAttempts = 2
    MaxRequests = 2
    None = None
INVARIANTS
    TypeOK
    PendingIsServed
    AttemptsArePublications
    BestIsStrongest
PROPERTIES
    ImplementsValveService
    RoutedCommandConcludes
