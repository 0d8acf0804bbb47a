SPECIFICATION DeliverySpec
CONSTANTS
    a1 = a1
    a2 = a2
    Valve = {v1}
    Actuator <- MCActuator
    Session <- MCSession
    Rssi <- MCRssi
    MaxAttempts = 1
    MaxRequests = 2
    MaxHeld = 1
    Capacity = 2
    None = None
SYMMETRY Symmetry
INVARIANTS
    DeliveryTypeOK
    TopicIsTrue
    DoneMeansMoved
