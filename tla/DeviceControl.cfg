SPECIFICATION Spec
CONSTANTS
    Kind <- MCKind
    Source = {"domo_light", "domo_button", "domo_light_dimmable", "domo_rgbw_light"}
    Channel = {1, 2}
    Wish <- MCWish
    MaxOrders = 2
    Budget = 2
    Capacity = 2
    None = None
INVARIANTS
    TypeOK
    TopicIsTrue
    SourceMirrorsTopic
    CrashIsRepaired
    CommandComesBack
CHECK_DEADLOCK FALSE
