SPECIFICATION FairSpec
CONSTANTS
    Kind <- MCKind
    Source = {"domo_roller_shutter", "domo_rgbw_light"}
    Channel = {1}
    Wish = {}
    MaxOrders = 2
    Budget = 2
    Capacity = 2
    None = None
PROPERTIES
    ModeSettles
CHECK_DEADLOCK FALSE
