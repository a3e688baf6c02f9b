SPECIFICATION FairSpec
CONSTANTS
    a1 = a1
    a2 = a2
    Address <- Addresses
    MaxOthers = 1
    MaxSent = 4
    MaxLost = 1
    MaxResets = 1
    None = None
CHECK_DEADLOCK FALSE
INVARIANTS
    NoAlarmForgotten
    MapTells
PROPERTIES
    AlarmShown
    EachHandedOver
