SPECIFICATION FairSpec
CONSTANTS
    a1 = a1
    a2 = a2
    a3 = a3
    Address <- Addresses
    Value = {0, 1}
    Parts <- TwoParts
    MaxChanges = 3
    MaxLost = 1
    MaxResets = 1
    None = None
CHECK_DEADLOCK FALSE
INVARIANTS
    StatusCurrent
PROPERTIES
    StatusShown
