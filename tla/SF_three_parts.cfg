SPECIFICATION Spec
CONSTANTS
    a1 = a1
    a2 = a2
    a3 = a3
    Address <- Addresses
    Value = {0, 1}
    Parts <- ThreeParts
    MaxChanges = 0
    MaxLost = 0
    MaxResets = 0
    None = None
CHECK_DEADLOCK FALSE
INVARIANTS
    StatusCurrent
