SPECIFICATION FairSpec
CONSTANTS
    d1 = d1
    a1 = a1
    a2 = a2
    Tag <- Tags
    TagAt <- AllTags
    Row <- OneRange
    Indices = {1, 2}
    Raw = {0, 2}
    TextLen = 2
    ReadLen = 3
    Burst = 3
    MaxSent = 3
    MaxFails = 1
CHECK_DEADLOCK FALSE
INVARIANTS
    OwnControl
    InOrderOnce
    InRange
PROPERTIES
    AloneApplied
