SPECIFICATION FairSpec
CONSTANTS
    p1 = p1
    p2 = p2
    v1 = v1
    Point <- ThreePoints
    Value = {0, 1}
    Virtual = {v1}
    Class <- OddClasses
    NoClass = NoClass
    TagIx <- OddIndices
    DbSize = 2
    IxMax = 3
    FailAt = {"select", "delete", "flush", "alter"}
    MaxFails = 1
    MaxExits = 0
    BuilderRace = FALSE
    None = None
PROPERTIES
    UpdatesResume
    Converges
