SPECIFICATION Spec
CONSTANTS
    p1 = p1
    p2 = p2
    v1 = v1
    Point <- TwoPoints
    Value = {0, 1}
    Virtual = {}
    Class <- SameClass
    NoClass = NoClass
    TagIx <- SameIndices
    DbSize = 3
    IxMax = 3
    FailAt = {"flush", "alter", "bye"}
    MaxFails = 1
    MaxExits = 1
    BuilderRace = FALSE
    None = None
INVARIANTS
    TypeOK
    LatestInPipeline
    PipelineInv
PROPERTIES
    DeletedWereRead
