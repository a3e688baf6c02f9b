SPECIFICATION Spec
CONSTANTS
    t1 = t1
    t2 = t2
    t3 = t3
    t4 = t4
    Tag <- Tags
    TypeOf <- MixedTypes
    SizeFloor = 0
    MaxUpsets = 2
    MaxFails = 1
SYMMETRY Alike
INVARIANTS
    RoundTrip
    BuildComplete
    FitsDatabase
