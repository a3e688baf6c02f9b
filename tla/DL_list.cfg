SPECIFICATION ListSpec
CONSTANTS
    o1 = o1
    o2 = o2
    o3 = o3
    o4 = o4
    Object <- Objects
    Garbage = {0, 7}
    NULL = NULL
SYMMETRY Perms
INVARIANTS
    SameBothWays
PROPERTIES
    IsCursorList
