CONSTANTS
    Name = {a, b}
    NULL = NULL
    MaxFD = 102
    MaxLen = 2
    MaxKnown = 4
SYMMETRY NameSymmetry
SPECIFICATION Spec
INVARIANTS TypeOK TableConsistent
PROPERTIES SupersededFrozen FollowsObjects
