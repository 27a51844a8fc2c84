CONSTANTS
    Name = {a, b}
    NULL = NULL
    DefaultMode = m1
    Modes = {m1}
    Times = {t1}
    Sizes = {}
    SpecialName = {".", ".."}
    InitialTrees <- MCTrees
    MaxDepth = 2
    MaxFD = 103
    MaxObj = 3
    MaxRestarts = 0
SYMMETRY NameSymmetry
SPECIFICATION Spec
INVARIANTS TypeOK FileidsDiffer HandleFollowsObject
PROPERTIES DestroysOneAtMost
