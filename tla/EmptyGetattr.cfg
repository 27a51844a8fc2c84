CONSTANTS
    Name = {a}
    NULL = NULL
    DefaultMode = m1
    Modes = {m1, m2}
    Times = {t1}
    Sizes = {0}
    SpecialName = {"/"}
    InitialTrees <- MCOneFile
    MaxDepth = 1
    MaxFD = 102
    MaxObj = 3
    MaxRestarts = 0
SPECIFICATION Spec
INVARIANTS GetattrOkHasAttributes
