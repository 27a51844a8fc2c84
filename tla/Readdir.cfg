CONSTANTS
    a = a
    b = b
    c = c
    d = d
    Name = {a, b, c, d}
    NameLen <- MCNameLen
    PTRBYTES = 8
    MAX_ENTRIES = 2
    CountMod = 1048576
    CookieMod = 1073741824
    Asked = {0, 110, 400, 8192}
    Cookies <- MCCookies
    Dirs <- MCDirs
    MaxChanges = 2
SPECIFICATION Spec
INVARIANTS TypeOK WalkNeverPanics PageFits PageInArrays NothingMissed NothingTwice
PROPERTIES WalkEnds
CHECK_DEADLOCK FALSE
