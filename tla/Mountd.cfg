CONSTANTS
    a = a
    b = b
    Name <- MCName
    NULL = NULL
    Host = {h1, h2}
    LocalHost = h1
    Dirpath <- MCDirpath
    MaxPathLen = 2
    MaxMounts = 4
    MaxFD = 102
SPECIFICATION Spec
INVARIANTS TypeOK CountMatchesList
PROPERTIES UnmountsExactly MntHandleResolves
