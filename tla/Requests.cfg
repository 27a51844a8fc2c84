CONSTANTS
    a = a
    b = b
    m1 = m1
    m2 = m2
    t1 = t1
    t2 = t2
    Name = {a, b}
    NULL = NULL
    DefaultMode = m1
    Modes = {m1, m2}
    Times = {t1, t2}
    MaxDepth = 1
    Request <- MCRequest
    Tree <- MCTree
    MaxRequests = 2
    MaxCopies = 1
    MaxObj = 3
    MaxFaults = 1
SPECIFICATION Spec
INVARIANTS TypeOK CutIsClean SetattrOkSetsAll RepeatKeepsObjects AnswerIsTrue
PROPERTIES EveryRequestAnswered
CHECK_DEADLOCK FALSE
