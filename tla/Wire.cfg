SPECIFICATION WireSpec
CONSTANTS
    MaxRequests = 2
    Counts <- MCCounts
    Lefts <- MCLefts
    Pages <- MCPages
INVARIANTS
    ReplyIsThisRequests
    ReadsDecoded
    ReplyFits
    ReaddirSizes
    ReadStopsAtEof
CHECK_DEADLOCK FALSE
