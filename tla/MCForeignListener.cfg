CONSTANTS
    a = a
    b = b
    c = c
    Name <- MCName
    ValidName <- MCName
    DialLists <- MCDialLists
    ListenLists <- MCListenLists
    Lookalikes <- MCLookalikes
    WireCap = 2
    MaxWrites = 3
    MaxFaults = 0
    UseAfterError = FALSE

SPECIFICATION ForeignSpec
INVARIANTS ProposalsInOrder NothingSwallowed
