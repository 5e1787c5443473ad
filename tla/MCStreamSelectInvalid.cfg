CONSTANTS
    a = a
    b = b
    c = c
    bad = bad
    Name <- MCName
    ValidName <- MCValid
    DialLists <- MCDialLists
    ListenLists <- MCListenLists
    Lookalikes <- MCLookalikes
    WireCap = 1
    MaxWrites = 1
    MaxFaults = 0
    UseAfterError = TRUE

SPECIFICATION Spec
INVARIANTS NeverPolledInvalid
