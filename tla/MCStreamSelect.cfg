CONSTANTS
    a = a
    b = b
    c = c
    bad = bad
    Name <- MCName
    ValidName <- MCValid
    DialLists <- MCDialLists
    ListenLists <- MCListenLists
    Lookalikes <- MCLookalikes
    WireCap = 2
    MaxWrites = 2
    MaxFaults = 1
    UseAfterError = TRUE

SPECIFICATION ReadingSpec
INVARIANTS TypeOK Agreement FirstCommonProtocol Transparency HandoffAsserts Alternation
PROPERTIES AbstractSpec NegotiationEnds EarlyDataArrives
