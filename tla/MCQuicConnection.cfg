CONSTANTS
    MaxStreams = 3

SPECIFICATION FairSpec
CHECK_DEADLOCK FALSE
INVARIANTS TypeOK PanicsOnlyAfterError
PROPERTIES ConnectingEnds StreamsServed
