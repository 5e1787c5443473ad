CONSTANTS
    MaxStreams = 3

SPECIFICATION FairSpec
CHECK_DEADLOCK FALSE
PROPERTIES CloseCloses
