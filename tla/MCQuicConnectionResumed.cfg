CONSTANTS
    MaxStreams = 3

SPECIFICATION Spec
CHECK_DEADLOCK FALSE
INVARIANTS NeverResumed
