CONSTANTS
    Radix = 2
    MaxFrame = 5
    Payloads <- MCPayloads
    FrameCount = 2
    HeaderCuts = {1, 2, 3}
    WireCap = 6
    MaxRaw = 2

SPECIFICATION Spec
INVARIANTS FramesIntact
