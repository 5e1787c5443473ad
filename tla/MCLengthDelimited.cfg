CONSTANTS
    Radix = 2
    MaxFrame = 5
    Payloads <- MCPayloads
    FrameCount = 3
    HeaderCuts = {1}
    WireCap = 6
    MaxRaw = 2

SPECIFICATION FairSpec
INVARIANTS TypeOK HandOverExact CleanEnd
PROPERTIES ChannelSpec FramesArrive
