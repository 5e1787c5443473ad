CONSTANTS
    Name <- MCName
    Pipelines <- MCPipelines
    WireCap = 2
    MaxFrames = 2
    MaxFaults = 1

SPECIFICATION FairSpec
INVARIANTS TypeOK StagesAgree CleanHandOut
PROPERTIES BothSettle SupportedConnects
