CONSTANTS
    Stacks <- MCStacks
    Inbound = {in1, in2}
    Outbound = {out1}
    MaxFaults = 1

SPECIFICATION FairSpec
CHECK_DEADLOCK FALSE
INVARIANTS TypeOK LayersAgree
PROPERTIES ServiceSpec ConnectionsOffered UpgradesEnd
