CONSTANTS
    MaxBuffered = 2
    ChannelCap = 2
    MaxStreams = 7

SPECIFICATION FairSpec
CHECK_DEADLOCK FALSE
INVARIANTS TypeOK StreamsInOrder NoLostWakeup FullOnlyIfCrowded
PROPERTIES ConnectionDriven EveryStreamHandled EndReported
