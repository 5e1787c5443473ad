CONSTANTS
    MaxWrite = 3
    MaxRead = 2
    MaxMessage = 2
    MaxBuffered = 4
    WireCap = 2
    MaxBytes = 5
    MaxQueue = 2

SPECIFICATION FairSpec
INVARIANTS TypeOK
PROPERTIES StreamSpec BytesArrive
