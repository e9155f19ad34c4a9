SPECIFICATION Spec
CONSTANTS
    StagingCount = 2
    QueueSize = 2
    XmsCount = 0
    MapBits = 32
    MaxPackets = 3
    MaxDepth = 2
INVARIANTS
    StagingLive
