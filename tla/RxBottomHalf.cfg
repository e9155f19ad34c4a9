SPECIFICATION FairSpec
CONSTANTS
    StagingCount = 4
    QueueSize = 4
    XmsCount = 2
    MapBits = 32
    MaxPackets = 4
    MaxDepth = 2
INVARIANTS
    BufferInv
    HeldIsIntact
PROPERTIES
    DeliversInOrder
    WaitingIsServed
