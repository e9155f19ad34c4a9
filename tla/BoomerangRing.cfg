SPECIFICATION FairSpec
CONSTANTS
    TxRing = 2
    RxRing = 2
    Counter = 4
    MaxSends = 5
    MaxArrivals = 3
INVARIANTS
    RingInv
    WireInOrder
PROPERTIES
    FullDrains
    ReceivesInOrder
