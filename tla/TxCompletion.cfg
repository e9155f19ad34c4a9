SPECIFICATION FairSpec
CONSTANTS
    Nics = {n1}
    RingSize = 2
    QueueSize = 4
    MaxBatch = 2
    MaxMaps = 5
INVARIANTS
    OwnershipInv
    UnmappedOnce
PROPERTIES
    QueuedUntilUnmapped
    EveryMappingReleased
