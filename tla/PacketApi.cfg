SPECIFICATION FairSpec
CONSTANTS
    MaxHandles = 2
    MaxExt = 2
    IdSpace = 3
    Nics = 1
    Types <- MCTypes
    Options <- MCOptions
    MaxOpens = 4
    MaxPackets = 1
INVARIANTS
    TypeOK
    ExtendedBacked
    SettingsAreOwn
    UpgradeHasRoom
    EveryListenerOnce
PROPERTY
    ReceiveEnds
CHECK_DEADLOCK FALSE
