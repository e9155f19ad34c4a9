SPECIFICATION Spec
CONSTANTS
    NICs = {0, 1}
    MACs = {m1}
    Configs <- MCConfigs
    Default <- MCDefault
    CountSpan = 6
    AgeCap = 3
    MaxConfigs = 1
INVARIANTS RouteInv FailoverForgets
PROPERTIES StormSpacing SettlesOnLiveLink
