SPECIFICATION Spec
CONSTANTS
    Handles = {h1}
    HandleNic <- MCHandleNic
    NicCount = 2
    Dests = {d1, d2}
    Sizes = {1514}
    Classes = {7}
    Priorities = {0}
    Limits = {0, 1600}
    MaxFlows = 1
    Configs <- MCConfigs
    Window = 1000
    Delays = {1000}
    MaxTime = 1000
    MaxFailures = 1
INVARIANTS
    SelectionInv
    DefaultRouteMoved
    QuotaKept
SYMMETRY DestSymmetry
