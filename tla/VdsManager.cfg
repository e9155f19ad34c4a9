SPECIFICATION Spec
CONSTANTS
    r1 = r1
    r2 = r2
    h1 = h1
    h2 = h2
    Regions = {r1, r2}
    Blocks <- MCBlocks
    NumBlocks = 2
    RegistrySize = 3
    IdSpan = 3
    Handles = {h1, h2}
    NoHandle = NoHandle
    Asked = {"transient", "auto"}
    Often = 2
    MaxRefs = 2
SYMMETRY Alike
INVARIANTS GrantedStaysLocked RegistryInv BounceKept
