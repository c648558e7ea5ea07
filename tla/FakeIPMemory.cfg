SPECIFICATION Spec
CONSTANTS
    h1 = h1 h2 = h2 h3 = h3
    Hosts = {h1, h2, h3}
    NoHost = NoHost
    Ranges <- TwoRanges
    Size = 2
    MaxPools = 2
    MaxEvents = 1
SYMMETRY HostSymmetry
INVARIANTS TypeOK CachesMirror LookBackUndoesLookup
PROPERTIES FirstPoolDropsOnlyCold ImplementsNameService
