SPECIFICATION Spec
CONSTANTS
    h1 = h1 h2 = h2 h3 = h3 A = A B = B
    Hosts = {h1, h2}
    NoHost = NoHost
    Nets <- TwoNets
    First <- TwoFirst
    Last <- TwoLast
    MaxBoots = 3
    MaxFaults = 1
SYMMETRY HostSymmetry
CHECK_DEADLOCK FALSE
INVARIANTS LookBackUndoesLookup LookupInProgress AnswersAllocatable
PROPERTY ImplementsNameService
