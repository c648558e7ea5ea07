SPECIFICATION Spec
CONSTANTS
    c1 = c1 c2 = c2 c3 = c3 c4 = c4
    Calls = {c1, c2, c3}
    MaxSessions = 2
    MinIdle = 1
SYMMETRY CallSymmetry
INVARIANTS SessionsExclusive SessionsAccountedFor ClosedClientLetsGo ClosedSessionHasNoStreams
PROPERTY CleanupKeepsMinimum
CHECK_DEADLOCK FALSE
