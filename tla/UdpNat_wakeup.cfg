SPECIFICATION FairSpec
CONSTANTS
    p1 = p1 p2 = p2 p3 = p3 p4 = p4 k1 = k1 k2 = k2
    Packets = {p1, p2, p3}
    None = None
    Keys = {k1}
    Workers = 2
    QueueSize = 2
PROPERTY TakenPacketsDropped
CHECK_DEADLOCK FALSE
