SPECIFICATION FairSpec
CONSTANTS
    IPv4s = {a1, a2}
    IPv6s = {b1, b2}
    NoAddr = NoAddr
INVARIANTS LosersClosed ResultIsOpen ErrorOnlyIfAllFailed PrimaryIsAwaited
PROPERTY DialEnds
CHECK_DEADLOCK FALSE
