SPECIFICATION Spec
CONSTANTS
    Good = {"a", "b"}
    Bad = {"x"}
    Served = "a"
    Builders = {1, 2}
    MaxPublishes = 2
    MaxCalls = 1
    MaxFaults = 1
CHECK_DEADLOCK FALSE
INVARIANTS StoresAgree ListIsOfItsVersion
PROPERTY PullsLatest
