SPECIFICATION Spec
CONSTANTS
    MaxInstances = 3
    MaxFds = 3
    MaxSlots = 3
    MaxCommands = 3
    MaxDeaths = 1
INVARIANT StopReleasesTun
CHECK_DEADLOCK FALSE
