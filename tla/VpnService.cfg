SPECIFICATION Spec
CONSTANTS
    MaxInstances = 3
    MaxFds = 3
    MaxSlots = 3
    MaxCommands = 3
    MaxDeaths = 1
INVARIANTS TypeOK RunningMeansUp StoppedMeansReleased StartingIsUnderWay TornDownOnce
CHECK_DEADLOCK FALSE
