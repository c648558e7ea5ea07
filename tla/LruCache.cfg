SPECIFICATION SpecUse
CONSTANTS
    Key = {"a", "b", "c"}
    Val = {1, 2}
    Opts <- InUse
    MaxNow = 2
    MaxClears = 1
INVARIANTS ListIsMap AnswersLastStored EvictsLeastRecent
