SPECIFICATION Spec
CONSTANTS
    a = a b = b
    Names = {a, b}
    Lists <- OneList
    Delays <- DelaysOf
    Top = 65535
    Tolerance = 1
    MaxFailed = 2
    MaxEvents = 2
    MaxUpdates = 1
    MaxPending = 1
CHECK_DEADLOCK FALSE
PROPERTIES SoundChoice DeadNodeLeft
