SPECIFICATION Spec
CONSTANTS
    Monitor = monitor
    Commands = {}
    Aggressive = FALSE
    MayFail = FALSE
    FilesMayFail = FALSE
    MayRemote = FALSE
    Attempts = 6
    MaxSuspends = 1
INVARIANT SystemOffStaysOff
