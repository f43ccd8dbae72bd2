SPECIFICATION Spec
CONSTANTS
    Monitor = monitor
    Commands = {command}
    Aggressive = FALSE
    MayFail = FALSE
    FilesMayFail = FALSE
    MayRemote = FALSE
    Attempts = 1
    MaxSuspends = 0
INVARIANT DarknessIsRemembered
