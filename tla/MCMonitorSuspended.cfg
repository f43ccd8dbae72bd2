SPECIFICATION FairSpec
CONSTANTS
    Monitor = monitor
    Aggressive = FALSE
    MayFail = FALSE
    FilesMayFail = FALSE
    MayRemote = FALSE
    Attempts = 2
    MaxSuspends = 1
    Restarts = "never"
PROPERTY ActivityLightsTheTv
