SPECIFICATION Spec
CONSTANTS
    Hooks = {h1}
    Service = service
    Nobody = nobody
    Aggressive = FALSE
    MayFail = FALSE
    MayHurry = FALSE
    MayReconfigure = TRUE
    MaxSuspends = 1
INVARIANTS
    CoordinationClearedAfterResume
