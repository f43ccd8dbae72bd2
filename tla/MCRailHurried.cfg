SPECIFICATION Spec
CONSTANTS
    Hooks = {h1}
    Service = service
    Nobody = nobody
    Aggressive = FALSE
    MayFail = FALSE
    MayHurry = TRUE
    MayReconfigure = FALSE
    MaxSuspends = 2
INVARIANTS
    TeardownAfterDecision
