SPECIFICATION PowerSpec
CONSTANTS
    Hooks = {h1}
    Interfaces = {h1, h2}
    Service = service
    Nobody = nobody
    Aggressive = TRUE
    MayFail = TRUE
    MayHurry = TRUE
    MayReconfigure = TRUE
    MaxSuspends = 2
    SessionAggressive = FALSE
    Attempts = 2
INVARIANT RailHasOneOwner
INVARIANT ConfirmedOffIsRemembered
INVARIANT OrderlyTeardown
INVARIANT DarknessIsRemembered
INVARIANT SessionDefersToSystem
INVARIANT DarkTvIsWatched
PROPERTY SuspendGoesThrough
PROPERTY WakeUpSettles
PROPERTY LitTvInUseStaysOn
PROPERTY ActivityLightsTheTv
