CONSTANTS
    gnome = gnome
    powerdevil = powerdevil
    r1 = r1
    r2 = r2
    r3 = r3
    Push = {gnome}
    Pull = {powerdevil}
    Requests = {r1, r2, r3}
    Nothing = Nothing
    Answers = {"Inhibited", "Clear"}
    Delays = {1}
    RetryInterval = 1
    MayPanic = TRUE
    MayConfigure = TRUE
    MaxTime = 1
SPECIFICATION FairSpec
PROPERTY EveryGrantIsEarned
PROPERTY GrantWaitsOutRelease
PROPERTY EveryCheckEnds
