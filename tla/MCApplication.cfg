SPECIFICATION Spec
CONSTANTS
    MaxRequests = 4
    MaxFaults = 1
    MaxRemote = 1
    Target = "a"
    Concurrent = 2
    MaxFileEdits = 1
    MaxCrashes = 1
    Levels = {1, 2}
    MaxOperations = 4
    MaxProfileChanges = 1
    Settings = {"s1", "s2"}
    Values = {0, 1}
    MaxEdits = 3
    MaxReads = 2
    MaxRelease = 3
    MaxTries = 2
    MaxChanges = 1
    MaxRevision = 2
    MaxActs = 2
    MaxServices = 2
INVARIANT OkIsReal
INVARIANT IdleCloseIsHarmless
INVARIANT ShownIsTheTv
INVARIANT ShownIsSaved
INVARIANT CancelledNeverInstalls
INVARIANT InstalledIsConfirmed
INVARIANT OperationsAreRun
PROPERTY TokenGoesToItsConfig
PROPERTY NoLostUpdate
PROPERTY FailureLeavesNoTrace
PROPERTY AdmissionIsVerified
INVARIANT LastChoiceWins
CHECK_DEADLOCK FALSE
