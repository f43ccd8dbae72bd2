SPECIFICATION Spec
CONSTANTS
    Devices = {pad}
    Rests = {0, 2}
    MaxPos = 3
    Threshold = 2
    Quiet = 1
    Cooldown = 1
    Debounce = 1
    RetryInterval = 2
    ReconcileInterval = 3
    SendInterval = 1
    MaxEvents = 1
    MaxFailures = 1
    Seats = {"s1", "s2"}
    Notifiers = {"old", "new", "other"}
    Required = 2
    MaxChanges = 2
    Sessions = {"a", "b"}
    Connectors = {"c1", "c2"}
    MaxOwner = 2
    MaxQueue = 3
INVARIANT ReportsAreReal
PROPERTY PluggedPadIsRead
PROPERTY BlankIsReal
INVARIANT AvailableAdapterListens
INVARIANT ObserverIsUpToDate
PROPERTY InputIsHeard
PROPERTY AvailableAgain
CHECK_DEADLOCK FALSE
