SPECIFICATION Spec
CONSTANTS
    BlankAfter = 1
    MaxTime = 2
    Adapters = {"gnome"}
    Kinds = {"UserActivityObserved", "WakeRequested"}
    Events = {"SystemBlank", "Lock"}
    MaxQueue = 1
INVARIANT InputIsNeverLost
PROPERTY BlankAfterFullIdle
PROPERTY CheckPostdatesInput
