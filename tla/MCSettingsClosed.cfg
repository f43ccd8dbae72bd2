SPECIFICATION Spec
CONSTANTS
    Settings = {s1, s2}
    Values = {0, 1}
    MaxEdits = 2
    MaxReads = 2
INVARIANT QueueDrains
CHECK_DEADLOCK FALSE
