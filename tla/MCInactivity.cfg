SPECIFICATION EngineSpec
CONSTANTS
    BlankDelay = 2
    PowerOffAfter = 2
    PostLockGrace = 2
    EngineMaxTime = 6
PROPERTY StaleInputNeverRestores
PROPERTY LockedBlankNeedsFreshInput
PROPERTY PowerOffAfterFullGrace
PROPERTY ImplementsIdleEngine
PROPERTY ImplementsIdleClock
