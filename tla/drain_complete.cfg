SPECIFICATION Spec
CONSTANTS
    MaxNodes = 7
    MaxWorkQueueSize = 2
    MaxCleanupDepth = 2
CHECK_DEADLOCK FALSE
INVARIANTS
    ReleaseIsComplete
PROPERTIES
    NoStepIsInVain
    Termination
