SPECIFICATION Spec
CONSTANTS
    QueueSize = 7
    Backlog = 1
    MaxCallbacks = 1
    UserOps <- CleanAndVerify
    Buttons <- AllButtons
    Questions = {}
INVARIANTS RefreshFlagHonest
PROPERTIES ShutdownStops DryRunIsHonoured
CHECK_DEADLOCK FALSE
