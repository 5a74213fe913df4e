SPECIFICATION Spec
CONSTANTS
    QueueSize = 3
    Backlog = 2
    MaxCallbacks = 1
    UserOps <- RestoreOnly
    Buttons <- NoDryRun
    Questions = {"Error"}
PROPERTIES ShutdownStops
CHECK_DEADLOCK FALSE
