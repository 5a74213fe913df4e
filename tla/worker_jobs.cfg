SPECIFICATION Spec
CONSTANTS
    QueueSize = 5
    Backlog = 2
    MaxCallbacks = 2
    UserOps <- BackupAndRestore
    Buttons <- NoExit
    Questions <- ErrorsAndConflicts
INVARIANTS TypeOK WaitingIsAnswerable
PROPERTIES JobsEnd
