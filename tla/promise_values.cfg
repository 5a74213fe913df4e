SPECIFICATION Spec
CONSTANTS
    Blueprint <- Values
    DirSize = 0
    Excluded = {}
    Contents = {"v"}
    Hooks <- ForcedShutdown
    Requests <- Real3AndDry
    ErrorAnswers = {}
    ConflictAnswers = {}
    Faults = {"error", "overlook", "corrupt"}
    MaxFaults = 2
    MaxOperations = 3
    MaxUses = 1
PROPERTIES KeepsItsPromise DryRunIsPure
CHECK_DEADLOCK FALSE
