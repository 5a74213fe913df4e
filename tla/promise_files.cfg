SPECIFICATION Spec
CONSTANTS
    Blueprint <- FileEnvironmentDirectory
    DirSize = 2
    Excluded = {2}
    Contents = {"v"}
    Hooks <- OneHookEach
    Requests <- Real3AndDryClean
    ErrorAnswers = {}
    ConflictAnswers = {}
    Faults = {"error", "throw"}
    MaxFaults = 2
    MaxOperations = 3
    MaxUses = 1
PROPERTIES KeepsItsPromise
CHECK_DEADLOCK FALSE
