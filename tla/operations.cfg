SPECIFICATION Spec
CONSTANTS
    Blueprint <- FileEnvironmentDirectory
    DirSize = 2
    Excluded = {2}
    Contents = {"v"}
    Hooks <- OneHookEach
    Requests <- Real3
    ErrorAnswers <- AllButRetry
    ConflictAnswers <- AllButRetry
    Faults = {"error", "overlook", "corrupt"}
    MaxFaults = 1
    MaxOperations = 2
    MaxUses = 1
INVARIANTS TypeOK CleansInReverse SkipAllSilences
PROPERTIES BackupIsFaithful RestoreIsFaithful CleanLeavesNothing AbortStops BackupReadsQuietApp BackupStartsApp OperationsEnd
CHECK_DEADLOCK FALSE
