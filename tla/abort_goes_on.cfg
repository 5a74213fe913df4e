SPECIFICATION Spec
CONSTANTS
    Blueprint <- ServiceAndFile
    DirSize = 0
    Excluded = {}
    Contents = {"v"}
    Hooks <- NoHooks
    Requests <- BackupAndRestore
    ErrorAnswers <- Interface
    ConflictAnswers <- InterfaceConflict
    Faults = {}
    MaxFaults = 0
    MaxOperations = 2
    MaxUses = 1
PROPERTIES AbortStopsEverything
CHECK_DEADLOCK FALSE
