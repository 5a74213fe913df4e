--------------------------- MODULE MCWorkerThread ---------------------------
(***************************************************************************)
(* Instances of WorkerThread for TLC: the sets the configurations choose   *)
(* from.  Each names the part of the user's behaviour a run lets happen.   *)
(***************************************************************************)
EXTENDS WorkerThread

BackupAndRestore == {"Backup", "Restore"}
RestoreOnly == {"Restore"}
CleanAndVerify == {"Clean", "Verify"}

ErrorsAndConflicts == {"Error", "Conflict"}

NoExit == {"Refresh", "Cancel", "Close"}
NoCancel == {"Refresh", "Settings", "Close"}
NoDryRun == AllButtons \ {"DryRun"}
=============================================================================
