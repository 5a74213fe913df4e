---------------------------- MODULE MCOrchestrator ----------------------------
(***************************************************************************)
(* Instances of Orchestrator for TLC: blueprints, requests and callbacks.  *)
(***************************************************************************)
EXTENDS Orchestrator

FileEnvironmentDirectory == <<"File", "Environment", "Directory">>
Values == <<"Hosts", "Service", "Registry", "Environment">>
ServiceAndFile == <<"Service", "File">>

OneHookEach == [Startup |-> <<"always">>, Shutdown |-> <<"always">>]
ForcedShutdown == [Startup |-> <<"always">>, Shutdown |-> <<"always", "forced">>]
NoHooks == [Startup |-> <<>>, Shutdown |-> <<>>]

Request(name) == [name |-> name, simulate |-> FALSE, force |-> FALSE]
DryRun(name) == [name |-> name, simulate |-> TRUE, force |-> FALSE]

Real3 == {Request("Backup"), Request("Restore"), Request("Clean")}
Real3AndDryClean == Real3 \cup {DryRun("Clean")}
Real3AndDry == Real3 \cup {DryRun("Clean"), DryRun("Restore")}
BackupAndRestore == {Request("Backup"), Request("Restore")}

\* The GUI with its Cancel button.
Interface == {"SkipAll", "Abort"}
InterfaceConflict == {"Continue", "Abort"}
AllButRetry == Decisions \ {"Retry"}
=============================================================================
