---------------------------- MODULE CommandLine ----------------------------
(***************************************************************************)
(* The command line tool (insti/main.cpp) on the snapshots and the install *)
(* status: each command is a process with a registry of its own, which it  *)
(* fills by a scan before it operates.  Commands follow each other; what   *)
(* happens to the snapshots in between is the user's doing.                *)
(***************************************************************************)
EXTENDS InstallRegistry

CONSTANTS
    Cli,            \* the client that runs commands
    CliRegistry,    \* the registry of the command being run
    MaxCommands,    \* bound: commands
    MaxChanges      \* bound: deletions and copies of files by somebody else

ASSUME CommandLineAssumption ==
    /\ Cli \in Clients /\ CliRegistry \in Registries
    /\ MaxCommands \in Nat /\ MaxChanges \in Nat

VARIABLES
    commands,       \* commands begun
    changes         \* changes of files by somebody else

commandVars == <<files, rows, lists, work, stale, commands, changes>>

CommandInit == Init /\ commands = 0 /\ changes = 0

CommandTypeOK == TypeOK /\ commands \in 0 .. MaxCommands /\ changes \in 0 .. MaxChanges

\* A command starts with the scan of its registry.
Command(op, n, x, origin) ==
    /\ work[Cli] = None /\ commands < MaxCommands
    /\ commands' = commands + 1
    /\ ScanWith(Cli, [pc |-> "looking", op |-> op, name |-> n, of |-> x, reg |-> CliRegistry,
                      origin |-> origin, todo |-> <<>>, assumed |-> "Unknown",
                      loaded |-> None, ok |-> op = "scan"])
    /\ UNCHANGED <<disk, changes>>

\* insti list, and the scan with which a reference is resolved.
CmdList == Command("scan", None, None, None)

\* insti backup <blueprint> [<output>].  A path that holds a snapshot is
\* overwritten without a question.
CmdBackup(x, n) == Command("backup", n, x, None)

\* insti backup <snapshot> [<output>]: the blueprint is the snapshot's, and the
\* snapshot is removed afterwards.
CmdRebackup(origin, n) ==
    /\ Content(origin) \in Projects
    /\ Command("backup", n, Content(origin), origin)

CmdRestore(n) ==
    /\ Content(n) \in Projects
    /\ Command("restore", n, Content(n), None)

\* insti uninstall, by a blueprint or by a snapshot.
CmdClean(x) == Command("clean", None, x, None)

\* Removes the original before the backup is known to have succeeded.
Bug_Removes(w) == w.op = "backup" /\ w.origin # None

Removes(w) == w.op = "backup" /\ w.ok /\ w.origin # None

\* The process of a command ends, or is killed.
Exit ==
    /\ work' = [work EXCEPT ![Cli] = None]
    /\ Empty({CliRegistry})
    /\ UNCHANGED <<rows, commands, changes>>

\* The original of a re-backup is removed, if that succeeds.
EndCommand ==
    /\ At(Cli, "done")
    /\ \/ /\ Removes(work[Cli])
          /\ files' = [files EXCEPT ![FileOf[work[Cli].origin]] = "Absent"]
       \/ UNCHANGED files
    /\ Exit

Kill ==
    /\ work[Cli] # None
    /\ Exit
    /\ UNCHANGED files

Commands ==
    \/ CmdList
    \/ \E x \in Projects : CmdClean(x) \/ \E n \in Names : CmdBackup(x, n)
    \/ \E n \in Names : CmdRestore(n) \/ \E origin \in Names : CmdRebackup(origin, n)

CommandRuns ==
    \/ Commands \/ EndCommand
    \/ ClientStep(Cli) /\ UNCHANGED <<commands, changes>>

CommandStep == CommandRuns \/ Kill

SomebodyElse ==
    /\ changes < MaxChanges
    /\ changes' = changes + 1
    /\ UNCHANGED commands

Delete(f) == SomebodyElse /\ DeleteFile(f)
Import(f, x) == SomebodyElse /\ ImportFile(f, x)
=============================================================================
