--------------------------- MODULE RegistryView ---------------------------
(***************************************************************************)
(* The GUI on the install status (instinctiv.cpp, the jobs of              *)
(* worker_thread.cpp): the UI thread shows a registry and gives it to the  *)
(* jobs it posts; the worker thread scans into new registries and operates *)
(* with the one a job was given.  Beside it, commands run, and both share  *)
(* the files and the cache.  What the two threads say to each other is the *)
(* subject of WorkerThread; here a job is taken, done and answered.        *)
(***************************************************************************)
EXTENDS CommandLine

CONSTANTS
    Gui,            \* the client that is the GUI's worker thread
    Watched,        \* a name that a scan meets, any: SavedIsShown follows it
    MaxClicks,      \* bound: what the user asks of the GUI
    MaxJobs         \* bound: jobs waiting for the worker

ASSUME RegistryViewAssumption ==
    /\ Gui \in Clients \ {Cli}
    /\ \E i \in DOMAIN ScanOrder : ScanOrder[i] = Watched
    /\ MaxClicks \in Nat /\ MaxJobs \in Nat \ {0}

VARIABLES
    shown,          \* m_snapshot_registry
    jobs,           \* jobs posted to the worker, with their registries
    inbox,          \* completions posted to the UI
    label,          \* progress_operation, set when an operation is started
    clicks,
    held            \* history: the projects of which each file has been a snapshot

guiVars == <<shown, jobs, inbox, label, clicks>>
viewVars == <<commandVars, guiVars, held>>

Job == [op : Operations, name : Names \cup {None}, of : Projects \cup {None},
        reg : Registries \cup {None}]
Completion == [op : Operations, ok : BOOLEAN, name : Names \cup {None}, reg : Registries]

ViewTypeOK ==
    /\ CommandTypeOK
    /\ shown \in Registries \cup {None}
    /\ jobs \in Seq(Job) /\ inbox \in Seq(Completion)
    /\ label \in Operations /\ clicks \in 0 .. MaxClicks
    /\ held \in [Files -> SUBSET Projects]

ScanJob == [op |-> "scan", name |-> None, of |-> None, reg |-> None]

\* AppState posts the first scan.
ViewInit ==
    /\ CommandInit
    /\ shown = None /\ jobs = <<ScanJob>> /\ inbox = <<>> /\ label = "scan" /\ clicks = 0
    /\ held = [f \in Files |-> {}]

\* A registry lives as long as it is shown, or a job or a message refers to it.
InUse(r) ==
    \/ r = shown \/ r = CliRegistry
    \/ \E i \in DOMAIN jobs : jobs[i].reg = r
    \/ \E i \in DOMAIN inbox : inbox[i].op = "scan" /\ inbox[i].reg = r
    \/ work[Gui] # None /\ work[Gui].reg = r

Unused == {r \in Registries : ~InUse(r)}

Release == Empty(Unused')

beside == <<disk, commands, changes, held>>

\* The history goes on with a step that may write an archive.
Remembers == held' = [f \in Files |-> held[f] \cup ({files'[f]} \cap Projects)]

-----------------------------------------------------------------------------
(* The worker thread.                                                      *)

Start(op, job, r) ==
    [pc |-> "ready", op |-> op, name |-> job.name, of |-> job.of, reg |-> r, origin |-> None,
     todo |-> <<>>, assumed |-> "Unknown", loaded |-> None, ok |-> op = "scan"]

Free == work[Gui] = None /\ jobs # <<>>

\* do_refresh_registry scans into a registry of its own.
TakeScan ==
    /\ Free /\ Head(jobs).op = "scan"
    /\ Unused # {}
    /\ ScanWith(Gui, Start("scan", ScanJob, CHOOSE r \in Unused : TRUE))
    /\ jobs' = Tail(jobs)
    /\ UNCHANGED <<beside, shown, inbox, label, clicks>>

\* An operation works with the registry of its message.
TakeOperation ==
    /\ Free /\ Head(jobs).op # "scan"
    /\ LET j == Head(jobs) IN
       /\ j.op = "restore" => Content(j.name) \in Projects
       /\ Continue(Gui, Start(j.op, [j EXCEPT !.of = IF j.op = "restore" THEN Content(j.name)
                                                                        ELSE @], j.reg))
    /\ jobs' = Tail(jobs)
    /\ UNCHANGED <<beside, lists, stale, shown, inbox, label, clicks>>

\* do_restore cannot load the instance.
TakeInVain ==
    /\ Free /\ Head(jobs).op = "restore" /\ Content(Head(jobs).name) \notin Projects
    /\ jobs' = Tail(jobs)
    /\ inbox' = Append(inbox, [op |-> "restore", ok |-> FALSE, name |-> Head(jobs).name,
                               reg |-> Head(jobs).reg])
    /\ UNCHANGED <<beside, work, shown, label, clicks>>
    /\ Release

Complete ==
    /\ At(Gui, "done")
    /\ inbox' = Append(inbox, [op |-> work[Gui].op, ok |-> work[Gui].ok,
                               name |-> work[Gui].name, reg |-> work[Gui].reg])
    /\ work' = [work EXCEPT ![Gui] = None]
    /\ UNCHANGED <<beside, shown, jobs, label, clicks>>
    /\ Release

Worker ==
    \/ TakeScan \/ TakeOperation \/ TakeInVain \/ Complete
    \/ ClientStep(Gui) /\ UNCHANGED <<commands, changes, guiVars>> /\ Remembers

-----------------------------------------------------------------------------
(* The UI thread.                                                          *)

\* RegistryRefreshComplete: the new registry replaces the one shown, whatever
\* happened to that one since the scan began.
ShowRegistry ==
    /\ inbox # <<>> /\ Head(inbox).op = "scan"
    /\ shown' = Head(inbox).reg
    /\ inbox' = Tail(inbox)
    /\ UNCHANGED <<beside, work, jobs, label, clicks>>
    /\ Release

\* A UI that rescans only what was restored.
Bug_RescanAfter(m) == m.ok /\ label = "restore"

\* OperationComplete: a backup, by the label of what was started last.
RescanAfter(m) == m.ok /\ shown # None /\ label = "backup"

HandleCompletion ==
    /\ inbox # <<>> /\ Head(inbox).op # "scan"
    /\ jobs' = IF RescanAfter(Head(inbox)) THEN Append(jobs, ScanJob) ELSE jobs
    /\ inbox' = Tail(inbox)
    /\ UNCHANGED <<commandVars, held, shown, label, clicks>>

\* A control or a dialog may post at any time: views and dialogs stay open, and
\* reopen, while jobs wait.
Asks(job) ==
    /\ inbox = <<>> /\ clicks < MaxClicks /\ Len(jobs) < MaxJobs
    /\ clicks' = clicks + 1
    /\ jobs' = Append(jobs, job)
    /\ label' = IF job.op = "scan" THEN label ELSE job.op
    /\ UNCHANGED <<commandVars, held, shown, inbox>>

Click(op, n, x) ==
    /\ shown # None
    /\ Asks([op |-> op, name |-> n, of |-> x, reg |-> shown])

ScannedNames == {ScanOrder[i] : i \in DOMAIN ScanOrder}

ClickRefresh == Asks(ScanJob)
ClickBackup(x, n) == n \in ScannedNames /\ Click("backup", n, x)
ClickRestore(i) == i \in DOMAIN lists[shown] /\ Click("restore", lists[shown][i].name, None)
ClickUninstall(x) == Click("clean", None, x)

\* The process ends, in the middle of anything, and is started again.
Restart ==
    /\ clicks < MaxClicks
    /\ clicks' = clicks + 1
    /\ work' = [work EXCEPT ![Gui] = None]
    /\ shown' = None /\ jobs' = <<ScanJob>> /\ inbox' = <<>> /\ label' = "scan"
    /\ UNCHANGED beside
    /\ Release

User ==
    \/ ClickRefresh
    \/ \E x \in Projects : ClickUninstall(x) \/ \E n \in Names : ClickBackup(x, n)
    \/ shown # None /\ \E i \in DOMAIN lists[shown] : ClickRestore(i)
    \/ Restart

Handle == ShowRegistry \/ HandleCompletion

ViewNext ==
    \/ Worker \/ Handle \/ User
    \/ CommandRuns /\ UNCHANGED guiVars /\ Remembers

\* The threads run; nobody has to click, and no command has to be given.
ViewSpec == ViewInit /\ [][ViewNext]_viewVars /\ WF_viewVars(Worker) /\ WF_viewVars(Handle)

-----------------------------------------------------------------------------

Quiet == work = [c \in Clients |-> None] /\ jobs = <<>> /\ inbox = <<>>

\* The file has been a snapshot of one project only, whose XML mentions no other.
Plain(e) == held[FileOf[e.name]] = {e.of} /\ Mentions[e.of] = {e.of}

\* When everything has come to rest, what the GUI shows of a snapshot is what the
\* cache says, so that the next scan, or the command line, says the same.
\* Excepted are projects of which the shown registry has missed a change, by a
\* command, or by a job that was started with the registry shown before; and files
\* that were overwritten by a snapshot of another project.
ShownAgrees ==
    (Quiet /\ shown # None) =>
        \A i \in DOMAIN lists[shown] :
            LET e == lists[shown][i]
                row == rows[e.name] IN
            (<<shown, e.of>> \notin stale /\ i = FirstFor(lists[shown], e.name) /\ Plain(e)) =>
                row # None /\ row.of = e.of /\ row.status = e.status

\* A snapshot that a job has saved comes to be shown, unless another operation is
\* started before the completion is handled (which relabels it), or the archive is
\* gone or broken by then.
Shows(n) == shown # None /\ \E i \in DOMAIN lists[shown] : lists[shown][i].name = n
SavedIsShown ==
    (inbox # <<>> /\ Head(inbox).op = "backup" /\ Head(inbox).ok /\ Head(inbox).name = Watched)
        ~> (Shows(Watched) \/ label # "backup" \/ Content(Watched) \notin Projects)
=============================================================================
