----------------------------- MODULE Orchestrator -----------------------------
(***************************************************************************)
(* Orchestrator (shared/src/core/orchestrator.cpp): backup, restore, clean *)
(* and the two operations that only run hooks, as the stages they go       *)
(* through.  One operation runs at a time: the GUI has one worker thread,  *)
(* the command line tool runs one command.                                 *)
(*                                                                         *)
(* One snapshot of one project is followed, so what the registry keeps     *)
(* about several of them is left out.                                      *)
(***************************************************************************)
EXTENDS Actions

CONSTANTS
    Hooks,           \* [Startup, Shutdown]: the hooks, "always" or "forced" each
    Requests,        \* the operations that may be asked for in this instance
    ErrorAnswers,    \* what the callback may answer to an error; {}: no callback
    ConflictAnswers, \* what it may answer to a file conflict
    Faults,          \* what the environment does: "error", "overlook", "corrupt", "throw"
    MaxFaults,       \* bound: how often it does
    MaxOperations,   \* bound: operations
    MaxUses          \* bound: changes to the machine between operations

AllRequests ==
    [name : {"Backup", "Startup", "Shutdown"}, simulate : {FALSE}, force : BOOLEAN]
    \cup [name : {"Restore", "Clean"}, simulate : BOOLEAN, force : BOOLEAN]

ASSUME OrchestratorAssumption ==
    /\ Blueprint \in Seq(Kinds)
    /\ DirSize \in Nat
    /\ Excluded \subseteq 1..DirSize
    /\ Contents \cap {"Empty", "Torn", "Absent", "Missing"} = {}
    /\ Hooks \in [{"Startup", "Shutdown"} -> Seq({"always", "forced"})]
    /\ Requests \subseteq AllRequests
    /\ ErrorAnswers \subseteq Decisions
    /\ ConflictAnswers \subseteq Decisions
    /\ ErrorAnswers = {} <=> ConflictAnswers = {}
    /\ MaxFaults \in Nat /\ MaxOperations \in Nat /\ MaxUses \in Nat

VARIABLES
    machine,    \* what is at each slot
    app,        \* whether the application runs
    archive,    \* what the snapshot file has for each slot
    snapshot,   \* the state of the snapshot file
    request,    \* the operation being executed
    agenda,     \* its stages still to come
    stage,      \* the stage it is in
    script,     \* the steps of the stage still to be tried
    skip_all,   \* skip_all, and ActionContext::skip_all_errors
    operations, uses, faults, \* how much of each bound is left
    aborted,    \* history: the callback has answered Abort
    silenced,   \* history: the callback has answered SkipAll to an error
    passed,     \* history: the slots, and NoSlot, of failures the operation survived, seen or not
    nagged,     \* history: the slots, and NoSlot, of the errors it was asked about after that
    observed,   \* history: what there was to see when no operation was running
    outcome     \* history: which operation ended last, and how

environment == <<operations, uses, faults>>
resources == <<machine, app, archive, snapshot>>
history == <<aborted, silenced, passed, nagged, observed, outcome>>
vars == <<resources, request, agenda, stage, script, skip_all, environment, history>>

NoSlot == <<0, 0>>

None == [name |-> "None", simulate |-> FALSE, force |-> FALSE]

Stage(phase, i) == [phase |-> phase, action |-> i]

NoStage == Stage("None", 0)

Idle == request = None

Forward(phase) == [n \in Actions |-> Stage(phase, n)]

\* A clean in document order, and one that begins one action too early.
Bug_Backward(phase) == [n \in Actions |-> Stage(phase, n)]

Bug_OneShort(phase) ==
    [n \in 1..(Len(Blueprint) - 1) |-> Stage(phase, Len(Blueprint) - n)]

Backward(phase) == [n \in Actions |-> Stage(phase, Len(Blueprint) + 1 - n)]

\* The stages of each operation.  A restore stops nothing before it overwrites;
\* a dry run runs no hooks.
Stages(r) ==
    LET shutdown == <<Stage("Shutdown", 0)>>
        startup == <<Stage("Startup", 0)>>
    IN CASE r.name = "Backup" ->
              shutdown \o <<Stage("Create", 0)>> \o Forward("Backup")
                \o <<Stage("Seal", 0)>> \o startup
         [] r.name = "Restore" ->
              <<Stage("Open", 0)>> \o Backward("Clean") \o Forward("Restore")
                \o (IF r.simulate THEN <<>> ELSE startup)
         [] r.name = "Clean" ->
              (IF r.simulate THEN <<>> ELSE shutdown) \o Backward("Clean")
         [] r.name = "Startup" -> startup
         [] r.name = "Shutdown" -> shutdown

\* run_lifecycle_hooks: force-only hooks run only when forced.  Without a
\* callback a failed startup hook is an error, a failed shutdown hook is not.
HookError(lifecycle) ==
    Protocol("next", Answers("next", "next", "fail"), IF lifecycle = "Shutdown" THEN "next" ELSE "fail")

\* Only the force-only hooks are run, and only when forced.
Bug_HookSteps(lifecycle, force) ==
    [n \in 1..Len(Hooks[lifecycle]) |->
        Step(IF Hooks[lifecycle][n] = "forced" /\ force THEN "hook" ELSE "pass", NoSlot, HookError(lifecycle))]

HookSteps(lifecycle, force) ==
    [n \in 1..Len(Hooks[lifecycle]) |->
        Step(IF Hooks[lifecycle][n] = "always" \/ force THEN "hook" ELSE "pass", NoSlot, HookError(lifecycle))]

\* The snapshot file: the callback is told, and its answer is not looked at.
WriterError == Protocol("ask", Answers("fail", "fail", "fail"), "fail")

Steps(st) ==
    CASE st.phase \in {"Shutdown", "Startup"} -> HookSteps(st.phase, request.force)
      [] st.phase = "Create" -> <<Step("create", NoSlot, WriterError)>>
      [] st.phase = "Seal" -> <<Step("seal", NoSlot, WriterError)>>
      [] st.phase = "Open" -> <<Step("open", NoSlot, WriterError)>>
      [] st.phase = "Backup" -> BackupSteps(st.action, machine)
      [] st.phase = "Clean" -> CleanSteps(st.action, machine, request.simulate)
      [] st.phase = "Restore" -> RestoreSteps(st.action, archive, request.simulate)

\* What can be at slot s to begin with.  A file of no bytes is saved and restored
\* like any other, so one of the contents stands for it.
Natural(s) ==
    IF s[2] = 0 /\ Blueprint[s[1]] = "Directory" THEN {"Absent", "Empty"}
    ELSE IF Blueprint[s[1]] = "Environment" THEN Contents \cup {"Absent", "Empty"}
         ELSE Contents \cup {"Absent"}

Machines ==
    {m \in [Slots -> Contents \cup {"Absent", "Empty"}] : WellFormed(m) /\ \A s \in Slots : m[s] \in Natural(s)}

\* What there is to see between operations.
Observed ==
    [machine |-> machine, app |-> app,
     saved |-> IF snapshot = "Complete" THEN {Saved(archive)} ELSE {}]

Init ==
    /\ machine \in Machines
    /\ app = "up"
    /\ archive = [s \in Slots |-> "Missing"] /\ snapshot = "None"
    /\ request = None /\ agenda = <<>> /\ stage = NoStage /\ script = <<>> /\ skip_all = FALSE
    /\ operations = MaxOperations /\ uses = MaxUses /\ faults = MaxFaults
    /\ aborted = FALSE /\ silenced = FALSE /\ passed = {} /\ nagged = {}
    /\ observed = Observed /\ outcome = <<"None", "none">>

-----------------------------------------------------------------------------
\* The snapshot a restore is asked for was loaded from an archive with a
\* blueprint.xml, which is written last.
Begin(r) ==
    /\ Idle /\ operations > 0
    /\ r.name = "Restore" => snapshot = "Complete"
    /\ operations' = operations - 1
    /\ request' = r
    /\ agenda' = Stages(r)
    /\ skip_all' = FALSE
    /\ aborted' = FALSE /\ silenced' = FALSE /\ passed' = {} /\ nagged' = {}
    /\ UNCHANGED <<resources, stage, script, uses, faults, observed, outcome>>

\* The loops of Orchestrator: the next hook list, action or file operation.
EnterStage ==
    /\ ~Idle /\ script = <<>> /\ agenda # <<>>
    /\ stage' = Head(agenda) /\ agenda' = Tail(agenda)
    /\ script' = Steps(Head(agenda))
    /\ UNCHANGED <<resources, request, skip_all, environment, history>>

Stop(how) ==
    /\ request' = None /\ agenda' = <<>> /\ stage' = NoStage /\ script' = <<>>
    /\ observed' = Observed'
    /\ outcome' = <<IF request.simulate THEN "DryRun" ELSE request.name, how>>

Succeed ==
    /\ ~Idle /\ script = <<>> /\ agenda = <<>>
    /\ UNCHANGED <<resources, skip_all, environment, aborted, silenced, passed, nagged>>
    /\ Stop("success")

step == Head(script)

Current(do) == script # <<>> /\ step.do = do

MoveOn ==
    /\ script' = Tail(script)
    /\ UNCHANGED <<request, agenda, stage, skip_all, operations, uses>>
    /\ UNCHANGED <<aborted, silenced, nagged, observed, outcome>>

Advance == MoveOn /\ UNCHANGED passed

\* A hook that works stops or starts the application.
RunHook ==
    /\ Current("hook")
    /\ app' = IF stage.phase = "Shutdown" THEN "down" ELSE "up"
    /\ Advance
    /\ UNCHANGED <<machine, archive, snapshot, faults>>

\* An archive that is opened for appending.
Bug_CreateArchive ==
    /\ Current("create")
    /\ snapshot' = "Open"
    /\ Advance
    /\ UNCHANGED <<machine, app, archive, faults>>

\* ZipSnapshotWriter::create replaces the file that is there.
CreateArchive ==
    /\ Current("create")
    /\ archive' = [s \in Slots |-> "Missing"]
    /\ snapshot' = "Open"
    /\ Advance
    /\ UNCHANGED <<machine, app, faults>>

\* Writing blueprint.xml, and finalize.
SealArchive ==
    /\ Current("seal")
    /\ snapshot' = "Complete"
    /\ Advance
    /\ UNCHANGED <<machine, app, archive, faults>>

\* Steps of the snapshot file, whose failure the callback is only told of.
FileSteps == {"create", "seal", "open"}

ResourceSteps == {"exists", "list", "save", "lookup", "conflict", "parent", "mkdir", "put", "drop"}

PerformStep ==
    /\ script # <<>> /\ step.do \in ResourceSteps
    /\ ~MustFail(step, machine, archive)
    /\ machine' = MachineAfter(step, machine, archive)
    /\ archive' = ArchiveAfter(step, machine, archive)
    /\ Advance
    /\ UNCHANGED <<app, snapshot, faults>>

\* ZipSnapshotReader::open, and steps with nothing to do.
PassStep ==
    /\ script # <<>> /\ step.do \in {"open", "pass"}
    /\ Advance
    /\ UNCHANGED <<resources, faults>>

\* A failure that nobody is told of: a value that could not be read is taken for
\* one that does not exist, an entry is skipped.
OverlookStep ==
    /\ "overlook" \in Faults /\ faults > 0
    /\ script # <<>> /\ CanOverlook(step, archive)
    /\ faults' = faults - 1
    /\ archive' = Overlooked(step, archive)
    /\ MoveOn /\ passed' = passed \cup {step.slot}
    /\ UNCHANGED <<machine, app, snapshot>>

\* An entry of the snapshot cannot be extracted, and is taken for an empty one.
MisreadStep ==
    /\ "corrupt" \in Faults /\ faults > 0
    /\ Current("put") /\ Blueprint[step.slot[1]] # "Directory"
    /\ faults' = faults - 1
    /\ machine' = [machine EXCEPT ![step.slot] = Misread(step.slot, machine)]
    /\ MoveOn /\ passed' = passed \cup {step.slot}
    /\ UNCHANGED <<app, archive, snapshot>>

-----------------------------------------------------------------------------
\* A writer that is not closed when the backup fails.
Bug_Abandon == UNCHANGED snapshot /\ Stop("failure")

\* A failed operation returns FALSE at once: nothing after it is run.  The
\* writer's destructor closes an archive that is open, without blueprint.xml.
Abandon ==
    /\ snapshot' = IF snapshot = "Open" THEN "Partial" ELSE snapshot
    /\ Stop("failure")

\* What the protocol of the step says comes next.
Resume(how) ==
    CASE how = "next" ->
            script' = Tail(script) /\ UNCHANGED <<request, agenda, stage, snapshot, observed, outcome>>
      [] how = "again" ->
            UNCHANGED <<script, request, agenda, stage, snapshot, observed, outcome>>
      [] how = "last" ->
            script' = <<script[Len(script)]>> /\ UNCHANGED <<request, agenda, stage, snapshot, observed, outcome>>
      [] how = "done" ->
            script' = <<>> /\ UNCHANGED <<request, agenda, stage, snapshot, observed, outcome>>
      [] how = "fail" ->
            IF stage.phase = "Clean" /\ ErrorAnswers # {} /\ step.do # "clean"
            THEN \* IAction::clean
                 /\ script' = <<Step("clean", <<stage.action, 0>>, CleanError)>>
                 /\ UNCHANGED <<request, agenda, stage, snapshot, observed, outcome>>
            ELSE Abandon

\* The callback of the command line answers every error with Abort, and so does
\* the one of the GUI from Cancel to the end of its job; a user who answers Abort
\* to one question is taken to stand by it.
MayAnswer(d) ==
    /\ d \in IF step.do = "conflict" THEN ConflictAnswers ELSE ErrorAnswers
    /\ aborted => d = "Abort"

\* skip_all is looked at before anybody is asked.
Silent == skip_all /\ step.site.silent # "ask"

Asks == ErrorAnswers # {} /\ DOMAIN step.site.answers # {}

Survived(how) ==
    passed' = IF how = "fail" \/ (step.do = "conflict" /\ how = "next") THEN passed
                                                                        ELSE passed \cup {step.slot}

Unattended ==
    LET how == IF Silent THEN step.site.silent ELSE step.site.alone
    IN /\ Silent \/ ~Asks
       /\ Resume(how) /\ Survived(how)
       /\ UNCHANGED <<skip_all, aborted, silenced, nagged>>

Ask(d) ==
    /\ ~Silent /\ Asks /\ MayAnswer(d)
    /\ Resume(step.site.answers[d]) /\ Survived(step.site.answers[d])
    /\ skip_all' = (skip_all \/ (d = "SkipAll" /\ step.do # "conflict"))
    /\ silenced' = (silenced \/ (d = "SkipAll" /\ step.do # "conflict"))
    /\ aborted' = (aborted \/ d = "Abort")
    /\ nagged' = IF silenced /\ step.do \notin FileSteps \cup {"conflict"} THEN nagged \cup {step.slot}
                                                                        ELSE nagged

\* A write that fails has changed what it had come to.
Fails ==
    \/ step.do = "clean" /\ UNCHANGED <<machine, faults>>
    \/ step.do \in ResourceSteps /\ MustFail(step, machine, archive) /\ UNCHANGED <<machine, faults>>
    \/ /\ "error" \in Faults /\ faults > 0
       /\ step.do \in FileSteps \cup {"hook"} \/ (step.do \in ResourceSteps /\ CanFail(step))
       /\ faults' = faults - 1
       /\ machine' \in Wreckage(step, machine)

FailStep ==
    /\ script # <<>> /\ Fails
    /\ UNCHANGED <<app, archive>>
    /\ Unattended \/ \E d \in Decisions : Ask(d)
    /\ UNCHANGED <<operations, uses>>

\* An exception is caught nowhere: the process dies in the middle of the step, and
\* leaves what there is.
Throw ==
    /\ "throw" \in Faults /\ faults > 0
    /\ script # <<>> /\ CanThrow(step)
    /\ faults' = faults - 1
    /\ machine' \in Wreckage(step, machine)
    /\ UNCHANGED <<app, archive, skip_all, operations, uses, aborted, silenced, passed, nagged>>
    /\ Abandon

Execute ==
    \/ EnterStage \/ Succeed
    \/ RunHook \/ CreateArchive \/ SealArchive \/ PerformStep \/ PassStep
    \/ OverlookStep \/ MisreadStep \/ FailStep \/ Throw

\* Between operations the user and the application do what they like.
Use ==
    /\ Idle /\ uses > 0
    /\ uses' = uses - 1
    /\ machine' \in Machines
    /\ app' \in {"up", "down"}
    /\ UNCHANGED <<archive, snapshot, request, agenda, stage, script, skip_all,
                   operations, faults, aborted, silenced, passed, nagged>>
    /\ observed' = Observed' /\ outcome' = <<"None", "none">>

Next == (\E r \in Requests : Begin(r)) \/ Execute \/ Use

\* An operation that has begun is executed by its thread.
Spec == Init /\ [][Next]_vars /\ WF_vars(Execute)

-----------------------------------------------------------------------------
(* Properties.                                                             *)

\* Every variable keeps its type; an operation is under way exactly when it has
\* been asked for; only a running backup has its archive open.
TypeOK ==
    /\ machine \in [Slots -> States] /\ archive \in [Slots -> Archived]
    /\ app \in {"up", "down"}
    /\ snapshot \in {"None", "Open", "Partial", "Complete"}
    /\ request \in Requests \cup {None}
    /\ Idle => agenda = <<>> /\ script = <<>> /\ stage = NoStage
    /\ snapshot = "Open" => request.name = "Backup"
    /\ skip_all \in BOOLEAN /\ aborted \in BOOLEAN /\ silenced \in BOOLEAN 
    /\ passed \subseteq Slots \cup {NoSlot} /\ nagged \subseteq Slots \cup {NoSlot}
    /\ operations \in 0..MaxOperations /\ uses \in 0..MaxUses /\ faults \in 0..MaxFaults

\* An operation ends in success, having survived no failure on its way.
Clear(name) == Succeed /\ request.name = name /\ ~request.simulate /\ passed = {}

\* A backup that met no failure has all of the machine that can be saved, and
\* nothing that is not there.
BackupIsFaithful == [][Clear("Backup") => Saved(archive) = Saveable(machine)]_vars

\* A restore that met no failure brings back what the snapshot holds, and
\* nothing else is left where the blueprint looks.
RestoreIsFaithful == [][Clear("Restore") => machine = Saved(archive)]_vars

\* A clean that met no failure leaves nothing.
CleanLeavesNothing == [][Clear("Clean") => \A s \in Slots : machine[s] = "Absent"]_vars

\* An action is cleaned when everything the later actions put in place is gone,
\* or has been passed over: what depends on a resource goes first.
CleansInReverse ==
    stage.phase = "Clean" /\ ~request.simulate =>
        \A s \in Slots : s[1] > stage.action =>
            machine[s] = "Absent" \/ \E p \in passed : p[1] = s[1]

\* A dry run changes nothing at all.
DryRunIsPure == [][request.simulate => UNCHANGED resources]_vars

\* Once the callback has answered Abort, a backup or a clean touches nothing more.
AbortStops == [][aborted /\ request.name \in {"Backup", "Clean"} => UNCHANGED <<machine, archive, app>>]_vars

\* Nor does any other operation: Abort stops the entire operation.
AbortStopsEverything == [][aborted /\ ~Idle => UNCHANGED <<machine, archive, app>>]_vars

\* Once the callback has answered SkipAll, no hook and no directory action asks
\* about an error again.  The other actions, and IAction::clean after them, do.
SkipAllSilences == \A s \in nagged : s # NoSlot /\ Blueprint[s[1]] # "Directory"

\* What a backup records, it reads while the application is stopped, unless a
\* failure to stop it was passed over.
BackupReadsQuietApp ==
    [][stage.phase = "Backup" /\ archive' # archive => app = "down" \/ NoSlot \in passed]_vars

\* A backup that succeeds leaves the application running, unless it survived the
\* failure of a hook, or has no hook to start it.
BackupStartsApp ==
    [][Succeed /\ request.name = "Backup" =>
        app = "up" \/ NoSlot \in passed \/ "always" \notin {Hooks["Startup"][n] : n \in DOMAIN Hooks["Startup"]}]_vars

\* Whether a failure can go unseen: one of the environment's, or a hosts entry, a
\* service or a key that cannot be read and, with nobody to ask, does not exist.
Unseen ==
    \/ Faults \cap {"overlook", "corrupt"} # {}
    \/ "error" \in Faults /\ \E i \in Actions : Blueprint[i] \in {"Hosts", "Service", "Registry"}

\* Without a callback, and whatever fails or throws, the operations are the ones the
\* user can expect: exact where every failure is seen, and where one may go
\* unseen, made of what was there, what was wanted, and gaps.  At most one slot
\* is left torn, by an operation that says that it has failed or that dies.
Manager == INSTANCE InstallManager WITH
    Image <- Saveable, Absent <- "Absent", Empty <- "Empty", Torn <- "Torn",
    machine <- observed.machine, saved <- observed.saved

KeepsItsPromise == Manager!Spec

\* Every operation comes to an end, unless it is asked to retry for ever.
OperationsEnd == ~Idle ~> Idle
=============================================================================
