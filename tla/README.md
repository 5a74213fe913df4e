# A TLA+ model of insti

insti takes snapshots of an installed application ("backup"), puts them back
("restore"), removes the application ("clean", "uninstall") and compares the
machine with a snapshot ("verify"). The repository has a core library
(`src/shared`), a command line tool (`src/insti`) and a GUI, instinctiv
(`src/instinctiv`), which drives the library from a worker thread.

The modules here model what depends on the order of steps: the protocol between
the GUI's two threads; what the operations do to the machine, the application
and the snapshot, step by step, when steps fail and somebody, or nobody, is asked
about it; and which snapshot is believed to be installed, in memory, in the cache
and on the screen, after any sequence of commands, scans, crashes and clicks.
Two algorithms that work on texts and lists are modelled beside them. Paths below are relative to the repository; `A/` is
`shared/src/actions/`.

## Inventory

| component | state | operations | what is hard, what makes it correct |
|---|---|---|---|
| **Worker thread** `instinctiv/worker_thread.*` | two SPSC queues of 256 messages; `m_running`, `m_busy`, `m_cancel_requested`; the job being executed | `post`, `poll`, `cancel`, destructor; `thread_func`, `process_message`, eight `do_*`, the callback's `on_progress`, `on_error`, `on_file_conflict`, `wait_for_decision` | two threads, two bounded queues, spinning on both; a wait *inside* a job that reads the same queue as the job loop; flags published in some order. Every job ends, every question gets its own answer, no request is lost, shutdown ends |
| **UI state machine** `instinctiv/instinctiv.cpp`, `app_state.*` | `progress_operation`, `show_progress_dialog`, `is_refreshing`, `first_refresh_done`, `dry_run`, the confirmation dialogs, the registry it shows | handlers of the nine `UIMessage`s; toolbar, context menu, dialogs, shortcuts | flags that mirror what the other thread does; dialogs that stay open over a running job; raw pointers into a registry that is replaced. A flag says what is really under way |
| **Orchestrator** `shared/src/core/orchestrator.cpp` | nothing between operations | `backup`, `restore`, `clean`, `verify`, `run_startup`, `run_shutdown` | early returns after part of the work is done. What succeeds has done all of it, but for what it could not see; what fails says so, and has done a part of it and nothing else |
| **Callback protocol** `core/action_callback.h`, `actions/action.*`, `core/action_context.*` | `skip_all_errors`, `simulate` | `handle_decision`, `check_archive_exists`, `clean` | five answers, interpreted in some forty places. Abort stops, SkipAll silences, a dry run is pure |
| **File actions** `A/copy_file.cpp`, `A/copy_directory.cpp` | files and directories | `backup`, `restore`, `do_clean`, `verify` | a loop over entries, each with a retry loop; filters; exceptions of iterations; writes that fail half-way. A snapshot is faithful |
| **Value actions** `A/environment.cpp`, `hosts.cpp`, `registry.cpp`, `multistring_entry.cpp`, `delimited_entry.cpp` | registry values, lists in them, lines of the hosts file | the same | what cannot be read counts as absent. An absence is only recorded when there is one |
| **Service action** `A/service_action.cpp` | the service's configuration | the same | stop, delete and recreate |
| **Hooks** `shared/src/hooks` | processes, services | `run` | the application has to be quiet while its resources are read |
| **Snapshot archive** `shared/src/snapshot` | the ZIP | `create`, `write_*`, `finalize`, `open`, `exists`, `read_*` | a writer whose destructor closes an unfinished archive; a file that is extracted straight into its target |
| **Registry and cache** `shared/src/registry` | the list of projects and instances; SQLite with blueprints and install status | `initialize`, `on_backup_complete`, `notify_restored`, `notify_cleaned` | status kept twice, in memory and in a database, under the spelling of a path, shared by two threads and by other processes; notifications that not everybody hears. A mark is honest, there is one, a scan changes none |
| **Blueprint and variables** `shared/src/core/blueprint.cpp`, `project.cpp`, `instance.cpp` | the variables | `resolve_variables`, `set_override`, `resolve`, `unresolve` | resolution in place, in the order of a map, in several passes; replacement of values inside texts that earlier replacements have made. What is made portable comes back the same |
| **Command line tool** `insti/main.cpp` | - | the commands | a process that is killed anywhere; what it does to snapshots around an operation: a re-backup removes its original. The last snapshot of a project survives |
| Settings, logging, rendering, installer | files, windows | - | I/O without a protocol |

How they interact: the UI thread *posts* a job; the worker thread *calls* the
orchestrator, which *calls* hooks and actions with an `ActionContext`; actions
*call back* through `IActionCallback`, which in the GUI *posts* a progress or a
question to the UI thread and, for a question, waits for a *posted* answer; at
the end the orchestrator *notifies* the registry, which the UI thread reads too
(shared state). The command line tool calls the orchestrator on its only thread,
with a callback that prints and answers every error with Abort.

Every hazard this code is exposed to is listed at its line in `PROJECT.json`
("hazards"), with the properties that are aimed at it.

## The modules

| module | models | |
|---|---|---|
| `WorkerThread` | `worker_thread.cpp`, the message handling and the controls of `instinctiv.cpp`, `app_state.*` | two processes |
| `Consultation` | what `IActionCallback` promises an action that asks | abstract |
| `Actions` | the seven kinds of action in `A/`, and the decision protocols | operators only |
| `Orchestrator` | `orchestrator.cpp`, on top of `Actions`; the life of a snapshot file | one operation at a time |
| `InstallManager` | what `orchestrator.h` promises the user, seen between operations | abstract |
| `InstallRegistry` | `snapshot_registry.cpp`, `blueprint_cache.cpp`: scans and notifications on files, cache and lists | clients that share disk and cache |
| `CommandLine` | the commands of `insti/main.cpp` on top of it | one process after the other |
| `InstallStatus` | what a mark means, recorded in history variables beside `CommandLine` | properties |
| `RegistryView` | the GUI on top of it: which registry is shown, which one a job gets | two threads, beside a command |
| `ListEntries` | the lists in `A/multistring_entry.cpp` and `A/delimited_entry.cpp` | processes on one value |
| `Variables` | `resolve_user_variables`, `set_override`, `resolve`, `unresolve` of `blueprint.cpp` | one blueprint |
| `WorkerThreadProofs` | theorems about `WorkerThread`, and the safety half of `Consultation` | proofs |
| `OrchestratorProofs` | theorems about `Orchestrator`: types, Abort, dry runs; lemmas: the order of stages, what steps a stage can hold, what each of them does | proofs |
| `ProgressProofs` | on top of it: how far an operation has come, what a backup, a restore and a clean have done when they end, and `InstallManager` | proofs |
| `CommandLineProofs` | lemmas about `InstallRegistry` and `CommandLine`: what each step of a client or a command keeps; used by the next two | proofs |
| `InstallStatusProofs` | theorems about `InstallStatus`: types, the last snapshot, what changes a status, marks | proofs |
| `RegistryViewProofs` | theorems about `RegistryView`: types, and that what is shown agrees with the cache | proofs |
| `ListEntriesProofs` | theorems about `ListEntries`, and lemmas about lists that are flattened | proofs |
| `VariablesProofs` | theorems about `Variables`, and lemmas about texts in which references are expanded and values replaced | proofs |
| `MCWorkerThread`, `MCOrchestrator`, `MCRegistry`, `MCRegistryView`, `MCListEntries`, `MCVariables` | the instances TLC checks | constants only |

`WorkerThread` implements `Consultation`, `Orchestrator` implements
`InstallManager`. TLC checks both refinements; the second is also proved, and of the
first the safety half (`Consultation!Safety`, its `Spec` without the fairness),
where nobody cancels. `CommandLine` and
`RegistryView` are compositions: they add the steps of a command, and of the GUI,
to the state of `InstallRegistry`, which both share.

### WorkerThread

The worker's program counter `wpc` follows one trip through the loop:

    idle -> entering -> clearing -> executing -> leaving -> idle      thread_func, do_*
                                      |   ^
                                   asking |                            on_error, on_file_conflict
                                      v   |
                                   waiting <-> polling                 wait_for_decision

with `aborted` for a job whose question was answered by the cancel flag and
`stopped` after `ShutdownWorker`. The UI's `upc` is `draining` (polling
`m_to_ui` until it is empty), `frame` (at most one input), `posting` (spinning
on a full queue), `cancelling`, `joining`, `closed`. A step of the model is at
most one access to shared state: `do_*` sets `m_busy` and clears
`m_cancel_requested` in two steps, `wait_for_decision` reads the flags in one
and the queue in another, a click on Cancel is decided on a `m_busy` that may be
out of date when the flag is stored.

A job is the messages it exchanges with the UI: reports, questions (where its
kind of job can ask any), and a completion. Names, paths and texts are left out.
A completion carries its job *for the properties only*: the handler looks at
`progress_operation`, as the code does. An operation
ends well or badly; a verification and a scan have no failure to report.

### Actions and Orchestrator

The machine, and the archive, are functions on *slots*: one per action, and for
a directory one per entry. An action is a sequence of steps (`exists`, `list`,
`save`, `lookup`, `conflict`, `parent`, `mkdir`, `put`, `drop`), each with a
*protocol* that says what becomes of the action when the step fails: with
`skip_all` set, for each answer of the callback, and without a callback. The
protocols are where the seven classes differ most, and where most of their code
is. An operation is a list of *stages* (a list of hooks, an action, the snapshot
file), which `EnterStage` turns into steps, and `Resume` is the one place where
a failure is turned into what happens next, `IAction::clean` included.

Faults of the environment are bounded by `MaxFaults`: `"error"`, a Windows call
that fails; `"overlook"`, a value that cannot be read and is taken for one that
does not exist, or an entry of a directory whose relative path cannot be computed
and which is logged and left out; `"corrupt"`, an entry of the archive that cannot
be extracted and is taken for an empty one; `"throw"`, an exception of an iteration
or of `extract_to_file`, which nobody catches.

A write that fails, or in which the process dies, is not undone. `Wreckage` is what
it may leave of its slot: the old state; for a file `"Empty"` or `"Torn"`, since
`extract_to_file` and `BinaryFile::write` truncate their target before they fill it; for a
hosts entry its absence or `"Torn"`, as `hosts` is rewritten whole; for a key
`"Torn"`, with a part of its values, also when it is removed. A variable, a list and
the configuration of a service are written, and a file is removed, by one call that
happens or does not.
A throw leaves wreckage too, which is more than the code can do: what throws in
`extract_to_file` runs before the target is opened.

A variable can exist and be empty. `backup` records it like one that is not set
(`Written`), and a restore then deletes it.

`InstallManager` states what a user who is not asked can expect between operations.
Where no failure can go unseen (`Unseen` is false) an operation that succeeds is
exact. Where one can, by a skipped entry, an unreadable value or an entry that
cannot be extracted, it may have left gaps: slots that are absent from the
snapshot, or on the machine as they were, absent or empty. One that fails, or
dies, leaves each slot as it was, as wanted or absent, except for one, `Broken`,
which may be torn: that is the slot it was at, as nobody goes on from it.

Between operations, `Use` lets the user and the application change the machine
at will (`MaxUses` times). History variables record what the callback has
answered and which failures were survived, so that properties can say "unless".

### InstallRegistry, CommandLine, InstallStatus, RegistryView

A *name* is a spelling of a path. Several may denote one file (`FileOf`); the
scan meets its own spellings only (`ScanOrder`), a user may type another, and the
rows of the cache and the entries of the lists compare spellings. The XML of an
instance is its project, and the `name="..."` that occur in it (`Mentions`),
because `mark_all_instances_not_installed` finds rows with a `LIKE` on the XML.

A *client* is a thread that scans or operates; `work[c]` is where it is. A scan
goes name by name, `looking -> storing -> looking`: the read of the cache and
the write that depends on it are two steps, as `get` and `put` are two
statements. An operation goes `ready -> executing`, and a restore through
`crediting`, since `notify_restored` unmarks all instances first and marks
one afterwards, in the cache and in memory. What the orchestrator does to the
machine is one step here; that it may fail half-way is in the model.

`CommandLine` runs one command after the other, each a process with a registry
of its own; `Kill` ends one at any step. `Delete` and `Import` are what somebody
else does to the files between them. `InstallStatus` only observes: `matches`
holds the snapshots the machine was last made from or saved to, `damaged` the
projects of which an operation began and did not succeed; the marks are judged
by them. `RegistryView` follows the pointers instead: a job carries the registry
it was posted with, a scan makes a new one, the UI thread replaces the one it
shows, and a registry nobody refers to is emptied and used again. What the two
threads say to each other is in `WorkerThread`; here a job is taken, done,
answered, and handled.

`ShownAgrees` compares the list that is shown with the cache, and has two
exceptions, which need a second project to matter. An entry whose file has since
been overwritten with a snapshot of another project keeps what it said of the old
one: the history variable `held` records of which projects each file has been a
snapshot, and `Remembers` extends it with each step that may write an archive. And
a project whose XML mentions the name of another is unmarked in the cache along
with it, but not in memory (`Plain` says that this is not the case).

### ListEntries

A value in the registry that is a list, and two clients that restore or clean an
entry of it, while others edit it. `is_in_list` and the read before the write
are two reads of the same value. A list is a sequence; equality ignores case
(`Folded`); an entry of a delimited list that contains the delimiter falls into
`Pieces` when it is read back.

### Variables

Texts are sequences of symbols, of which `${` and `}` are two. `resolved` is
changed in place, one variable after the other in the order of the map, for at
most one pass more than there are variables. `unresolve` is a recursion over the
variables that have a value and are not `Skipped`: the last one replaced is a
`Shortest`, in the text that the others have made. The order of the map is
arbitrary; which of several values of one length comes first is not fixed by the
code either (`std::sort`), and the theorems hold for any.

## The runs

Passing runs:

| run | instance | states | shows |
|---|---|---|---|
| `worker_jobs` | backup and restore that ask both questions, Refresh, Cancel, Close; queues of 5, two callbacks a job | 516,000 | `WaitingIsAnswerable`: `wait_for_decision` never waits for nothing, although it throws away what it does not want; `JobsEnd` |
| `worker_dialogue` | restores that ask both questions, Refresh, Settings, no Cancel; queues of 3, which can be full | 41,000 | `AsksAndAnswers` (implements `Consultation`), `AnswerMatchesQuestion` |
| `worker_exit` | clean and verify that ask nothing, every button, queues of 7 | 17,000 | `ShutdownStops`, `RefreshFlagHonest`, `DryRunIsHonoured` |
| `operations` | a file, a variable, a directory of two entries of which one is filtered, a hook each way; every answer but Retry; one error, overlooked value or entry, or corrupt entry; two operations and one change between them | 480,000 | what a backup, a restore and a clean that survived no failure have done (`BackupIsFaithful`, `RestoreIsFaithful`, `CleanLeavesNothing`), in which order (`CleansInReverse`), that Abort stops a backup or a clean, that SkipAll silences hooks and directories, that a backup reads a quiet application and starts it again, and that operations end |
| `promise_files` | the same resources, no callback (a library user), two errors or exceptions, three operations | 981,000 | implements `InstallManager` without anything unseen: what succeeds is exact, what fails or dies has done a part and torn at most one slot |
| `promise_values` | hosts entry, service, key, variable, no callback, two errors, unreadable values or corrupt entries, dry runs, a forced hook; three operations | 3,036,000 | the same where failures go unseen: gaps, and nothing that was neither there nor wanted; and `DryRunIsPure` |
| `snapshot_commands` | two projects, of which one mentions the other's name; two files, one with a second spelling; four commands, each failing or killed anywhere, and one deletion or copy | 1,747,000 | a mark is honest (`MarkIsHonest`), a project has one (`OneInstalled`), a scan changes none (`ScansKeepStatus`), the last snapshot of a project is never lost (`SnapshotsSurvive`) |
| `registry_view` | one project, two snapshots; three registries for the GUI, two clicks or restarts, and a command beside it, killed nowhere | 180,000 | what the GUI shows at rest is what the cache says (`ShownAgrees`); what a job saves comes to be shown (`SavedIsShown`) |
| `list_entries` | two clients, three operations, two edits by others; entries in two spellings, one containing the delimiter | 2,017,000 | what is restored is then found (`RestoreVerifies`), a clean undoes a restore (`CleanUndoesRestore`), nobody else's entries are touched (`KeepsOthers`) |
| `variables` | three variables and two built-in ones, one of which `unresolve` skips; six definitions, every order of the map, an override; all texts of three letters | 31,000 | acyclic variables are resolved in time (`AcyclicIsResolved`), a restore takes back what a backup made portable (`RoundTrip`), and the longest value wins (`LongestIsKept`) |

Runs that TLC refutes, each a disagreement between the code and what a comment
of the repository says (`PROJECT.json`, "findings", quotes them):

| run | what happens |
|---|---|
| `exit_while_asking` | the window is closed while an action asks: `wait_for_decision` pops the `ShutdownWorker` and forgets it, and `~WorkerThread` joins for ever |
| `abort_goes_on` | Abort, answered when the snapshot lacks an entry, ends that action only: the restore goes on |

### Bounds, and why they are enough

*Queues.* 256 is replaced by 3, 5 or 7. What matters is whether a queue can be
full, and with whom on which side. `Backlog` stops the user when so many messages
wait; in the passing runs it keeps a full queue and an open question apart (with
both queues full the threads wait for each other, below). *Callbacks.* Two a job:
two questions in a row are the shortest job in which an answer can reach the
wrong question. *Slots.* Two entries, one of them filtered, tell apart a
directory that is saved whole, in part and not at all; three actions give every
action an earlier and a later one. *Contents* is one value: no code compares two.
*Faults.* One with a callback, so that what follows it is the callback's doing;
two without, so that a failure hits the handling of an earlier one. What succeeds is
exact in `promise_files` only, since the value actions take a failed read for absence;
that they are exact where nothing fails, and that a directory whose entries are
skipped has gaps and no more, follows from `PromiseIsKept` for every blueprint. *Operations.*
A backup and a restore, a clean in between in the runs with three.
*Commands.* Four: back up two snapshots, restore one, and look. A second mark, a
mark that survives its snapshot and a row that is reused all happen within three.
*Names.* A second spelling of one file, met by no scan, is the shortest way to a
row nobody shows. *Clicks.* Two and a command: a job that is posted while a scan
runs is the interleaving that matters; two scans and a job need three registries
beside the command's. *Edits.* Two: one between the two reads of a client, one
between its read and its write. *Definitions.* Texts that refer to nothing, to
one variable, to two, or to a built-in one give the chains and the cycles of every
length on three variables, and references that fork; a value that is also the name
of another variable makes the clash.

Deadlock is checked in `worker_jobs` and `worker_dialogue`, in which nobody closes
the window. In the other runs a behaviour stops when its operations, commands,
clicks or passes are used up, or the window is closed, so they say
`CHECK_DEADLOCK FALSE`.

### Fairness

`WorkerThread` has weak fairness of each thread: the scheduler runs both, jobs
return from every callback and from every action (`thread_func` is a loop with a
sleep, the UI renders frames for as long as it runs). Nothing is assumed of the
user: an input is one of the things a frame may do, never one it must. Since
fairness is of the thread and not of an action, a spinning `post` and a wait are
never helped on. `Orchestrator` has weak fairness of `Execute`: the thread that
runs an operation goes on with it and the callback returns. Both callbacks of
the repository answer without a person. `RegistryView` has weak fairness of the
GUI's worker (a loop that takes the next job) and of `Handle` (each frame polls);
nobody has to click, and no command has to be given or to go on. The other
modules have no liveness to speak of.

## The proofs

The theorems hold for every value of the constants that satisfies the named
assumptions of the modules. Where a theorem has a further hypothesis it is stated
below with the behaviour that makes it necessary. Almost none of the invariants
the runs check is inductive, and each entry says what had to be added.

### The two threads

`WorkerThreadProofs`, for every queue size, every set of operations, buttons and
questions, and every bound, from `ParametersAssumption`:

* `TypeCorrect`, `Spec => []TypeOK`. No queue outgrows its capacity. That
  `RetryPost` posts a message needs `upc = "posting" <=> pending # NoMessage`, that
  `Finish` reports a job needs "a job except between jobs", that `Ask` asks a
  question needs "a question while asking". These are the conjuncts of
  `Structure`, and `TypedState == TypeOK /\ Structure` is inductive.
* `NeverWaitsInVain`, `Spec => []WaitingIsAnswerable`. A worker inside
  `wait_for_decision` always has its prompt in `m_to_ui`, or a decision in
  `m_to_worker` or in the hands of the UI thread. The step that matters is
  `IgnoreMessage`: what it throws away is not a decision; and a decision leaves
  the queue only with the wait. A stale decision, left over from a
  question that was cancelled, counts as an answer here.
* `AnswersMatch`, `Spec => AnswerMatchesQuestion` where nobody cancels. The
  invariant `InDialogue` adds to `TypedState` that nothing interrupts a wait
  (`Undisturbed`) and that the dialogue is at one of four places (`Staged`): no question and no answer about
  (`Quiet`), the prompt in `m_to_ui` (`Asked`), the answer in `m_to_worker` (`Sent`),
  or in the hands of the UI thread, which waits for room to post it (`Held`). With
  Cancel it is false: the answer to a question that was cancelled stays in the queue.
* `DialogueIsTheOnePromised`, `Spec => Dialogue!Safety` under the same hypothesis:
  the initial state and every step of the two threads map to `Consultation`.
  `NextMoves` says that each step is a move of the dialogue or one that the
  dialogue does not notice.
* `DryCleansStayDry`, `Spec => DryRunIsHonoured`. A clean that does not fit into
  `m_to_worker` is posted frames later; `PendingHonest` says that what the UI thread
  spins to post was made under the `dry_run` that still holds.
* `QuietScansAreKept`, `Questions = {} /\ Spec => []RefreshFlagHonest`, by the
  invariant that without questions the worker is never in a wait: then a scan
  moves from `pending` through `m_to_worker` and `job` to `m_to_ui`, and nothing
  takes it away. With questions it is false (below).

### The operations

`OrchestratorProofs` and `ProgressProofs`, for every blueprint, directory size,
filter, list of hooks, callback, number of faults and bound, from
`OrchestratorAssumption`. In the first:

* `TypeCorrect`, `Spec => []TypeOK`. Its part that is not about types is that an
  archive is open only during a backup: whatever fails, and whatever is answered,
  no operation ends with the file still open. The inductive invariant is
  `TypedState == TypeOK /\ Plan /\ Sealing`. `Plan` says that agenda, stage and
  script fit the request: the stages come from `StagesOf(request)`, the steps
  from `StepsIn(stage.phase)`, so only a backup creates an archive and only a
  restore can meet `check_archive_exists`. `Sealing` says that while the archive is
  open the step that seals it is still to come; without it `Succeed` could end a
  backup whose file is open.
* `AbortIsFinal`, `Spec => AbortStops`. After an Abort a backup or a clean changes
  nothing more. The invariant adds `Stopping`: after an Abort nothing is left but
  the question `IAction::clean` asks about the failure it has caught. `FirmSteps`
  is the lemma that matters: every protocol such an operation can meet turns Abort
  into a failure. It is false of a restore, whose `check_archive_exists` does not
  (`abort_goes_on`).
* `DryRunsArePure`, `Spec => DryRunIsPure`, if each simulated request is one that
  heeds `simulate` (`Heeded`: it meets no list, and no directory if it is a
  restore). The invariant adds `Dry`: the script of a dry run holds only steps
  that look. Lists ignore `simulate`, and a dry run of a restore creates the base of a
  directory (below): without `Heeded` it is false.

Its second half follows an operation through its stages. `Ordered == Course /\ Fitting
/\ Sane /\ Mounted` is inductive on top of `TypedState`: agenda and stage are where
`Stages(request)` says they are (`Course`), the script holds only steps that fit its
stage (`Fitting`), and each entry of a directory finds its base there or will create
it first (`Mounted`). Its lemmas say what a step of each stage can change.

`ProgressProofs` proves what an operation has done when it ends. The invariant is
`Progress == TypedState /\ Ordered /\ Remembered /\ Emptying /\ Recording /\ Bringing
/\ Hooked /\ Unnagging`: how much of the machine is empty (`Emptying`), recorded
(`Recording`) or brought back (`Bringing`), action by action and slot by slot, at each
point of each stage. From it:

* `CleanIsInReverse`, `Spec => []CleansInReverse`, and `CleanedIsEmpty`, `Spec =>
  CleanLeavesNothing`.
* `RestoredIsSaved`, `Spec => RestoreIsFaithful`. That a slot which the snapshot does
  not have is absent afterwards is the work of the cleaning before, so the proof
  needs `Emptying` too.
* `BackedUpIsSaveable`, `Spec => BackupIsFaithful`. The slots that the filters leave
  out, and directories with nothing to save, are what `Saveable` is about.
* `BackupIsQuiet`, `Spec => BackupReadsQuietApp`, if the blueprint has a shutdown hook
  that every requested backup runs (without one nothing stops the application), and
  `BackupEndsWithApp`, `Spec => BackupStartsApp`.
* `SkipAllIsHeard`, `Spec => []SkipAllSilences`.
* `PromiseIsKept`, `ErrorAnswers = {} /\ Heeded /\ Spec => KeepsItsPromise`:
  `Orchestrator` implements `InstallManager`. Each step is a step of the operation it is
  mapped to, or none, wherever a failure or an exception strikes, and whether it is
  seen or not. Without a callback, since a user may answer Continue or Skip to any
  number of torn files. Where nothing can go unseen, success is exact by the
  theorems above: `passed` is empty when it comes (`AllSeen`). For the rest the
  invariant has one more conjunct, `Unwatched`, that does not look at `passed`: the
  archive of a backup has of each slot nothing, what is there, or the absence of a
  value (`Glimpsed`); and during a restore or a clean each slot is as it was,
  absent, and in a restore empty or as saved. A torn slot is none of these, and the
  invariant still holds: where nobody is asked, every protocol of a step that writes ends the
  operation (`FailureSeen`), so the step that tears is the one in which the operation
  ends, and `BrokenAtOne` says that it has torn its own slot only.

### The registry

`CommandLineProofs`, `InstallStatusProofs` and `RegistryViewProofs`, for
any number of projects, files, spellings, clients, registries, commands and changes,
from the assumptions on the constants. `CommandLineProofs` holds what the others
share: `Shape` says for each place of a client what its fields hold there, and a
lemma for each step says that it keeps types and shapes; `LeastExists`, that a set of
numbers has a least one, is there for `FirstFor`. In `InstallStatusProofs`:

* `CommandsAreTyped`, `StatusSpec => []CommandTypeOK`. Not inductive as it stands:
  that `notify_restored` looks for a project needs "a restore that executes has
  one", that a scan stores needs "an instance is loaded". `Shaped` says so of the
  command and every other client, and `Inv == CommandTypeOK /\ Shaped` is inductive.
* `TheLastSnapshotSurvives`, `StatusSpec => SnapshotsSurvive`. Only `EndCommand`
  can lose a file of a project nobody wanted overwritten or deleted, by removing
  the original of a re-backup. The invariant that makes it safe, `BackupIsSafe`, is
  about what the command has reached: from `executing` on, the original still holds
  its project or the wish covers it, and when the backup has succeeded the target
  holds the same project. `StepOfBackup` follows the steps of a backup,
  `EndSurvives` the removal. The case that would break it, a re-backup onto its own
  path, is covered by the wish: the path is the command's own target.
* `StatusIsKept`, `StatusSpec => ScansKeepStatus`. The scan's `put` writes the
  status it has read before, for a file it has opened before, and could write an
  old status or one of another project. `Known` says why it does not while one
  process runs: a row whose stamp is fresh describes what its file holds
  (`FreshTells`), an instance that has been loaded is what its file holds and has
  the status of its row (`LoadedTells`), and the snapshot that is restored is of the
  project that is notified (`RestoreTells`). With a second client it is false,
  which is the hazard of `snapshot_registry.cpp:222`.

Its second half is about the marks, that they are true, and that there is one:

* `MarksAreHonest`, `PlainNames /\ StatusSpec => []MarkIsHonest`. The hypothesis
  `PlainNames` says that the name of a project occurs in its XML as it is; a name
  with an `&` does not, since XML escapes it and the `LIKE` of
  `blueprint_cache.cpp:136` does not find it: its marks are never taken away.
  The invariant `Marks` has `Honest` for what is in the cache and `Vouches` for what
  the command is about to write. The step that matters is that `notify_restored`
  unmarks *every* snapshot of its project that will ever be listed: it only finds
  those that have a row which describes them, and they all have one, because the
  scan that began the command has passed each name, and nothing else has touched
  the files since.
* `OneIsMarked`, `PlainNames /\ StatusSpec => []OneInstalled`. A restore marks one
  snapshot after it has unmarked all, by the same argument. A backup marks its own
  if its list has no mark of the project, and `OneMark` says why the list can be
  trusted: what the scan has passed and is marked is in the list (`Sees`), so when
  the target is broken one mark is known or none is there (`MayWrite`), and when
  the new snapshot is entered as installed it is alone (`Alone`). A path that held a
  marked snapshot of another project joins `reused` at the moment it is broken.

`RegistryViewProofs`, about the GUI and a command that share the cache:

* `TheViewIsTyped`, `ViewSpec => []ViewTypeOK`. `TypedView` adds `Shaped`, that every
  queued job has what its handler needs (`Fit`), and that the registries of the GUI
  and of the command are never the same (`Apart`).
* `WhatIsShownAgrees`, `ViewSpec => []ShownAgrees`. The property speaks of the shown
  list when everything is at rest; the invariant `Agreed` of every list and at any
  time. `AllAgree`: of every leading, plain entry of a list that has missed nothing of
  its project, the row of the cache has the same project and status. `Storing`: what
  a scan has loaded and is about to write is what its own list will say. `Holding`:
  files, rows, lists and what is under way name only projects that `held` has
  recorded, which is why a plain entry describes its file. Four steps touch a row or
  an entry in place (`Hit`, `Store`, `UnmarkAll`, `Credit`), and in each of them list
  and cache change alike, or the change makes the other lists stale.

### The lists

`ListEntriesProofs`, for any number of clients, any strings, spellings and pieces,
any entries, operations and edits. The assumption on `Pieces` is what splitting
does: it yields at least one piece, and a piece is not split again.

The first half is about sequences. `Others` and `Stored` replace each string of a
list by none, one or several and flatten the result, and `FlattenSeq` is a recursive
function. Induction over sequences is stated without a predicate: `EverySequence`
says that a *set* of sequences with the empty one that is closed under `Append`
has them all, and follows, as `LeastNumber` does, from the order of the numbers
being well-founded. Each lemma then puts what it claims into such a set:
`EachOfConcat` (a concatenation is flattened part by part), `HasEach` (what is
in the result), `EachIsSame` (when nothing is replaced). From them, what the code's
operations on lists do: `RemovedSplits` (the first equal entry is taken out),
`RemovedHas`, `RemovedOthers` and `AddedOthers` (nothing else goes, and the rest keeps
its order), `RemovedNone` (when the entry is gone), `AddedIsRemoved` (removing takes back
what was added, order and spelling included), `StoredIsSame` and `StoredKeeps` (what
survives being split).

The second half is about processes. `Orderly` is the inductive invariant, for each
client the conjunction of `Doing` (what it will write is its operation applied to what
it has read, and unless a read failed or somebody else wrote, what it has read
is the value) and `Undoes` (what it can undo is the list to which its entry has been
added, until its clean has removed it). TLC has found `Orderly` to hold on the
instance of `list_entries`. From it:

* `ListTypeOK`, `Spec => []TypeOK`: in a value with delimiters no entry contains one.
* `RestoredVerifies`, `Spec => []RestoreVerifies`.
* `CleanedIsUndone`, `Spec => []CleanUndoesRestore`. A clean that finds nothing has
  read nothing (`UndoneIsThere`), so it is blind and not meant.
* `OthersAreKept`, `Spec => KeepsOthers`. `OnlyWrite` says that no other step ends a
  write well, `WriteKeepsOthers` what it keeps.

### The variables

`VariablesProofs`, for any symbols, names, built-in values, definitions and texts, of
any length, and for every order of the map.

*Texts.* `Expand` and `Replace` are recursive functions on the positions of a text.
`Chains` is the form that both have: at each position a piece, and the position to go
on at. From it follows that a pass over `u` and then `r` is what it makes of `u` and
then a pass over `r`, if it does not jump over the end of `u` (`ExpandFront`,
`ReplaceFront`), and from then on the proofs are about texts and not about
positions: `ExpandHit`, `ExpandOther`, `ReplaceHit`, `ReplaceMiss`, `ReplacePast` say
what is done with the first piece. The induction is on the length of a text and
again without a predicate: `EveryText` says that a *set* holds every text if it holds
each one of which it holds all shorter ones.

*Closed texts.* In arbitrary texts the properties are false: `${` at the end of one
value and `a}` at the beginning of the next make a reference that is in neither. In
`ClosedTexts` each `${` has its `}`, with letters between. Such a text begins with a
reference to a variable, or with something that stays (`ClosedSplits`); and so the
lemmas that carry the theorems hold: two closed texts are expanded one after the other
(`ExpandConcat`), to a closed text (`ExpandClosed`), which mentions what the values of
its references mention (`ExpandKnown`); and to put in values and then what they stand
for is to put in what they stand for (`ExpandExpand`).

* `VariablesTypeOK`, `Spec => []TypeOK`. That `Head(todo)` is a variable of the
  blueprint is in it, since `todo` is an end of `order`.
* `AlwaysResolved`, `WellFormed`, `Spec => []AcyclicIsResolved`. The hypothesis: names
  have no delimiters, built-in values no `${`, definitions are closed. The property says
  nothing about the passes; the invariant `Resolving(rank)` does, for every `rank` that
  falls along the references. `Falls`: a reference from `n` to `m` that is left after so
  many passes has `rank[m]` lower than `rank[n]` by that many, one more if this pass has
  come to `n` already. So after as many passes as there are variables no reference
  is left, and the one pass that the code allows itself beyond that changes nothing.
  That a pass without a change is the end is another matter: `Settles` takes
  the lowest variable that still has a reference, whose own value must then have come
  from a lower one that has one. That the values are those the definitions ask for
  is not an invariant of the values while they change; what is: whatever satisfies the
  equations of the texts as they are satisfies those of the definitions (`Fix`).
* `AlwaysKept`, `Spec => []LongestIsKept`. For the value of `n`, as long as the variables
  gone through are closed under longer values (`UpClosed`), the text is still the
  value, or the placeholder of one that has it (`Kept`). In any other order a shorter
  value inside it would be replaced first.
* `AlwaysRoundTrip`, `Tidy`, `Spec => []RoundTrip`. `Tidy` adds to `WellFormed` that
  built-in values and texts are letters, and that so is what is left of a definition
  without its references. Without it the property is false although nothing
  clashes: a value that begins with `}` also occurs where a placeholder ends and
  the rest of the value follows, and the replacement breaks the
  placeholder. `Cleanly` says that resolved values are letters then, also after an
  override. Every replacement keeps two things (`Portable`): the text consists of
  letters and references to the variables gone through (`Fine`), and it expands to what
  it was made of. `ReplaceFine` is the step: a value neither begins inside of a
  placeholder, by `~Clash`, nor before its end (`NotAcross`), so it is replaced in the
  letters only; and its own placeholder, of a variable not gone through before,
  expands to the value.

### What is only checked by TLC

The liveness properties (`JobsEnd`, `ShutdownStops`, `OperationsEnd`, `SavedIsShown`)
and the fairness half of `AsksAndAnswers`, which the prover cannot treat. Every
invariant and every action property of the passing runs has its theorem.

## What else the models show

Behaviours of the code that the models contain and that a reader of the code may
not expect. No run is spent on them; the properties that hold exclude them where
they say "unless".

* `wait_for_decision` also throws away `RefreshRegistry` (`worker_thread.cpp:130`):
  a scan asked for while an action asks is lost, `is_refreshing` stays set, and
  every Refresh control stays disabled.
* `m_busy` is published before `m_cancel_requested` is cleared
  (`worker_thread.cpp:189`): a click on Cancel in between is erased.
* The answer to a question that was cancelled stays queued and answers the first
  question of the next job (`worker_thread.cpp:112`, `instinctiv.cpp:1875`).
* A job that has more to report than `m_to_ui` has room for when the window is
  closed spins in `post_to_ui` (`worker_thread.cpp:92`) and is never joined; and
  with both queues full the two threads would spin on each other, although
  `worker_thread.h:315` calls `post` non-blocking.
* `OperationComplete` is attributed to `progress_operation`, the operation
  started last (`instinctiv.cpp:1850`): a dialog confirmed while a backup runs
  relabels it, and the new snapshot is not scanned.
* In the GUI, Dry-run has no effect on a restore but its label
  (`instinctiv.cpp:956`, `973`).
* A dry run of a restore creates the base of a directory (`copy_directory.cpp:569`).
* SkipAll does not silence the value actions, nor `IAction::clean`.
* A restore that skips a missing or unreadable archive entry of a file writes an
  empty file (`copy_file.cpp:128`) and succeeds.
* A restore that cannot write all of a file leaves what it has written in the place of
  the old one (`zip_reader.cpp:134`, `copy_file.cpp:131`); if the user then answers
  Skip, it goes on and succeeds.
* An entry of a directory whose relative path cannot be computed is missing from a
  backup that succeeds; nobody is asked or told, also without a callback
  (`copy_directory.cpp:152`, `229`).
* A variable that exists and is empty is saved as one that is not set, and removed
  by a restore (`environment.cpp:144`).
* A restore runs no shutdown hooks: it cleans and overwrites a running application.
* A backup that fails after the shutdown hooks leaves the application stopped
  (`orchestrator.cpp:117`, `150`, `171`, `181`).
* A directory with nothing to save in it is not in the snapshot, and a restore
  does not bring it back; it does remove what the filters left out of the backup.
* A list that cannot be read is cleaned successfully and keeps its entry
  (`multistring_entry.cpp:120`), and an unreadable key counts as an absent one
  (`registry.cpp:72`).
* A dry run of a list edits it (`multistring_entry.cpp:178`, `delimited_entry.cpp:148`),
  although `orchestrator.h:46` says that nothing is modified.

* Whether a service was running is read after the shutdown hooks may have stopped
  it (`service_action.cpp:109`): a restore leaves it stopped. Its state is not in the
  model.

Of the registry and the commands:

* A project whose name XML escapes keeps its marks in the cache for ever
  (`blueprint_cache.cpp:136`); the theorem about honest marks excludes such names.
* The cache never forgets a row: a snapshot that is saved or copied to a path
  that held a marked one inherits its mark, and two are marked
  (`snapshot_registry.cpp:48`). So do two clients that restore at the same time.
* A re-backup of the installed snapshot leaves none marked, since the new one is
  entered as not installed while the old one still counts as installed
  (`snapshot_registry.cpp:50`).
* `insti backup 1 <path of 1>` overwrites the only snapshot and then removes it
  (`main.cpp:406`).
* `notify_restored` finds the snapshot by its spelling: a relative path restores
  and marks nothing in memory (`main.cpp:110`).
* A restore or a clean that fails leaves the marks as they were
  (`orchestrator.cpp:259`); a backup that fails in its startup hooks leaves a
  complete archive that is not in the list.
* A scan that has read a status writes it back later: a mark removed in between
  comes back (`snapshot_registry.cpp:154`, `222`).
* `insti list --project X` numbers the snapshots of X, `resolve_reference` numbers all
  (`main.cpp:157`, `584`): the number shown is another snapshot's.

Of the lists: two clients that both find an entry missing both add it; an edit
between read and write is lost; a list that cannot be read is written back with
the new entry alone; a clean of a delimited list removes the first of equal
entries only; and an entry that contains the delimiter is never found present, is
added by each restore, and never removed.

Of the variables: a cycle of pure references is reported as resolved, since after
one round nothing changes (`blueprint.h:169` says "false if cycle detected"); a
value that occurs in the placeholder of another variable corrupts it in
`unresolve` (a user called "data" turns `${APPDATA}` into `${APP${USERNAME}}`);
`set_override` leaves the variables that refer to the overridden one as they were.

## Assumptions and what is not modelled

A user who answers Abort to one question of an operation does so again when
asked about its consequences (both callbacks do). Directories are flattened: an
entry is a file or an empty directory below the base. In `Orchestrator` one
snapshot of one project is followed, in `InstallRegistry` several, whose contents
are their project. `verify` reads only. A hook is one step. An exception ends
the process; what it leaves on the machine is what the next operation finds.
The cache can always be opened; SQLite executes a statement atomically, and the
statements succeed. The code does not rely on the last: when one fails it logs that
or does not look, and goes on with memory changed and the cache not
(`blueprint_cache.cpp:140`, `snapshot_registry.cpp:79`, `222`). What the cache then
holds is what a kill between the two leaves, which is modelled; a list in memory
that goes on beside it is not. The description of a service is no part of what a
service can be, since `write_config` does not look whether it could be set. Letters
have no case in `Variables`, and `%NAME%` is left out. `pnq::string::Expander`, a
submodule that is not in the repository, is modelled from how `blueprint.cpp` uses it.

Not modelled, because there is no protocol in it: drawing and windows, formatting,
XML and TOML, the text of SQL statements, logging, the installer. Not modelled,
because no caller reaches it: `installed_instance` and its INSTALLDIR cache,
`remove` and `clear` of the cache, the overrides of `ActionContext`. Not modelled yet: the raw pointers of the open dialogs into a
registry that has been released (`instinctiv.h:144`), the loops of the process and
service hooks, the text of `.reg` files, filtering and the blueprint editor of the
GUI. `PROJECT.json` says of each part how much of it is covered.

## The plan

Done, in this order: `WorkerThread`; `Actions` and `Orchestrator`; `InstallRegistry`
with `CommandLine`, `InstallStatus` and `RegistryView`; `ListEntries`; `Variables`;
theorems about all of them, one for each safety property that is checked.
Next:

1. The dialogs of `instinctiv.h` with their pointers, on top of `RegistryView`.
2. The loops of the process and service hooks, as an implementation of the one
   step they are in `Orchestrator`.
