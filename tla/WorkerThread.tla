---------------------------- MODULE WorkerThread ----------------------------
(***************************************************************************)
(* The two threads of the instinctiv GUI and the pair of bounded SPSC      *)
(* queues between them: the UI thread renders frames, polls the worker's   *)
(* messages and posts jobs; the worker thread takes one job at a time,     *)
(* reports progress, and blocks inside a job when an action asks what to   *)
(* do about an error or a file conflict (instinctiv/worker_thread.cpp,     *)
(* instinctiv/instinctiv.cpp, instinctiv/app_state.cpp).                   *)
(*                                                                         *)
(* What a job does to the machine is the business of module Orchestrator;  *)
(* here a job is the messages it exchanges with the UI.  The steps are as  *)
(* fine as the atomics and the queue operations the two threads share.     *)
(***************************************************************************)
EXTENDS Naturals, Sequences

CONSTANTS
    QueueSize,    \* capacity of each queue (WorkerThread::QUEUE_SIZE is 256)
    UserOps,      \* the operations the user may ask for in this instance
    Buttons,      \* the other inputs the user may give in this instance
    Questions,    \* what an action may ask in this instance
    MaxCallbacks, \* bound: the callbacks one job makes
    Backlog       \* bound: the user gives no input while this many messages wait

AllUserOps == {"Backup", "Restore", "Clean", "Verify", "Hook", "Startup", "Shutdown"}

AllButtons == {"Refresh", "Settings", "Cancel", "Close", "DryRun", "Exit"}

ASSUME ParametersAssumption ==
    /\ QueueSize \in Nat \ {0}
    /\ UserOps \subseteq AllUserOps
    /\ Buttons \subseteq AllButtons
    /\ Questions \subseteq {"Error", "Conflict"}
    /\ MaxCallbacks \in Nat
    /\ Backlog \in Nat

\* WorkerMessage: the eight messages that start a job (StartBackup ... and
\* RefreshRegistry), DecisionResponse and ShutdownWorker.  CancelOperation is
\* never posted by anyone: cancelling goes through the atomic flag.
Job == [type : {"Start"}, op : UserOps \cup {"Refresh"}, simulate : BOOLEAN]

Start(o, sim) == [type |-> "Start", op |-> o, simulate |-> sim]

RefreshRegistry == Start("Refresh", FALSE)

Decision(d) == [type |-> "Decision", decision |-> d]

ShutdownWorker == [type |-> "Shutdown"]

Decisions == {Decision("SkipAll"), Decision("Continue")}

WorkerMessage == Job \cup Decisions \cup {ShutdownWorker}

\* UIMessage: Progress and LogEntry are one kind; OperationComplete,
\* VerifyComplete and RegistryRefreshComplete carry the job they end, which
\* only the properties look at.
Progress == [type |-> "Progress"]

Prompt(q) == [type |-> "Prompt", question |-> q]

Complete(j, ok) == [type |-> "Complete", job |-> j, success |-> ok]

Prompts == [type : {"Prompt"}, question : Questions]

UIMessage ==
    {Progress} \cup Prompts
    \cup [type : {"Complete"}, job : Job, success : BOOLEAN]

\* The value progress_operation takes: the operation's name, or its dry-run form.
Label(o, dry) ==
    IF dry /\ o \in {"Restore", "Clean"} THEN <<"Dry-run", o>> ELSE <<"Real", o>>

NoLabel == <<"None", "None">>

Labels == {NoLabel} \cup ({"Dry-run", "Real"} \X UserOps)

\* Jobs whose callback may be asked a question, and which one: every action
\* and lifecycle hook reports errors, only restore overwrites files; verify,
\* a single hook and the registry scan ask nothing.
MayAsk(o, q) ==
    \/ q = "Error" /\ o \in {"Backup", "Restore", "Clean", "Startup", "Shutdown"}
    \/ q = "Conflict" /\ o = "Restore"

NoJob == [type |-> "NoJob"]

NoMessage == [type |-> "NoMessage"]

VARIABLES
    to_worker,     \* m_to_worker
    to_ui,         \* m_to_ui
    running,       \* m_running
    busy,          \* m_busy
    cancel,        \* m_cancel_requested
    wpc,           \* where the worker thread is
    job,           \* the job the worker is executing
    question,      \* the question it asked last
    callbacks,     \* callbacks the job may still make
    upc,           \* where the UI thread is
    pending,       \* the message the UI thread is spinning to post
    show_progress, \* AppState::show_progress_dialog
    progress_op,   \* AppState::progress_operation
    is_refreshing, \* AppState::is_refreshing
    first_refresh_done, \* AppState::first_refresh_done: there is something to select
    dry_run,       \* AppState::dry_run
    dialogs        \* the confirmation dialogs open: m_showBackupDialog, m_showUninstallConfirm

atomics == <<running, busy, cancel>>
workerVars == <<wpc, job, question, callbacks>>
view == <<show_progress, progress_op, is_refreshing, first_refresh_done, dry_run, dialogs>>
workerSide == <<to_ui, atomics, workerVars>>
uiSide == <<upc, pending, view>>
vars == <<to_worker, to_ui, atomics, workerVars, uiSide>>

\* AppState::initialize: the first registry scan is posted before the first frame.
Init ==
    /\ to_worker = <<RefreshRegistry>>
    /\ to_ui = <<>>
    /\ running = TRUE /\ busy = FALSE /\ cancel = FALSE
    /\ wpc = "idle" /\ job = NoJob /\ question = "None" /\ callbacks = 0
    /\ upc = "draining" /\ pending = NoMessage
    /\ show_progress = FALSE /\ progress_op = NoLabel
    /\ is_refreshing = TRUE /\ first_refresh_done = FALSE
    /\ dry_run = FALSE /\ dialogs = {}

-----------------------------------------------------------------------------
(* The worker thread.                                                      *)

\* A queue that forgets its capacity.
Bug_PostToUI(m) == to_ui' = Append(to_ui, m)

\* post_to_ui spins until there is room: a full queue blocks the step.
PostToUI(m) ==
    /\ Len(to_ui) < QueueSize
    /\ to_ui' = Append(to_ui, m)

\* thread_func and process_message: the message at the head of the queue.
Dequeue(type) ==
    /\ wpc = "idle" /\ running
    /\ to_worker # <<>> /\ Head(to_worker).type = type
    /\ to_worker' = Tail(to_worker)

TakeJob ==
    /\ Dequeue("Start")
    /\ job' = Head(to_worker)
    /\ callbacks' = IF job'.op = "Refresh" THEN 0 ELSE MaxCallbacks
    /\ wpc' = "entering"
    /\ UNCHANGED <<to_ui, atomics, question, uiSide>>

\* No branch of process_message is for a decision: outside a wait it is dropped.
DiscardDecision ==
    /\ Dequeue("Decision")
    /\ UNCHANGED <<workerSide, uiSide>>

StopWorker ==
    /\ Dequeue("Shutdown")
    /\ running' = FALSE
    /\ wpc' = "stopped"
    /\ UNCHANGED <<to_ui, busy, cancel, job, question, callbacks, uiSide>>

\* Every do_* sets m_busy and then clears m_cancel_requested: two stores.
SetBusy ==
    /\ wpc = "entering"
    /\ busy' = TRUE
    /\ wpc' = "clearing"
    /\ UNCHANGED <<to_worker, to_ui, running, cancel,
                   job, question, callbacks, uiSide>>

ClearCancel ==
    /\ wpc = "clearing"
    /\ cancel' = FALSE
    /\ wpc' = "executing"
    /\ UNCHANGED <<to_worker, to_ui, running, busy,
                   job, question, callbacks, uiSide>>

\* A step inside a job that moves only the worker's program counter.
Goto(next) ==
    /\ wpc' = next
    /\ UNCHANGED <<atomics, job, question, callbacks, uiSide>>

\* WorkerCallback::on_progress and on_warning.
Report ==
    /\ wpc = "executing" /\ callbacks > 0
    /\ callbacks' = callbacks - 1
    /\ PostToUI(Progress)
    /\ UNCHANGED <<to_worker, atomics, wpc, job, question, uiSide>>

\* WorkerCallback::on_error and on_file_conflict look at the flag first ...
Consult(q) ==
    /\ wpc = "executing" /\ callbacks > 0
    /\ MayAsk(job.op, q)
    /\ callbacks' = callbacks - 1
    /\ question' = q
    /\ wpc' = IF cancel THEN "aborted" ELSE "asking"
    /\ UNCHANGED <<to_worker, to_ui, atomics, job, uiSide>>

\* ... then post the question and enter wait_for_decision ...
Ask ==
    /\ wpc = "asking"
    /\ PostToUI(Prompt(question))
    /\ Goto("waiting")
    /\ UNCHANGED to_worker

\* ... whose loop reads the flags ...
GivesUp == ~running \/ cancel

CheckCancel ==
    /\ wpc = "waiting"
    /\ Goto(IF GivesUp THEN "aborted" ELSE "polling")
    /\ UNCHANGED <<to_worker, to_ui>>

\* A decision that is read but left in the queue.
Bug_ReceiveDecision ==
    /\ wpc = "polling"
    /\ to_worker # <<>> /\ Head(to_worker).type = "Decision"
    /\ Goto("executing")
    /\ UNCHANGED <<to_worker, to_ui>>

\* ... and then the queue: a decision ends the wait, any other message is
\* popped and forgotten, and an empty queue is looked at again later.
ReceiveDecision ==
    /\ wpc = "polling"
    /\ to_worker # <<>> /\ Head(to_worker).type = "Decision"
    /\ to_worker' = Tail(to_worker)
    /\ Goto("executing")
    /\ UNCHANGED to_ui

\* A wait that throws away decisions like every other message.
Bug_IgnoreMessage ==
    /\ wpc = "polling"
    /\ to_worker # <<>>
    /\ to_worker' = Tail(to_worker)
    /\ Goto("waiting")
    /\ UNCHANGED to_ui

IgnoreMessage ==
    /\ wpc = "polling"
    /\ to_worker # <<>> /\ Head(to_worker).type # "Decision"
    /\ to_worker' = Tail(to_worker)
    /\ Goto("waiting")
    /\ UNCHANGED to_ui

PollEmpty ==
    /\ wpc = "polling"
    /\ to_worker = <<>>
    /\ Goto("waiting")
    /\ UNCHANGED <<to_worker, to_ui>>

\* The job ends with one completion message; a scan and a verification have no
\* failure to report in it.
Finish ==
    /\ wpc = "executing"
    /\ \E ok \in BOOLEAN :
          /\ ~ok => job.op \notin {"Refresh", "Verify"}
          /\ PostToUI(Complete(job, ok))
    /\ Goto("leaving")
    /\ UNCHANGED to_worker

\* An aborted job fails, except that a restore swallows the Abort it got for an
\* entry missing from the archive and goes on (CopyFileAction::restore,
\* CopyDirectoryAction::restore).
AbortJob ==
    /\ wpc = "aborted"
    /\ PostToUI(Complete(job, FALSE))
    /\ Goto("leaving")
    /\ UNCHANGED to_worker

SwallowAbort ==
    /\ wpc = "aborted" /\ job.op = "Restore" /\ question = "Error"
    /\ Goto("executing")
    /\ UNCHANGED <<to_worker, to_ui>>

Leave ==
    /\ wpc = "leaving"
    /\ busy' = FALSE
    /\ wpc' = "idle" /\ job' = NoJob /\ question' = "None" /\ callbacks' = 0
    /\ UNCHANGED <<to_worker, to_ui, running, cancel, uiSide>>

WorkerNext ==
    \/ TakeJob \/ DiscardDecision \/ StopWorker
    \/ SetBusy \/ ClearCancel
    \/ Report \/ (\E q \in Questions : Consult(q)) \/ Ask
    \/ CheckCancel \/ ReceiveDecision \/ IgnoreMessage \/ PollEmpty
    \/ Finish \/ AbortJob \/ SwallowAbort \/ Leave

-----------------------------------------------------------------------------
(* The UI thread.                                                          *)

\* WorkerThread::post spins while the queue is full.
PostThen(m, next) ==
    \/ /\ Len(to_worker) < QueueSize
       /\ to_worker' = Append(to_worker, m)
       /\ upc' = next
       /\ UNCHANGED pending
    \/ /\ Len(to_worker) = QueueSize
       /\ pending' = m
       /\ upc' = "posting"
       /\ UNCHANGED to_worker

Post(m) == PostThen(m, "draining")

NoPost(next) == upc' = next /\ UNCHANGED <<to_worker, pending>>

RetryPost ==
    /\ upc = "posting" /\ Len(to_worker) < QueueSize
    /\ to_worker' = Append(to_worker, pending)
    /\ upc' = IF pending = ShutdownWorker THEN "joining" ELSE "draining"
    /\ pending' = NoMessage
    /\ UNCHANGED <<workerSide, view>>

\* process_worker_messages: poll and handle until the queue is empty.
Poll(type) ==
    /\ upc = "draining"
    /\ to_ui # <<>> /\ Head(to_ui).type = type
    /\ to_ui' = Tail(to_ui)
    /\ UNCHANGED <<atomics, workerVars>>

HandleProgress ==
    /\ Poll("Progress")
    /\ UNCHANGED <<to_worker, uiSide>>

\* The answer the UI gives to each question, without asking the user.
Answer(q) == IF q = "Error" THEN Decision("SkipAll") ELSE Decision("Continue")

\* A UI that has no branch for file conflicts.
Bug_Respond(q) == IF q = "Error" THEN Post(Answer(q)) ELSE NoPost("draining")

Respond(q) == Post(Answer(q))

HandlePrompt ==
    /\ Poll("Prompt")
    /\ Respond(Head(to_ui).question)
    /\ UNCHANGED view

\* A handler that forgets to clear is_refreshing.
Bug_HandleRefreshComplete ==
    /\ Poll("Complete") /\ Head(to_ui).job.op = "Refresh"
    /\ first_refresh_done' = TRUE
    /\ UNCHANGED <<to_worker, upc, pending, show_progress, progress_op, is_refreshing,
                   dry_run, dialogs>>

HandleRefreshComplete ==
    /\ Poll("Complete") /\ Head(to_ui).job.op = "Refresh"
    /\ is_refreshing' = FALSE
    /\ first_refresh_done' = TRUE
    /\ UNCHANGED <<to_worker, upc, pending, show_progress, progress_op, dry_run, dialogs>>

\* OperationComplete: what the UI does next depends on progress_operation, the
\* label of the operation started last, not on the job that completed.
RefreshAfter(c) == c.job.op # "Verify" /\ c.success /\ progress_op = Label("Backup", FALSE)

HandleComplete ==
    /\ Poll("Complete") /\ Head(to_ui).job.op # "Refresh"
    /\ IF RefreshAfter(Head(to_ui))
       THEN is_refreshing' = TRUE /\ Post(RefreshRegistry)
       ELSE UNCHANGED is_refreshing /\ NoPost("draining")
    /\ UNCHANGED <<show_progress, progress_op, first_refresh_done, dry_run, dialogs>>

Drained ==
    /\ upc = "draining" /\ to_ui = <<>>
    /\ NoPost("frame")
    /\ UNCHANGED <<workerSide, view>>

\* The rest of a frame: at most one input, then the next frame.
Input == upc = "frame" /\ Len(to_worker) < Backlog

IdleFrame ==
    /\ upc = "frame"
    /\ NoPost("draining")
    /\ UNCHANGED <<workerSide, view>>

\* What every control that rescans the registry does.
Rescan ==
    /\ is_refreshing' = TRUE
    /\ Post(RefreshRegistry)
    /\ UNCHANGED <<workerSide, show_progress, progress_op, first_refresh_done,
                   dry_run, dialogs>>

\* Ctrl+R, F5, View > Refresh and the toolbar button: not while refreshing.
PressRefresh ==
    /\ Input /\ "Refresh" \in Buttons
    /\ ~is_refreshing
    /\ Rescan

\* Settings > OK, and Save and Delete of the blueprint editor: at any time.
ConfirmSettings ==
    /\ Input /\ "Settings" \in Buttons
    /\ Rescan

ToggleDryRun ==
    /\ Input /\ "DryRun" \in Buttons /\ ~show_progress
    /\ dry_run' = ~dry_run
    /\ NoPost("draining")
    /\ UNCHANGED <<workerSide, show_progress, progress_op, is_refreshing,
                   first_refresh_done, dialogs>>

\* The progress view shows Cancel while m_busy is set; the click stores the flag.
PressCancel ==
    /\ Input /\ "Cancel" \in Buttons
    /\ show_progress /\ busy
    /\ NoPost("cancelling")
    /\ UNCHANGED <<workerSide, view>>

SetCancel ==
    /\ upc = "cancelling"
    /\ cancel' = TRUE
    /\ NoPost("draining")
    /\ UNCHANGED <<to_ui, running, busy, workerVars, view>>

\* Close, or Escape: only while m_busy is clear.
PressClose ==
    /\ Input /\ "Close" \in Buttons
    /\ show_progress /\ ~busy
    /\ show_progress' = FALSE
    /\ NoPost("draining")
    /\ UNCHANGED <<workerSide, progress_op, is_refreshing, first_refresh_done,
                   dry_run, dialogs>>

\* The toolbar and the table's context menu: something is selected, no progress
\* view covers them, and the buttons are disabled while m_busy is set.
CanStart == Input /\ first_refresh_done /\ ~show_progress /\ ~busy

Confirmed == {"Backup", "Clean"}   \* operations asked for in a dialog of their own

\* A dry run that is a matter of the label alone.
Bug_Begin(o) ==
    /\ progress_op' = Label(o, dry_run)
    /\ show_progress' = TRUE
    /\ Post(Start(o, FALSE))
    /\ UNCHANGED <<workerSide, is_refreshing, first_refresh_done, dry_run>>

\* What every start_* and every confirmed dialog does.
Begin(o) ==
    /\ progress_op' = Label(o, dry_run)
    /\ show_progress' = TRUE
    /\ Post(Start(o, dry_run /\ o = "Clean"))
    /\ UNCHANGED <<workerSide, is_refreshing, first_refresh_done, dry_run>>

StartOperation(o) ==
    /\ CanStart /\ o \notin Confirmed
    /\ Begin(o)
    /\ UNCHANGED dialogs

OpenDialog(o) ==
    /\ CanStart /\ o \in Confirmed \ dialogs
    /\ dialogs' = dialogs \cup {o}
    /\ NoPost("draining")
    /\ UNCHANGED <<workerSide, show_progress, progress_op, is_refreshing,
                   first_refresh_done, dry_run>>

\* The dialogs are windows of their own: they stay usable whatever happens.
ConfirmDialog(o) ==
    /\ Input /\ o \in dialogs
    /\ dialogs' = dialogs \ {o}
    /\ Begin(o)

DismissDialog(o) ==
    /\ Input /\ o \in dialogs
    /\ dialogs' = dialogs \ {o}
    /\ NoPost("draining")
    /\ UNCHANGED <<workerSide, show_progress, progress_op, is_refreshing,
                   first_refresh_done, dry_run>>

\* A destructor that joins without telling the thread to stop.
Bug_Exit ==
    /\ Input /\ "Exit" \in Buttons
    /\ NoPost("joining")
    /\ UNCHANGED <<workerSide, view>>

\* Closing the window destroys AppState::worker: ~WorkerThread posts
\* ShutdownWorker and joins the thread; nobody polls m_to_ui any more.
Exit ==
    /\ Input /\ "Exit" \in Buttons
    /\ PostThen(ShutdownWorker, "joining")
    /\ UNCHANGED <<workerSide, view>>

Join ==
    /\ upc = "joining" /\ wpc = "stopped"
    /\ NoPost("closed")
    /\ UNCHANGED <<workerSide, view>>

UINext ==
    \/ HandleProgress \/ HandlePrompt \/ HandleRefreshComplete \/ HandleComplete
    \/ Drained \/ RetryPost
    \/ IdleFrame \/ PressRefresh \/ ConfirmSettings \/ ToggleDryRun
    \/ PressCancel \/ SetCancel \/ PressClose
    \/ \E o \in UserOps :
          StartOperation(o) \/ OpenDialog(o) \/ ConfirmDialog(o) \/ DismissDialog(o)
    \/ Exit \/ Join

Next == WorkerNext \/ UINext

\* Both threads run: the worker loops until it stops and every callback of a
\* job returns; the UI thread keeps rendering frames until it joins.
Fairness == WF_vars(WorkerNext) /\ WF_vars(UINext)

Spec == Init /\ [][Next]_vars /\ Fairness

-----------------------------------------------------------------------------
(* Properties.                                                             *)

InWait == wpc \in {"waiting", "polling"}

\* Every variable keeps its type and neither queue outgrows its capacity.
TypeOK ==
    /\ to_worker \in Seq(WorkerMessage) /\ Len(to_worker) <= QueueSize
    /\ to_ui \in Seq(UIMessage) /\ Len(to_ui) <= QueueSize
    /\ running \in BOOLEAN /\ busy \in BOOLEAN
    /\ cancel \in BOOLEAN
    /\ wpc \in {"idle", "entering", "clearing", "executing", "asking", "waiting",
                "polling", "aborted", "leaving", "stopped"}
    /\ job \in Job \cup {NoJob}
    /\ question \in Questions \cup {"None"}
    /\ callbacks \in 0..MaxCallbacks
    /\ upc \in {"draining", "frame", "posting", "cancelling", "joining", "closed"}
    /\ pending \in WorkerMessage \cup {NoMessage}
    /\ show_progress \in BOOLEAN
    /\ progress_op \in Labels
    /\ is_refreshing \in BOOLEAN /\ first_refresh_done \in BOOLEAN /\ dry_run \in BOOLEAN
    /\ dialogs \subseteq Confirmed

Holds(queue, S) == \E i \in 1..Len(queue) : queue[i] \in S

\* wait_for_decision never waits for nothing: as long as the worker is in its
\* loop, the question is still on its way to the UI, or an answer is on its way
\* back, even though the loop throws away every other message it finds.
WaitingIsAnswerable ==
    InWait => Holds(to_ui, Prompts) \/ Holds(to_worker, Decisions) \/ pending \in Decisions

\* An action gets the answer to the question it asked, not the one to an
\* earlier question that was never collected.
AnswerMatchesQuestion ==
    [][wpc = "polling" /\ wpc' = "executing" => Head(to_worker) = Answer(question)]_vars

\* Where the registry scan that is_refreshing announces may be.
ScanReports == {Complete(RefreshRegistry, ok) : ok \in BOOLEAN}

ScanUnderWay ==
    \/ Holds(to_worker, {RefreshRegistry})
    \/ pending = RefreshRegistry
    \/ job = RefreshRegistry /\ wpc # "leaving"
    \/ Holds(to_ui, ScanReports)

\* "Refreshing..." is shown only while a scan is queued, running, or reported:
\* is_refreshing disables every Refresh control, so a scan that is lost leaves
\* them disabled.
RefreshFlagHonest == is_refreshing => ScanUnderWay

\* In dry-run mode no clean is started for real.  (A restore is: StartRestore has
\* no member for it.)
DryRunIsHonoured ==
    [][dry_run => to_worker' # Append(to_worker, Start("Clean", FALSE))]_vars

\* The abstract dialogue's state: the question of the worker that waits, and the
\* answer that is on its way to it.
Answers == [q \in Questions |-> Answer(q)]

NoAnswer == [type |-> "None"]

AnswersUnderWay ==
    {m \in Decisions : m = pending \/ Holds(to_worker, {m})}

Dialogue == INSTANCE Consultation WITH
    NoQuestion <- "None", NoReply <- NoAnswer,
    asked <- IF InWait THEN question ELSE "None",
    reply <- IF InWait /\ AnswersUnderWay # {} THEN CHOOSE m \in AnswersUnderWay : TRUE
                                               ELSE NoAnswer

\* The dialogue between an action and the UI, seen from the action: it is the
\* one IActionCallback promises.  Checked where the user cannot cancel.
AsksAndAnswers == Dialogue!Spec

\* Every job the worker takes comes to an end, whatever it asks.
JobsEnd == busy ~> ~busy

\* Closing the window ends both threads.
ShutdownStops == upc = "joining" ~> upc = "closed"
=============================================================================
