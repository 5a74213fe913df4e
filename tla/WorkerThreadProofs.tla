------------------------- MODULE WorkerThreadProofs -------------------------
(***************************************************************************)
(* What TLAPS proves about WorkerThread, for every queue size, every set   *)
(* of operations, buttons and questions, and every bound.                  *)
(***************************************************************************)
EXTENDS WorkerThread, TLAPS

(* Sequences used as queues.                                               *)

\* Appending a message keeps what the queue holds, and adds the message.
LEMMA HoldsAppend ==
    ASSUME NEW T, NEW q \in Seq(T), NEW m \in T, NEW S
    PROVE  /\ Holds(q, S) => Holds(Append(q, m), S)
           /\ m \in S => Holds(Append(q, m), S)
<1>1. Holds(q, S) => Holds(Append(q, m), S)
  <2> HAVE Holds(q, S)
  <2>1. PICK i \in 1..Len(q) : q[i] \in S  BY DEF Holds
  <2>2. i \in 1..Len(Append(q, m)) /\ Append(q, m)[i] = q[i]  OBVIOUS
  <2> QED BY <2>1, <2>2 DEF Holds
<1>2. m \in S => Holds(Append(q, m), S)
  <2>1. Len(q) + 1 \in 1..Len(Append(q, m)) /\ Append(q, m)[Len(q) + 1] = m  OBVIOUS
  <2> QED BY <2>1 DEF Holds
<1> QED BY <1>1, <1>2

\* Removing the head keeps what the queue holds, but for the head itself.
LEMMA HoldsTail ==
    ASSUME NEW T, NEW q \in Seq(T), q # <<>>, NEW S
    PROVE  Holds(q, S) => Holds(Tail(q), S) \/ Head(q) \in S
<1> SUFFICES ASSUME Holds(q, S), Head(q) \notin S
             PROVE  Holds(Tail(q), S)
    OBVIOUS
<1>1. PICK i \in 1..Len(q) : q[i] \in S  BY DEF Holds
<1>2. i # 1  BY <1>1
<1>3. i - 1 \in 1..Len(Tail(q)) /\ Tail(q)[i - 1] = q[i]  BY <1>2
<1> QED BY <1>1, <1>3 DEF Holds

-----------------------------------------------------------------------------
(* The inductive invariant.                                                *)

\* What ties the program counters to the data: the UI thread spins exactly while
\* it has a message to post, the worker has a job except between jobs, and it has
\* a question while it asks one.
Structure ==
    /\ upc = "posting" <=> pending # NoMessage
    /\ wpc \in {"idle", "stopped"} <=> job = NoJob
    /\ wpc \in {"asking", "waiting", "polling"} => question \in Questions

TypedState == TypeOK /\ Structure

\* The kinds of message are told apart by their type field.
LEMMA Kinds ==
    /\ \A m \in WorkerMessage : m # NoMessage
    /\ \A j \in Job : j # NoJob
    /\ RefreshRegistry \in Job
    /\ \A o \in UserOps, b \in BOOLEAN : Start(o, b) \in Job
    /\ Job \subseteq WorkerMessage
    /\ \A q : Answer(q) \in WorkerMessage
    /\ ShutdownWorker \in WorkerMessage
    /\ Progress \in UIMessage
    /\ \A q \in Questions : Prompt(q) \in UIMessage
    /\ \A j \in Job, ok \in BOOLEAN : Complete(j, ok) \in UIMessage
    /\ \A m \in WorkerMessage : m.type = "Start" => m \in Job
    /\ \A m \in UIMessage : m.type = "Prompt" => m.question \in Questions
<1>1. \A m \in WorkerMessage : m # NoMessage /\ (m.type = "Start" => m \in Job)
  BY DEF WorkerMessage, Job, Decisions, Decision, ShutdownWorker, NoMessage
<1>2. \A m \in UIMessage : m.type = "Prompt" => m.question \in Questions
  BY DEF UIMessage, Progress, Prompts
<1> QED
  BY <1>1, <1>2 DEF WorkerMessage, Job, Decisions, Decision, ShutdownWorker, NoJob, Start,
     RefreshRegistry, Answer, Progress, Prompt, Prompts, Complete, UIMessage

LEMMA PostToUITyped ==
    ASSUME TypeOK, NEW m \in UIMessage, PostToUI(m)
    PROVE  to_ui' \in Seq(UIMessage) /\ Len(to_ui') <= QueueSize
BY ParametersAssumption DEF TypeOK, PostToUI

\* What a step of the UI thread that posts or does not post a message leaves
\* behind: the UI thread goes on to next, or spins with its message.
Posted(next) ==
    /\ to_worker' \in Seq(WorkerMessage) /\ Len(to_worker') <= QueueSize
    /\ upc' \in {next, "posting"}
    /\ pending' \in WorkerMessage \cup {NoMessage}
    /\ upc' = "posting" <=> pending' # NoMessage

LEMMA PostTyped ==
    ASSUME TypedState, NEW m \in WorkerMessage, NEW next \in {"draining", "joining"},
           upc # "posting", PostThen(m, next)
    PROVE  Posted(next)
<1> USE DEF TypedState, TypeOK, Structure, Posted
<1>1. CASE Len(to_worker) < QueueSize
  <2>1. to_worker' = Append(to_worker, m) /\ upc' = next /\ pending' = pending
    BY <1>1, ParametersAssumption DEF PostThen
  <2> QED BY <1>1, <2>1, ParametersAssumption
<1>2. CASE Len(to_worker) = QueueSize
  <2>1. to_worker' = to_worker /\ upc' = "posting" /\ pending' = m
    BY <1>2, ParametersAssumption DEF PostThen
  <2> QED BY <1>2, <2>1, Kinds
<1> QED BY <1>1, <1>2 DEF PostThen

LEMMA InitTyped == Init => TypedState
<1> SUFFICES ASSUME Init PROVE TypedState
    OBVIOUS
<1>1. to_worker \in Seq(WorkerMessage) /\ Len(to_worker) <= QueueSize
  BY ParametersAssumption, Kinds DEF Init
<1>2. callbacks \in 0..MaxCallbacks  BY ParametersAssumption DEF Init
<1>3. to_ui \in Seq(UIMessage) /\ Len(to_ui) <= QueueSize
  BY ParametersAssumption DEF Init
<1>4. job \in Job \cup {NoJob} /\ pending \in WorkerMessage \cup {NoMessage}
  BY DEF Init
<1>5. progress_op \in Labels  BY DEF Init, Labels
<1>6. question \in Questions \cup {"None"} /\ dialogs \subseteq Confirmed
  BY DEF Init
<1>7. TypeOK  BY <1>1, <1>2, <1>3, <1>4, <1>5, <1>6 DEF Init, TypeOK
<1>8. Structure  BY DEF Init, Structure
<1> QED BY <1>7, <1>8 DEF TypedState

LEMMA TailTyped ==
    ASSUME NEW T, NEW q \in Seq(T), q # <<>>
    PROVE  Head(q) \in T /\ Tail(q) \in Seq(T) /\ Len(Tail(q)) <= Len(q)
OBVIOUS

LEMMA LabelTyped == \A o \in UserOps : Label(o, dry_run) \in Labels
BY DEF Label, Labels

\* A step of the UI thread that only goes on to another program counter.
LEMMA NoPostTyped ==
    ASSUME TypedState, upc # "posting", NEW next \in {"draining", "frame", "cancelling", "joining", "closed"},
           NoPost(next)
    PROVE  Posted(next)
BY DEF TypedState, TypeOK, Structure, NoPost, Posted

\* No step breaks the types or the structure.
LEMMA NextTyped == TypedState /\ [Next]_vars => TypedState'
<1> SUFFICES ASSUME TypedState, [Next]_vars PROVE TypedState'
    OBVIOUS
<1> USE DEF TypedState, TypeOK, Structure, vars, atomics, workerVars, view, workerSide, uiSide
<1>1. CASE TakeJob
  <2>1. to_worker # <<>> /\ Head(to_worker).type = "Start" /\ to_worker' = Tail(to_worker)
    BY <1>1 DEF TakeJob, Dequeue
  <2>2. job' \in Job /\ job' # NoJob  BY <1>1, <2>1, Kinds, TailTyped DEF TakeJob
  <2>3. callbacks' \in 0..MaxCallbacks  BY <1>1, ParametersAssumption DEF TakeJob
  <2>4. to_worker' \in Seq(WorkerMessage) /\ Len(to_worker') <= QueueSize  
    BY <2>1, TailTyped, ParametersAssumption
  <2> QED BY <1>1, <2>2, <2>3, <2>4 DEF TakeJob, Dequeue
<1>2. CASE DiscardDecision
  <2>1. to_worker # <<>> /\ to_worker' = Tail(to_worker) /\ UNCHANGED <<workerSide, uiSide>>
    BY <1>2 DEF DiscardDecision, Dequeue
  <2>2. to_worker' \in Seq(WorkerMessage) /\ Len(to_worker') <= QueueSize
    BY <2>1, TailTyped, ParametersAssumption
  <2> QED BY <2>1, <2>2
<1>3. CASE StopWorker
  <2>1. to_worker # <<>> /\ to_worker' = Tail(to_worker)  BY <1>3 DEF StopWorker, Dequeue
  <2>2. to_worker' \in Seq(WorkerMessage) /\ Len(to_worker') <= QueueSize
    BY <2>1, TailTyped, ParametersAssumption
  <2>3. running' \in BOOLEAN  BY <1>3 DEF StopWorker
  <2>4. wpc = "idle" /\ wpc' = "stopped"  BY <1>3 DEF StopWorker, Dequeue
  <2>5. UNCHANGED <<to_ui, busy, cancel, job, question, callbacks, uiSide>>
    BY <1>3 DEF StopWorker
  <2> QED BY <2>2, <2>3, <2>4, <2>5
<1>4. CASE SetBusy
  <2>1. busy' \in BOOLEAN  BY <1>4 DEF SetBusy
  <2>2. wpc = "entering" /\ wpc' = "clearing"  BY <1>4 DEF SetBusy
  <2>3. UNCHANGED <<to_worker, to_ui, running, cancel,
                    job, question, callbacks, uiSide>>
    BY <1>4 DEF SetBusy
  <2> QED BY <2>1, <2>2, <2>3
<1>5. CASE ClearCancel
  <2>1. cancel' \in BOOLEAN  BY <1>5 DEF ClearCancel
  <2>2. wpc = "clearing" /\ wpc' = "executing"  BY <1>5 DEF ClearCancel
  <2>3. UNCHANGED <<to_worker, to_ui, running, busy,
                    job, question, callbacks, uiSide>>
    BY <1>5 DEF ClearCancel
  <2> QED BY <2>1, <2>2, <2>3
<1>6. CASE Report
  BY <1>6, PostToUITyped, Kinds, ParametersAssumption DEF Report
<1>7. CASE \E q \in Questions : Consult(q)
  BY <1>7, ParametersAssumption DEF Consult
<1>8. CASE Ask
  BY <1>8, PostToUITyped, Kinds DEF Ask, Goto
<1>9. CASE CheckCancel  BY <1>9 DEF CheckCancel, Goto
<1>10. CASE ReceiveDecision
  BY <1>10, TailTyped, ParametersAssumption DEF ReceiveDecision, Goto
<1>11. CASE IgnoreMessage
  BY <1>11, TailTyped, ParametersAssumption DEF IgnoreMessage, Goto
<1>12. CASE PollEmpty  BY <1>12 DEF PollEmpty, Goto
<1>13. CASE Finish
  BY <1>13, PostToUITyped, Kinds DEF Finish, Goto
<1>14. CASE AbortJob
  <2>1. Complete(job, FALSE) \in UIMessage  BY <1>14, Kinds DEF AbortJob
  <2>2. to_ui' \in Seq(UIMessage) /\ Len(to_ui') <= QueueSize
    BY <1>14, <2>1, PostToUITyped DEF AbortJob
  <2> QED BY <1>14, <2>2 DEF AbortJob, Goto
<1>15. CASE SwallowAbort  BY <1>15 DEF SwallowAbort, Goto
<1>16. CASE Leave
  <2>1. callbacks' \in 0..MaxCallbacks  BY <1>16, ParametersAssumption DEF Leave
  <2>2. question' \in Questions \cup {"None"} /\ job' \in Job \cup {NoJob}  BY <1>16 DEF Leave
  <2>3. busy' \in BOOLEAN  BY <1>16 DEF Leave
  <2>4. wpc' = "idle" /\ job' = NoJob  BY <1>16 DEF Leave
  <2>5. UNCHANGED <<to_worker, to_ui, running, cancel, uiSide>>  BY <1>16 DEF Leave
  <2> QED BY <2>1, <2>2, <2>3, <2>4, <2>5
<1>17. CASE HandleProgress
  BY <1>17, TailTyped, ParametersAssumption DEF HandleProgress, Poll
<1>18. CASE HandlePrompt
  <2>1. /\ upc = "draining" /\ to_ui # <<>> /\ Head(to_ui).type = "Prompt"
        /\ to_ui' = Tail(to_ui) /\ PostThen(Answer(Head(to_ui).question), "draining")
        /\ UNCHANGED <<atomics, workerVars, view>>
    BY <1>18 DEF HandlePrompt, Poll, Respond, Post
  <2>2. to_ui' \in Seq(UIMessage) /\ Len(to_ui') <= QueueSize
    BY <2>1, TailTyped, ParametersAssumption
  <2>3. Posted("draining")  BY <2>1, PostTyped, Kinds
  <2> QED BY <2>1, <2>2, <2>3 DEF Posted
<1>19. CASE HandleRefreshComplete
  <2>1. to_ui' \in Seq(UIMessage) /\ Len(to_ui') <= QueueSize
    BY <1>19, TailTyped, ParametersAssumption DEF HandleRefreshComplete, Poll
  <2>2. is_refreshing' \in BOOLEAN /\ first_refresh_done' \in BOOLEAN
    BY <1>19 DEF HandleRefreshComplete
  <2>3. UNCHANGED <<to_worker, atomics, workerVars, upc, pending, show_progress,
                    progress_op, dry_run, dialogs>>
    BY <1>19 DEF HandleRefreshComplete, Poll
  <2> QED BY <2>1, <2>2, <2>3
<1>20. CASE HandleComplete
  <2>1. to_ui' \in Seq(UIMessage) /\ Len(to_ui') <= QueueSize
    BY <1>20, TailTyped, ParametersAssumption DEF HandleComplete, Poll
  <2>2. upc = "draining" /\ (Post(RefreshRegistry) \/ NoPost("draining"))
    BY <1>20 DEF HandleComplete, Poll
  <2>3. Posted("draining")  BY <2>2, PostTyped, NoPostTyped, Kinds DEF Post
  <2>4. is_refreshing' \in BOOLEAN  BY <1>20 DEF HandleComplete
  <2> QED BY <1>20, <2>1, <2>3, <2>4 DEF HandleComplete, Poll, Posted
<1>21. CASE Drained
  <2>1. Posted("frame")  BY <1>21, NoPostTyped DEF Drained
  <2> QED BY <1>21, <2>1 DEF Drained, Posted
<1>22. CASE RetryPost
  <2>1. to_worker' \in Seq(WorkerMessage) /\ Len(to_worker') <= QueueSize
    BY <1>22, ParametersAssumption DEF RetryPost
  <2> QED BY <1>22, <2>1 DEF RetryPost
<1>23. CASE IdleFrame
  <2>1. Posted("draining")  BY <1>23, NoPostTyped DEF IdleFrame
  <2> QED BY <1>23, <2>1 DEF IdleFrame, Posted
<1>24. CASE PressRefresh \/ ConfirmSettings
  <2>1. Posted("draining") /\ is_refreshing' \in BOOLEAN
    BY <1>24, PostTyped, Kinds DEF PressRefresh, ConfirmSettings, Rescan, Input, Post
  <2> QED BY <1>24, <2>1 DEF PressRefresh, ConfirmSettings, Rescan, Posted
<1>25. CASE ToggleDryRun
  <2>1. Posted("draining")  BY <1>25, NoPostTyped DEF ToggleDryRun, Input
  <2> QED BY <1>25, <2>1 DEF ToggleDryRun, Posted
<1>26. CASE PressCancel
  <2>1. Posted("cancelling")  BY <1>26, NoPostTyped DEF PressCancel, Input
  <2> QED BY <1>26, <2>1 DEF PressCancel, Posted
<1>27. CASE SetCancel
  <2>1. Posted("draining")  BY <1>27, NoPostTyped DEF SetCancel
  <2> QED BY <1>27, <2>1 DEF SetCancel, Posted
<1>28. CASE PressClose
  <2>1. Posted("draining")  BY <1>28, NoPostTyped DEF PressClose, Input
  <2>2. UNCHANGED <<workerSide, progress_op, is_refreshing, first_refresh_done, dry_run, dialogs>>
    BY <1>28 DEF PressClose
  <2>3. show_progress' \in BOOLEAN  BY <1>28 DEF PressClose
  <2> QED BY <2>1, <2>2, <2>3 DEF Posted
<1>29. ASSUME NEW o \in UserOps, StartOperation(o) \/ ConfirmDialog(o)
       PROVE  TypedState'
  <2>1. upc = "frame" /\ Begin(o) /\ dialogs' \subseteq dialogs
    BY <1>29 DEF StartOperation, ConfirmDialog, CanStart, Input
  <2>2. Posted("draining")
    BY <2>1, PostTyped, Kinds DEF Begin, Post
  <2>3. progress_op' \in Labels  BY <2>1, LabelTyped DEF Begin
  <2> QED BY <2>1, <2>2, <2>3 DEF Begin, Posted
<1>30. ASSUME NEW o \in UserOps, OpenDialog(o) \/ DismissDialog(o)
       PROVE  TypedState'
  <2>1. Posted("draining")
    BY <1>30, NoPostTyped DEF OpenDialog, DismissDialog, CanStart, Input
  <2> QED BY <1>30, <2>1 DEF OpenDialog, DismissDialog, Posted
<1>31. CASE Exit
  <2>1. Posted("joining")
    BY <1>31, PostTyped, Kinds DEF Exit, Input
  <2> QED BY <1>31, <2>1 DEF Exit, Posted
<1>32. CASE Join
  <2>1. Posted("closed")  BY <1>32, NoPostTyped DEF Join
  <2> QED BY <1>32, <2>1 DEF Join, Posted
<1>33. CASE UNCHANGED vars  BY <1>33
<1> QED
  BY <1>1, <1>2, <1>3, <1>4, <1>5, <1>6, <1>7, <1>8, <1>9, <1>10, <1>11, <1>12, <1>13,
     <1>14, <1>15, <1>16, <1>17, <1>18, <1>19, <1>20, <1>21, <1>22, <1>23, <1>24, <1>25,
     <1>26, <1>27, <1>28, <1>29, <1>30, <1>31, <1>32, <1>33
  DEF Next, WorkerNext, UINext

\* Every reachable state is well typed and neither queue outgrows its capacity
\* (SPSC queues of QUEUE_SIZE messages, post and post_to_ui).
THEOREM TypeCorrect == Spec => []TypeOK
<1>1. Spec => []TypedState  BY InitTyped, NextTyped, PTL DEF Spec
<1>2. TypedState => TypeOK  BY DEF TypedState
<1> QED BY <1>1, <1>2, PTL

-----------------------------------------------------------------------------
(* A waiting worker can be answered.                                       *)

\* The consequent of WaitingIsAnswerable.
Answerable ==
    Holds(to_ui, Prompts) \/ Holds(to_worker, Decisions) \/ pending \in Decisions

\* What a step of the UI thread does to m_to_worker, unless it is spinning.
MayAppend ==
    to_worker' = to_worker \/ \E m \in WorkerMessage : to_worker' = Append(to_worker, m)

LEMMA QueuesTyped == TypedState => to_worker \in Seq(WorkerMessage) /\ to_ui \in Seq(UIMessage)
BY DEF TypedState, TypeOK

LEMMA PostAppends ==
    /\ \A m \in WorkerMessage : PostThen(m, "draining") \/ PostThen(m, "joining") => MayAppend
    /\ \A next : NoPost(next) => MayAppend
BY DEF PostThen, NoPost, MayAppend

\* While the UI thread does not spin, decisions are in m_to_worker or nowhere,
\* and posting leaves them there.
LEMMA PostKeepsAnswers ==
    ASSUME TypedState, upc # "posting", MayAppend
    PROVE  /\ Holds(to_worker, Decisions) => Holds(to_worker', Decisions)
           /\ pending \notin Decisions
<1>1. pending \notin Decisions
  BY Kinds DEF TypedState, Structure, Decisions, WorkerMessage
<1>2. Holds(to_worker, Decisions) => Holds(to_worker', Decisions)
  <2>1. CASE to_worker' = to_worker  BY <2>1
  <2>2. ASSUME NEW m \in WorkerMessage, to_worker' = Append(to_worker, m)
        PROVE  Holds(to_worker, Decisions) => Holds(to_worker', Decisions)
    BY <2>2, QueuesTyped, HoldsAppend
  <2> QED BY <2>1, <2>2 DEF MayAppend
<1> QED BY <1>1, <1>2

\* Only a prompt that is handled leaves m_to_ui as far as the wait is concerned.
LEMMA PollKeepsPrompts ==
    ASSUME TypedState, NEW type, Poll(type), type # "Prompt"
    PROVE  Holds(to_ui, Prompts) => Holds(to_ui', Prompts)
<1>1. to_ui # <<>> /\ Head(to_ui) \notin Prompts /\ to_ui' = Tail(to_ui)
  BY DEF Poll, Prompts
<1> QED BY <1>1, QueuesTyped, HoldsTail

\* The two messages a wait is about.
LEMMA PromptAndAnswer ==
    /\ \A q \in Questions : Prompt(q) \in Prompts
    /\ \A q : Answer(q) \in Decisions
BY DEF Prompt, Prompts, Answer, Decisions

\* A step of the UI thread keeps a waiting worker answerable.
LEMMA UIKeepsAnswerable ==
    ASSUME TypedState, Answerable, UINext
    PROVE  Answerable'
<1> USE DEF Answerable, vars, atomics, workerVars, view, workerSide, uiSide
<1>1. CASE HandleProgress
  BY <1>1, PollKeepsPrompts DEF HandleProgress
<1>2. CASE HandlePrompt
  <2> DEFINE a == Answer(Head(to_ui).question)
  <2>1. PostThen(a, "draining")  BY <1>2 DEF HandlePrompt, Respond, Post
  <2>2. a \in Decisions /\ a \in WorkerMessage  BY PromptAndAnswer, Kinds
  <2>3. CASE pending' = a  BY <2>2, <2>3
  <2>4. CASE to_worker' = Append(to_worker, a)
    BY <2>2, <2>4, QueuesTyped, HoldsAppend
  <2> QED BY <2>1, <2>3, <2>4 DEF PostThen
<1>3. CASE HandleRefreshComplete
  BY <1>3, PollKeepsPrompts DEF HandleRefreshComplete
<1>4. CASE HandleComplete
  <2>1. Poll("Complete") /\ MayAppend
    BY <1>4, PostAppends, Kinds DEF HandleComplete, Post
  <2> QED BY <2>1, PollKeepsPrompts, PostKeepsAnswers DEF Poll
<1>5. CASE RetryPost
  <2>1. to_worker' = Append(to_worker, pending) /\ pending \in WorkerMessage /\ to_ui' = to_ui
    BY <1>5 DEF RetryPost, TypedState, TypeOK, Structure
  <2> QED BY <2>1, QueuesTyped, HoldsAppend
<1>6. ASSUME upc # "posting", to_ui' = to_ui, MayAppend
      PROVE  Answerable'
  BY <1>6, PostKeepsAnswers
<1>7. CASE Drained \/ IdleFrame \/ ToggleDryRun \/ PressCancel \/ SetCancel \/ PressClose \/ Join
  <2>1. upc # "posting" /\ to_ui' = to_ui
    BY <1>7 DEF Drained, IdleFrame, ToggleDryRun, PressCancel, SetCancel, PressClose, Join, Input
  <2>2. MayAppend
    BY <1>7, PostAppends
    DEF Drained, IdleFrame, ToggleDryRun, PressCancel, SetCancel, PressClose, Join
  <2> QED BY <1>6, <2>1, <2>2
<1>8. CASE PressRefresh \/ ConfirmSettings
  <2>1. upc # "posting" /\ to_ui' = to_ui
    BY <1>8 DEF PressRefresh, ConfirmSettings, Rescan, Input
  <2>2. MayAppend
    BY <1>8, PostAppends, Kinds DEF PressRefresh, ConfirmSettings, Rescan, Post
  <2> QED BY <1>6, <2>1, <2>2
<1>9. ASSUME NEW o \in UserOps, StartOperation(o) \/ ConfirmDialog(o)
      PROVE  Answerable'
  <2>1. upc # "posting" /\ to_ui' = to_ui /\ Begin(o)
    BY <1>9 DEF StartOperation, ConfirmDialog, CanStart, Input, Begin
  <2>2. Start(o, dry_run /\ o = "Clean") \in WorkerMessage
    BY Kinds DEF TypedState, TypeOK
  <2>3. MayAppend  BY <2>1, <2>2, PostAppends DEF Begin, Post
  <2> QED BY <1>6, <2>1, <2>3
<1>10. ASSUME NEW o \in UserOps, OpenDialog(o) \/ DismissDialog(o)
       PROVE  Answerable'
  <2>1. upc # "posting" /\ to_ui' = to_ui /\ MayAppend
    BY <1>10, PostAppends DEF OpenDialog, DismissDialog, CanStart, Input
  <2> QED BY <1>6, <2>1
<1>11. CASE Exit
  <2>1. upc # "posting" /\ to_ui' = to_ui /\ MayAppend
    BY <1>11, PostAppends, Kinds DEF Exit, Input
  <2> QED BY <1>6, <2>1
<1> QED BY <1>1, <1>2, <1>3, <1>4, <1>5, <1>7, <1>8, <1>9, <1>10, <1>11 DEF UINext

\* A worker never waits for an answer that cannot come: wait_for_decision throws
\* away whatever it finds in m_to_worker, but never the answer.
THEOREM NeverWaitsInVain == Spec => []WaitingIsAnswerable
<1>1. Init => WaitingIsAnswerable  BY DEF Init, WaitingIsAnswerable, InWait
<1>2. TypedState /\ WaitingIsAnswerable /\ [Next]_vars => WaitingIsAnswerable'
  <2> SUFFICES ASSUME TypedState, WaitingIsAnswerable, [Next]_vars, InWait'
               PROVE  Answerable'
    BY DEF WaitingIsAnswerable, Answerable
  <2> USE DEF InWait, vars, atomics, workerVars, workerSide, uiSide
  <2>1. CASE Ask
    <3>1. question \in Questions /\ Prompt(question) \in UIMessage
      BY <2>1, Kinds DEF Ask, TypedState, Structure
    <3>2. to_ui' = Append(to_ui, Prompt(question))  BY <2>1 DEF Ask, PostToUI
    <3> QED BY <3>1, <3>2, QueuesTyped, HoldsAppend, PromptAndAnswer DEF Answerable
  <2>2. CASE CheckCancel \/ PollEmpty
    <3>1. InWait /\ UNCHANGED <<to_ui, to_worker, pending>>
      BY <2>2 DEF CheckCancel, PollEmpty, Goto
    <3> QED BY <3>1 DEF WaitingIsAnswerable, Answerable
  <2>3. CASE IgnoreMessage
    <3>1. /\ InWait /\ to_worker # <<>> /\ Head(to_worker) \notin Decisions
          /\ to_worker' = Tail(to_worker) /\ UNCHANGED <<to_ui, pending>>
      BY <2>3 DEF IgnoreMessage, Goto, Decisions, Decision
    <3> QED BY <3>1, QueuesTyped, HoldsTail DEF WaitingIsAnswerable, Answerable
  <2>4. CASE WorkerNext /\ ~(Ask \/ CheckCancel \/ PollEmpty \/ IgnoreMessage)
    BY <2>4 DEF WorkerNext, TakeJob, DiscardDecision, Dequeue, StopWorker, SetBusy, ClearCancel,
                Report, Consult, ReceiveDecision, Finish, AbortJob, SwallowAbort, Leave, Goto
  <2>5. CASE UINext
    <3>1. wpc' = wpc
      BY <2>5 DEF UINext, HandleProgress, HandlePrompt, HandleRefreshComplete, HandleComplete, Poll,
         Drained, RetryPost, IdleFrame, PressRefresh, ConfirmSettings, Rescan, ToggleDryRun,
         PressCancel, SetCancel, PressClose, StartOperation, ConfirmDialog, Begin, OpenDialog,
         DismissDialog, Exit, Join
    <3> QED BY <2>5, <3>1, UIKeepsAnswerable DEF WaitingIsAnswerable, Answerable
  <2>6. CASE UNCHANGED vars
    BY <2>6 DEF WaitingIsAnswerable, Answerable
  <2> QED BY <2>1, <2>2, <2>3, <2>4, <2>5, <2>6 DEF Next
<1> QED BY InitTyped, NextTyped, <1>1, <1>2, PTL DEF Spec

-----------------------------------------------------------------------------
(* When no action asks anything, no scan is lost.                          *)

\* A worker that is never asked a question is never in the dialogue.
Silent == wpc \notin {"asking", "waiting", "polling", "aborted"}

\* A worker step of a silent worker leaves the scan somewhere.
LEMMA WorkerKeepsScan ==
    ASSUME TypedState, Silent, ScanUnderWay, WorkerNext, Questions = {}
    PROVE  ScanUnderWay'
<1> USE DEF ScanUnderWay, atomics, workerVars, uiSide, workerSide, view, vars
<1>1. ASSUME NEW type, Dequeue(type), UNCHANGED <<to_ui, pending>>,
             type = "Start" => job' = Head(to_worker) /\ wpc' = "entering"
      PROVE  ScanUnderWay'
  <2>1. job # RefreshRegistry
    BY <1>1, Kinds DEF Dequeue, TypedState, Structure
  <2>2. Head(to_worker) = RefreshRegistry => type = "Start"
    BY <1>1 DEF Dequeue, RefreshRegistry, Start
  <2>3. Holds(to_worker, {RefreshRegistry}) =>
          Holds(to_worker', {RefreshRegistry}) \/ Head(to_worker) = RefreshRegistry
    BY <1>1, QueuesTyped, HoldsTail DEF Dequeue
  <2> QED BY <1>1, <2>1, <2>2, <2>3
<1>2. CASE TakeJob
  BY <1>1, <1>2 DEF TakeJob
<1>3. CASE DiscardDecision \/ StopWorker
  BY <1>1, <1>3 DEF DiscardDecision, StopWorker
<1>4. CASE SetBusy \/ ClearCancel  BY <1>4 DEF SetBusy, ClearCancel
<1>5. CASE Report
  <2>1. to_ui' = Append(to_ui, Progress) /\ UNCHANGED <<to_worker, pending, job, wpc>>
    BY <1>5 DEF Report, PostToUI
  <2> QED BY <2>1, QueuesTyped, HoldsAppend, Kinds
<1>6. CASE Finish
  <2>1. PICK ok \in BOOLEAN : to_ui' = Append(to_ui, Complete(job, ok))
    BY <1>6 DEF Finish, PostToUI
  <2>2. Complete(job, ok) \in UIMessage
    BY <1>6, Kinds DEF Finish, TypedState, TypeOK, Structure
  <2>3. job = RefreshRegistry => Complete(job, ok) \in ScanReports
    BY DEF ScanReports
  <2>4. Holds(to_ui, ScanReports) => Holds(to_ui', ScanReports)
    BY <2>1, <2>2, QueuesTyped, HoldsAppend
  <2>5. job = RefreshRegistry => Holds(to_ui', ScanReports)
    BY <2>1, <2>2, <2>3, QueuesTyped, HoldsAppend
  <2> QED BY <1>6, <2>4, <2>5 DEF Finish, Goto
<1>7. CASE Leave  BY <1>7 DEF Leave
<1> QED
  BY <1>2, <1>3, <1>4, <1>5, <1>6, <1>7
  DEF WorkerNext, Silent, Ask, CheckCancel, ReceiveDecision, IgnoreMessage, PollEmpty,
      AbortJob, SwallowAbort

\* A step that posts the scan, or a silent step of the UI thread, keeps it.
LEMMA PostKeepsScan ==
    ASSUME TypedState, upc # "posting", MayAppend, UNCHANGED <<job, wpc>>,
           Holds(to_ui, ScanReports) => Holds(to_ui', ScanReports)
    PROVE  ScanUnderWay => ScanUnderWay'
<1>1. pending # RefreshRegistry  BY Kinds DEF TypedState, Structure
<1>2. Holds(to_worker, {RefreshRegistry}) => Holds(to_worker', {RefreshRegistry})
  <2>1. CASE to_worker' = to_worker  BY <2>1
  <2>2. ASSUME NEW m \in WorkerMessage, to_worker' = Append(to_worker, m)
        PROVE  Holds(to_worker, {RefreshRegistry}) => Holds(to_worker', {RefreshRegistry})
    BY <2>2, QueuesTyped, HoldsAppend
  <2> QED BY <2>1, <2>2 DEF MayAppend
<1> QED BY <1>1, <1>2 DEF ScanUnderWay

\* Posting the scan puts it in m_to_worker or in pending.
LEMMA PostScan ==
    ASSUME TypedState, Post(RefreshRegistry)
    PROVE  ScanUnderWay'
<1>1. CASE pending' = RefreshRegistry  BY <1>1 DEF ScanUnderWay
<1>2. CASE to_worker' = Append(to_worker, RefreshRegistry)
  BY <1>2, QueuesTyped, HoldsAppend, Kinds DEF ScanUnderWay
<1> QED BY <1>1, <1>2 DEF Post, PostThen

\* What leaves m_to_ui in a Poll is a scan report only for HandleRefreshComplete.
LEMMA PollKeepsReports ==
    ASSUME TypedState, NEW type, Poll(type),
           type # "Complete" \/ Head(to_ui).job.op # "Refresh"
    PROVE  Holds(to_ui, ScanReports) => Holds(to_ui', ScanReports)
<1>1. to_ui # <<>> /\ Head(to_ui) \notin ScanReports /\ to_ui' = Tail(to_ui)
  BY DEF Poll, ScanReports, Complete, RefreshRegistry, Start
<1> QED BY <1>1, QueuesTyped, HoldsTail

\* A step of the UI thread keeps the flag honest.
LEMMA UIKeepsFlagHonest ==
    ASSUME TypedState, RefreshFlagHonest, UINext
    PROVE  RefreshFlagHonest'
<1> USE DEF RefreshFlagHonest, atomics, workerVars, view, workerSide, uiSide
<1>1. CASE HandleProgress
  <2>1. Poll("Progress") /\ UNCHANGED <<upc, is_refreshing, to_worker, pending, job, wpc>>
    BY <1>1 DEF HandleProgress, Poll
  <2>2. MayAppend /\ upc # "posting"  BY <2>1 DEF MayAppend, Poll
  <2> QED BY <2>1, <2>2, PollKeepsReports, PostKeepsScan
<1>2. CASE HandlePrompt
  <2>1. Poll("Prompt") /\ Post(Answer(Head(to_ui).question)) /\ UNCHANGED <<is_refreshing, job, wpc>>
    BY <1>2 DEF HandlePrompt, Respond, Poll
  <2>2. MayAppend /\ upc # "posting"  BY <2>1, PostAppends, Kinds DEF Post, Poll
  <2> QED BY <2>1, <2>2, PollKeepsReports, PostKeepsScan
<1>3. CASE HandleRefreshComplete
  BY <1>3 DEF HandleRefreshComplete
<1>4. CASE HandleComplete
  <2>1. Poll("Complete") /\ Head(to_ui).job.op # "Refresh" /\ UNCHANGED <<job, wpc>>
    BY <1>4 DEF HandleComplete, Poll
  <2>2. CASE Post(RefreshRegistry)
    BY <2>2, PostScan
  <2>3. CASE is_refreshing' = is_refreshing /\ NoPost("draining")
    <3>1. MayAppend /\ upc # "posting"  BY <2>1, <2>3, PostAppends DEF Poll
    <3> QED BY <2>1, <2>3, <3>1, PollKeepsReports, PostKeepsScan
  <2> QED BY <1>4, <2>2, <2>3 DEF HandleComplete
<1>5. CASE RetryPost
  <2>1. /\ to_worker' = Append(to_worker, pending) /\ pending \in WorkerMessage
        /\ UNCHANGED <<to_ui, is_refreshing, job, wpc>>
    BY <1>5 DEF RetryPost, TypedState, TypeOK, Structure
  <2>2. Holds(to_worker, {RefreshRegistry}) => Holds(to_worker', {RefreshRegistry})
    BY <2>1, QueuesTyped, HoldsAppend
  <2>3. pending = RefreshRegistry => Holds(to_worker', {RefreshRegistry})
    BY <2>1, QueuesTyped, HoldsAppend
  <2> QED BY <2>1, <2>2, <2>3 DEF ScanUnderWay
<1>6. CASE PressRefresh \/ ConfirmSettings
  BY <1>6, PostScan DEF PressRefresh, ConfirmSettings, Rescan
<1>7. ASSUME upc # "posting", MayAppend, UNCHANGED <<to_ui, is_refreshing, job, wpc>>
      PROVE  RefreshFlagHonest'
  BY <1>7, PostKeepsScan
<1>8. CASE Drained \/ IdleFrame \/ ToggleDryRun \/ PressCancel \/ SetCancel \/ PressClose \/ Join
  <2>1. upc # "posting" /\ UNCHANGED <<to_ui, is_refreshing, job, wpc>>
    BY <1>8 DEF Drained, IdleFrame, ToggleDryRun, PressCancel, SetCancel, PressClose, Join, Input
  <2>2. MayAppend
    BY <1>8, PostAppends
    DEF Drained, IdleFrame, ToggleDryRun, PressCancel, SetCancel, PressClose, Join
  <2> QED BY <1>7, <2>1, <2>2
<1>9. ASSUME NEW o \in UserOps, StartOperation(o) \/ ConfirmDialog(o)
      PROVE  RefreshFlagHonest'
  <2>1. upc # "posting" /\ UNCHANGED <<to_ui, is_refreshing, job, wpc>> /\ Begin(o)
    BY <1>9 DEF StartOperation, ConfirmDialog, CanStart, Input, Begin
  <2>2. Start(o, dry_run /\ o = "Clean") \in WorkerMessage
    BY Kinds DEF TypedState, TypeOK
  <2>3. MayAppend  BY <2>1, <2>2, PostAppends DEF Begin, Post
  <2> QED BY <1>7, <2>1, <2>3
<1>10. ASSUME NEW o \in UserOps, OpenDialog(o) \/ DismissDialog(o)
       PROVE  RefreshFlagHonest'
  <2>1. upc # "posting" /\ UNCHANGED <<to_ui, is_refreshing, job, wpc>> /\ MayAppend
    BY <1>10, PostAppends DEF OpenDialog, DismissDialog, CanStart, Input
  <2> QED BY <1>7, <2>1
<1>11. CASE Exit
  <2>1. upc # "posting" /\ UNCHANGED <<to_ui, is_refreshing, job, wpc>> /\ MayAppend
    BY <1>11, PostAppends, Kinds DEF Exit, Input
  <2> QED BY <1>7, <2>1
<1> QED BY <1>1, <1>2, <1>3, <1>4, <1>5, <1>6, <1>8, <1>9, <1>10, <1>11 DEF UINext

\* Where no action asks a question, "Refreshing..." is always about a scan that
\* will be reported: process_message never loses one.  Only wait_for_decision does.
THEOREM QuietScansAreKept ==
    ASSUME Questions = {}
    PROVE  Spec => []RefreshFlagHonest
<1> DEFINE IInv == TypedState /\ Silent /\ RefreshFlagHonest
<1>1. Init => IInv
  <2> SUFFICES ASSUME Init PROVE Silent /\ RefreshFlagHonest
    BY InitTyped
  <2>1. Holds(to_worker, {RefreshRegistry})  BY DEF Init, Holds
  <2> QED BY <2>1 DEF Init, Silent, RefreshFlagHonest, ScanUnderWay
<1>2. IInv /\ [Next]_vars => IInv'
  <2> SUFFICES ASSUME IInv, [Next]_vars PROVE Silent' /\ RefreshFlagHonest'
    BY NextTyped
  <2>1. CASE WorkerNext
    <3>1. is_refreshing' = is_refreshing
      BY <2>1 DEF WorkerNext, TakeJob, DiscardDecision, StopWorker, SetBusy, ClearCancel, Report,
         Consult, Ask, CheckCancel, ReceiveDecision, IgnoreMessage, PollEmpty, Finish, AbortJob,
         SwallowAbort, Leave, Goto, uiSide, workerSide, view
    <3>2. Silent'
      BY <2>1 DEF Silent, WorkerNext, TakeJob, DiscardDecision, StopWorker, SetBusy, ClearCancel,
         Report, Ask, CheckCancel, ReceiveDecision, IgnoreMessage, PollEmpty, Finish, AbortJob,
         SwallowAbort, Leave, Goto, workerSide, workerVars
    <3> QED BY <2>1, <3>1, <3>2, WorkerKeepsScan DEF RefreshFlagHonest
  <2>2. CASE UINext
    <3>1. wpc' = wpc
      BY <2>2 DEF UINext, HandleProgress, HandlePrompt, HandleRefreshComplete, HandleComplete, Poll,
         Drained, RetryPost, IdleFrame, PressRefresh, ConfirmSettings, Rescan, ToggleDryRun,
         PressCancel, SetCancel, PressClose, StartOperation, ConfirmDialog, Begin, OpenDialog,
         DismissDialog, Exit, Join, workerVars, workerSide
    <3> QED BY <2>2, <3>1, UIKeepsFlagHonest DEF Silent
  <2>3. CASE UNCHANGED vars
    BY <2>3 DEF Silent, RefreshFlagHonest, ScanUnderWay, vars, atomics, workerVars, view, uiSide
  <2> QED BY <2>1, <2>2, <2>3 DEF Next
<1>3. IInv => RefreshFlagHonest  OBVIOUS
<1> QED BY <1>1, <1>2, <1>3, PTL DEF Spec

-----------------------------------------------------------------------------
(* A dry run of a clean is never posted as a real one.                     *)

\* StartClean without simulate.
RealClean == Start("Clean", FALSE)

\* What the UI thread spins to post was made under the same dry_run setting.
PendingHonest == dry_run => pending # RealClean

\* What one step does to m_to_worker and to the message that is spun for, in
\* dry-run mode.
Honest(q, p) ==
    /\ \/ q = to_worker
       \/ to_worker # <<>> /\ q = Tail(to_worker)
       \/ \E m \in WorkerMessage \ {RealClean} : q = Append(to_worker, m)
    /\ p # RealClean

\* A queue is not itself with a message more, and which message it is shows.
LEMMA AppendTellsTheMessage ==
    ASSUME NEW T, NEW q \in Seq(T), NEW m
    PROVE  /\ q # Append(q, m)
           /\ q # <<>> => Tail(q) # Append(q, m)
           /\ \A n \in T : Append(q, n) = Append(q, m) => n = m
<1> DEFINE S == T \cup {m}
<1>0. q \in Seq(S) /\ m \in S  OBVIOUS
<1>1. Len(Append(q, m)) = Len(q) + 1 /\ Append(q, m)[Len(q) + 1] = m  BY <1>0
<1>2. q # <<>> => Len(Tail(q)) = Len(q) - 1  BY <1>0
<1>3. \A n \in T : Append(q, n)[Len(q) + 1] = n  BY <1>0
<1> QED BY <1>0, <1>1, <1>2, <1>3

\* In dry-run mode every message the UI posts is another one.
LEMMA PostHonest ==
    ASSUME NEW m \in WorkerMessage, m # RealClean, PendingHonest, dry_run,
           PostThen(m, "draining") \/ PostThen(m, "joining")
    PROVE  Honest(to_worker', pending')
BY DEF PostThen, Honest, PendingHonest

\* A step of the worker thread posts nothing to itself.
LEMMA WorkerHonest ==
    ASSUME WorkerNext
    PROVE  /\ to_worker' = to_worker \/ (to_worker # <<>> /\ to_worker' = Tail(to_worker))
           /\ UNCHANGED <<pending, dry_run>>
BY DEF WorkerNext, TakeJob, DiscardDecision, StopWorker, Dequeue, SetBusy, ClearCancel, Report,
       Consult, Ask, CheckCancel, ReceiveDecision, IgnoreMessage, PollEmpty, Finish, AbortJob,
       SwallowAbort, Leave, Goto, workerSide, uiSide, view

\* A step of the UI thread posts no real clean in dry-run mode.
LEMMA UIHonest ==
    ASSUME TypedState, PendingHonest, UINext
    PROVE  /\ dry_run => Honest(to_worker', pending')
           /\ dry_run' # dry_run => pending' # RealClean
<1> USE DEF view, uiSide, workerSide
<1>1. RefreshRegistry # RealClean /\ ShutdownWorker # RealClean /\ (\A q : Answer(q) # RealClean)
  BY DEF RefreshRegistry, ShutdownWorker, Answer, Decision, Start, RealClean
<1>2. ASSUME NEW m \in WorkerMessage, m # RealClean, dry_run' = dry_run,
             PostThen(m, "draining") \/ PostThen(m, "joining")
      PROVE  (dry_run => Honest(to_worker', pending')) /\ dry_run' = dry_run
  BY <1>2, PostHonest
<1>3. ASSUME NEW next, NoPost(next)
      PROVE  dry_run => Honest(to_worker', pending')
  BY <1>3 DEF NoPost, Honest, PendingHonest
<1>4. CASE HandleProgress \/ HandleRefreshComplete
  BY <1>4 DEF HandleProgress, HandleRefreshComplete, Honest, PendingHonest
<1>5. CASE HandlePrompt
  BY <1>1, <1>2, <1>5, Kinds DEF HandlePrompt, Respond, Post
<1>6. CASE HandleComplete
  BY <1>1, <1>2, <1>3, <1>6, Kinds DEF HandleComplete, Post
<1>7. CASE RetryPost
  <2>1. /\ to_worker' = Append(to_worker, pending) /\ pending \in WorkerMessage
        /\ pending' = NoMessage /\ dry_run' = dry_run
    BY <1>7 DEF RetryPost, TypedState, TypeOK, Structure
  <2>2. NoMessage # RealClean  BY DEF NoMessage, RealClean, Start
  <2> QED BY <2>1, <2>2 DEF Honest, PendingHonest
<1>8. CASE PressRefresh \/ ConfirmSettings
  BY <1>1, <1>2, <1>8, Kinds DEF PressRefresh, ConfirmSettings, Rescan, Post
<1>9. CASE Drained \/ IdleFrame \/ PressCancel \/ SetCancel \/ PressClose \/ Join
  <2>1. (\E next : NoPost(next)) /\ dry_run' = dry_run
    BY <1>9 DEF Drained, IdleFrame, PressCancel, SetCancel, PressClose, Join
  <2> QED BY <1>3, <2>1
<1>10. CASE ToggleDryRun
  <2>1. NoPost("draining") /\ upc # "posting"  BY <1>10 DEF ToggleDryRun, Input
  <2>2. pending' = NoMessage  BY <2>1 DEF NoPost, TypedState, Structure
  <2>3. NoMessage # RealClean  BY DEF NoMessage, RealClean, Start
  <2> QED BY <1>3, <2>1, <2>2, <2>3
<1>11. ASSUME NEW o \in UserOps, StartOperation(o) \/ ConfirmDialog(o)
       PROVE  (dry_run => Honest(to_worker', pending')) /\ dry_run' = dry_run
  <2> DEFINE m == Start(o, dry_run /\ o = "Clean")
  <2>1. PostThen(m, "draining") /\ dry_run' = dry_run
    BY <1>11 DEF StartOperation, ConfirmDialog, Begin, Post
  <2>2. m \in WorkerMessage
    BY Kinds DEF TypedState, TypeOK
  <2>3. dry_run => m # RealClean  BY DEF Start, RealClean
  <2> QED BY <2>1, <2>2, <2>3, PostHonest
<1>12. ASSUME NEW o \in UserOps, OpenDialog(o) \/ DismissDialog(o)
       PROVE  (dry_run => Honest(to_worker', pending')) /\ dry_run' = dry_run
  <2>1. NoPost("draining") /\ dry_run' = dry_run  BY <1>12 DEF OpenDialog, DismissDialog
  <2> QED BY <1>3, <2>1
<1>13. CASE Exit
  BY <1>1, <1>2, <1>13, Kinds DEF Exit
<1> QED
  BY <1>4, <1>5, <1>6, <1>7, <1>8, <1>9, <1>10, <1>11, <1>12, <1>13 DEF UINext,
     HandleProgress, HandleRefreshComplete, HandlePrompt, HandleComplete, RetryPost, PressRefresh,
     ConfirmSettings, Rescan, Exit, Poll

\* While dry-run is ticked no StartClean that cleans for real is posted, not even
\* one that found m_to_worker full: the checkbox cannot change while post spins.
THEOREM DryCleansStayDry == Spec => DryRunIsHonoured
<1>1. Init => PendingHonest  BY DEF Init, PendingHonest
<1>2. ASSUME TypedState, PendingHonest, [Next]_vars
      PROVE  /\ PendingHonest'
             /\ dry_run => to_worker' # Append(to_worker, RealClean)
  <2>1. ASSUME dry_run, Honest(to_worker', pending')
        PROVE  to_worker' # Append(to_worker, RealClean)
    BY <1>2, <2>1, QueuesTyped, AppendTellsTheMessage DEF Honest
  <2>2. CASE WorkerNext
    <3>1. dry_run => Honest(to_worker', pending')
      BY <1>2, <2>2, WorkerHonest DEF Honest, PendingHonest
    <3> QED BY <1>2, <2>1, <2>2, <3>1, WorkerHonest DEF PendingHonest
  <2>3. CASE UINext
    <3>1. dry_run => Honest(to_worker', pending')  BY <1>2, <2>3, UIHonest
    <3>2. PendingHonest'
      BY <1>2, <2>3, <3>1, UIHonest DEF Honest, PendingHonest
    <3> QED BY <2>1, <3>1, <3>2
  <2>4. CASE UNCHANGED vars
    BY <1>2, <2>4, QueuesTyped, AppendTellsTheMessage DEF PendingHonest, vars, uiSide, view
  <2> QED BY <1>2, <2>2, <2>3, <2>4 DEF Next
<1>3. TypedState /\ PendingHonest /\ [Next]_vars
         => [dry_run => to_worker' # Append(to_worker, Start("Clean", FALSE))]_vars
  BY <1>2 DEF RealClean
<1>4. TypedState /\ PendingHonest /\ [Next]_vars => PendingHonest'  BY <1>2
<1> QED BY InitTyped, NextTyped, <1>1, <1>3, <1>4, PTL DEF Spec, DryRunIsHonoured

-----------------------------------------------------------------------------
(* The dialogue between an action and the UI, where nobody can cancel.     *)

\* The queue holds no message of S.
Free(q, S) == \A i \in 1..Len(q) : q[i] \notin S

\* The queue holds one message of S, and it is m.
Single(q, S, m) ==
    \E i \in 1..Len(q) : q[i] = m /\ \A j \in 1..Len(q) : q[j] \in S => j = i

\* What appending a message makes of the messages of one kind in a queue.
LEMMA AppendKinds ==
    ASSUME NEW T, NEW q \in Seq(T), NEW n \in T, NEW S, NEW m
    PROVE  /\ n \notin S /\ Free(q, S) => Free(Append(q, n), S)
           /\ n \notin S /\ Single(q, S, m) => Single(Append(q, n), S, m)
           /\ Free(q, S) => Single(Append(q, n), S, n)
<1> DEFINE r == Append(q, n)
<1>1. /\ Len(r) = Len(q) + 1 /\ Len(q) \in Nat /\ r[Len(q) + 1] = n
      /\ \A i \in 1..Len(q) : i \in 1..Len(r) /\ r[i] = q[i]
      /\ \A i \in 1..Len(r) : i \in 1..Len(q) \/ i = Len(q) + 1
  OBVIOUS
<1> HIDE DEF r
<1>2. n \notin S /\ Free(q, S) => Free(r, S)  BY <1>1 DEF Free
<1>3. ASSUME n \notin S, Single(q, S, m) PROVE Single(r, S, m)
  <2>1. PICK i \in 1..Len(q) : q[i] = m /\ \A j \in 1..Len(q) : q[j] \in S => j = i
    BY <1>3 DEF Single
  <2>2. i \in 1..Len(r) /\ r[i] = m  BY <1>1, <2>1
  <2>3. \A j \in 1..Len(r) : r[j] \in S => j = i  BY <1>1, <1>3, <2>1
  <2> QED BY <2>2, <2>3 DEF Single
<1>4. ASSUME Free(q, S) PROVE Single(r, S, n)
  <2>1. Len(q) + 1 \in 1..Len(r)  BY <1>1
  <2>2. \A j \in 1..Len(r) : r[j] \in S => j = Len(q) + 1  BY <1>1, <1>4 DEF Free
  <2> QED BY <1>1, <2>1, <2>2 DEF Single
<1> QED BY <1>2, <1>3, <1>4 DEF r

\* What removing the head makes of them.
LEMMA TailKinds ==
    ASSUME NEW T, NEW q \in Seq(T), q # <<>>, NEW S, NEW m
    PROVE  /\ Free(q, S) => Head(q) \notin S /\ Free(Tail(q), S)
           /\ Head(q) \notin S /\ m \in S /\ Single(q, S, m) => Single(Tail(q), S, m)
           /\ Head(q) \in S /\ Single(q, S, m) => Head(q) = m /\ Free(Tail(q), S)
<1> DEFINE r == Tail(q)
<1>1. /\ Len(r) = Len(q) - 1 /\ Len(q) \in Nat /\ 1 \in 1..Len(q) /\ Head(q) = q[1]
      /\ \A i \in 1..Len(r) : i + 1 \in 1..Len(q) /\ r[i] = q[i + 1] /\ i + 1 # 1
      /\ \A i \in 1..Len(q) : i # 1 => i - 1 \in 1..Len(r) /\ (i - 1) + 1 = i
  OBVIOUS
<1> HIDE DEF r
<1>2. Free(q, S) => Head(q) \notin S /\ Free(r, S)  BY <1>1 DEF Free
<1>3. ASSUME Head(q) \notin S, m \in S, Single(q, S, m) PROVE Single(r, S, m)
  <2>1. PICK i \in 1..Len(q) : q[i] = m /\ \A j \in 1..Len(q) : q[j] \in S => j = i
    BY <1>3 DEF Single
  <2>2. i # 1  BY <1>1, <1>3, <2>1
  <2>3. i - 1 \in 1..Len(r) /\ (i - 1) + 1 = i  BY <1>1, <2>2
  <2>4. r[i - 1] = m  BY <1>1, <2>1, <2>3
  <2>5. \A j \in 1..Len(r) : r[j] \in S => j = i - 1  BY <1>1, <2>1
  <2> QED BY <2>3, <2>4, <2>5 DEF Single
<1>4. ASSUME Head(q) \in S, Single(q, S, m) PROVE Head(q) = m /\ Free(r, S)
  <2>1. PICK i \in 1..Len(q) : q[i] = m /\ \A j \in 1..Len(q) : q[j] \in S => j = i
    BY <1>4 DEF Single
  <2>2. i = 1  BY <1>1, <1>4, <2>1
  <2>3. \A j \in 1..Len(r) : r[j] \notin S  BY <1>1, <2>1, <2>2
  <2> QED BY <1>1, <2>1, <2>2, <2>3 DEF Free
<1> QED BY <1>2, <1>3, <1>4 DEF r

\* The stages of the dialogue: nobody asks and nothing is left of an earlier
\* question; the question is on its way to the UI; its answer is on its way back,
\* in m_to_worker or with the UI thread that spins to post it.
Quiet ==
    ~InWait /\ Free(to_ui, Prompts) /\ Free(to_worker, Decisions) /\ pending \notin Decisions

Asked ==
    /\ InWait /\ Single(to_ui, Prompts, Prompt(question))
    /\ Free(to_worker, Decisions) /\ pending \notin Decisions

Sent ==
    /\ InWait /\ Free(to_ui, Prompts)
    /\ Single(to_worker, Decisions, Answer(question)) /\ pending \notin Decisions

Held ==
    /\ InWait /\ Free(to_ui, Prompts)
    /\ Free(to_worker, Decisions) /\ pending = Answer(question)

Staged == Quiet \/ Asked \/ Sent \/ Held

\* Nothing interrupts a wait: the flag is never set, and the worker runs until it
\* takes ShutdownWorker between two jobs.
Undisturbed ==
    /\ cancel = FALSE /\ upc # "cancelling"
    /\ wpc # "aborted" /\ (running \/ wpc = "stopped")

\* The moves of the dialogue, and the steps it does not notice.
Moves ==
    \/ Quiet /\ (Quiet' \/ (Asked' /\ wpc' = "waiting"))
    \/ InWait /\ question' = question
          /\ \/ Asked /\ (Asked' \/ Sent' \/ Held')
             \/ Sent /\ Sent'
             \/ Held /\ (Held' \/ Sent')
    \/ Sent /\ Quiet' /\ wpc' = "executing" /\ Head(to_worker) = Answer(question)

LEMMA UndisturbedKept ==
    ASSUME TypedState, Undisturbed, [Next]_vars, "Cancel" \notin Buttons
    PROVE  Undisturbed'
<1> USE DEF Undisturbed, vars, atomics, workerVars, view, workerSide, uiSide
<1>1. CASE WorkerNext
  BY <1>1 DEF WorkerNext, TakeJob, DiscardDecision, StopWorker, Dequeue, SetBusy, ClearCancel,
     Report, Consult, Ask, CheckCancel, GivesUp, ReceiveDecision, IgnoreMessage, PollEmpty, Finish,
     AbortJob, SwallowAbort, Leave, Goto
<1>2. CASE UINext
  <2>1. UNCHANGED <<cancel, wpc, running>> \/ SetCancel
    BY <1>2 DEF UINext, HandleProgress, HandlePrompt, HandleRefreshComplete, HandleComplete, Poll,
       Drained, RetryPost, IdleFrame, PressRefresh, ConfirmSettings, Rescan, ToggleDryRun,
       PressCancel, PressClose, StartOperation, ConfirmDialog, Begin, OpenDialog,
       DismissDialog, Exit, Join
  <2>2. upc' # "cancelling"
    BY <1>2 DEF UINext, HandleProgress, HandlePrompt, HandleRefreshComplete, HandleComplete, Poll,
       Drained, RetryPost, IdleFrame, PressRefresh, ConfirmSettings, Rescan, ToggleDryRun,
       PressCancel, SetCancel, PressClose, StartOperation, ConfirmDialog, Begin, OpenDialog,
       DismissDialog, Exit, Join, Post, PostThen, NoPost, Respond
  <2> QED BY <2>1, <2>2 DEF SetCancel
<1>3. CASE UNCHANGED vars  BY <1>3
<1> QED BY <1>1, <1>2, <1>3 DEF Next

\* The two messages of a dialogue and the others.
LEMMA DialogueKinds ==
    /\ Progress \notin Prompts
    /\ \A j, ok : Complete(j, ok) \notin Prompts
    /\ RefreshRegistry \notin Decisions /\ ShutdownWorker \notin Decisions
    /\ \A o, b : Start(o, b) \notin Decisions
    /\ NoMessage \notin Decisions
    /\ \A m \in WorkerMessage : m.type # "Decision" <=> m \notin Decisions
    /\ \A m : m \in Decisions => m.type = "Decision"
    /\ \A m : m \in Prompts => m = Prompt(m.question) /\ m.type = "Prompt"
<1>1. \A m \in WorkerMessage : m.type # "Decision" <=> m \notin Decisions
  BY DEF WorkerMessage, Job, Decisions, Decision, ShutdownWorker
<1>2. \A m : m \in Prompts => m = Prompt(m.question) /\ m.type = "Prompt"
  BY DEF Prompts, Prompt
<1> QED
  BY <1>1, <1>2 DEF Progress, Prompts, Complete, RefreshRegistry, ShutdownWorker, Decisions, Decision, Start,
     NoMessage

\* A step of the worker moves the dialogue on or leaves it where it is.
LEMMA WorkerMoves ==
    ASSUME TypedState, Undisturbed, Staged, WorkerNext
    PROVE  Moves
<1> USE DEF uiSide
<1>1. ASSUME ~InWait, ~InWait', UNCHANGED pending,
             to_ui' = to_ui \/ (\E m \in UIMessage \ Prompts : to_ui' = Append(to_ui, m)),
             to_worker' = to_worker \/ (to_worker # <<>> /\ to_worker' = Tail(to_worker))
      PROVE  Moves
  <2>1. Quiet  BY <1>1 DEF Staged, Asked, Sent, Held
  <2>2. Free(to_ui', Prompts)
    <3>1. CASE to_ui' = to_ui  BY <2>1, <3>1 DEF Quiet
    <3>2. ASSUME NEW m \in UIMessage \ Prompts, to_ui' = Append(to_ui, m)
          PROVE  Free(to_ui', Prompts)
      BY <2>1, <3>2, QueuesTyped, AppendKinds DEF Quiet
    <3> QED BY <1>1, <3>1, <3>2
  <2>3. Free(to_worker', Decisions)
    <3>1. CASE to_worker' = to_worker  BY <2>1, <3>1 DEF Quiet
    <3>2. CASE to_worker # <<>> /\ to_worker' = Tail(to_worker)
      BY <2>1, <3>2, QueuesTyped, TailKinds DEF Quiet
    <3> QED BY <1>1, <3>1, <3>2
  <2>4. Quiet'  BY <1>1, <2>1, <2>2, <2>3 DEF Quiet
  <2> QED BY <2>1, <2>4 DEF Moves
<1>2. ASSUME InWait, InWait', UNCHANGED <<pending, to_ui, question>>,
             \/ to_worker' = to_worker
             \/ /\ to_worker # <<>> /\ Head(to_worker).type # "Decision"
                /\ to_worker' = Tail(to_worker)
      PROVE  Moves
  <2>1. CASE to_worker' = to_worker
    BY <1>2, <2>1 DEF Staged, Quiet, Asked, Sent, Held, Moves
  <2>2. CASE to_worker # <<>> /\ Head(to_worker).type # "Decision" /\ to_worker' = Tail(to_worker)
    <3>1. Head(to_worker) \notin Decisions  BY <2>2, DialogueKinds
    <3>2. Answer(question) \in Decisions  BY PromptAndAnswer
    <3>3. /\ Free(to_worker, Decisions) => Free(to_worker', Decisions)
          /\ Single(to_worker, Decisions, Answer(question))
               => Single(to_worker', Decisions, Answer(question))
      BY <2>2, <3>1, <3>2, QueuesTyped, TailKinds
    <3> QED BY <1>2, <3>3 DEF Staged, Quiet, Asked, Sent, Held, Moves
  <2> QED BY <1>2, <2>1, <2>2
<1>3. CASE TakeJob \/ DiscardDecision \/ StopWorker
  BY <1>1, <1>3 DEF TakeJob, DiscardDecision, StopWorker, Dequeue, InWait, workerSide, workerVars
<1>4. CASE SetBusy \/ ClearCancel \/ Leave
  BY <1>1, <1>4 DEF SetBusy, ClearCancel, Leave, InWait
<1>5. CASE Report
  BY <1>1, <1>5, Kinds, DialogueKinds DEF Report, PostToUI, InWait
<1>6. CASE \E q \in Questions : Consult(q)
  BY <1>1, <1>6 DEF Consult, InWait
<1>7. CASE Ask
  <2>1. /\ ~InWait /\ wpc' = "waiting" /\ UNCHANGED <<to_worker, pending, question>>
        /\ to_ui' = Append(to_ui, Prompt(question)) /\ question \in Questions
    BY <1>7 DEF Ask, Goto, PostToUI, InWait, TypedState, Structure
  <2>2. Quiet  BY <2>1 DEF Staged, Asked, Sent, Held
  <2>3. Single(to_ui', Prompts, Prompt(question))
    BY <2>1, <2>2, Kinds, QueuesTyped, AppendKinds DEF Quiet
  <2>4. Asked'  BY <2>1, <2>2, <2>3 DEF Asked, Quiet, InWait
  <2> QED BY <2>1, <2>2, <2>4 DEF Moves
<1>8. CASE CheckCancel
  BY <1>2, <1>8 DEF CheckCancel, Goto, GivesUp, InWait, Undisturbed
<1>9. CASE ReceiveDecision
  <2>1. /\ InWait /\ wpc' = "executing" /\ to_worker # <<>> /\ Head(to_worker).type = "Decision"
        /\ to_worker' = Tail(to_worker) /\ UNCHANGED <<to_ui, pending, question>>
    BY <1>9 DEF ReceiveDecision, Goto, InWait
  <2>2. Head(to_worker) \in Decisions  BY <2>1, DialogueKinds, QueuesTyped, TailTyped
  <2>3. ~Free(to_worker, Decisions)  BY <2>1, <2>2, QueuesTyped, TailKinds
  <2>4. Sent  BY <2>1, <2>3 DEF Staged, Quiet, Asked, Held
  <2>5. Head(to_worker) = Answer(question) /\ Free(to_worker', Decisions)
    BY <2>1, <2>2, <2>4, QueuesTyped, TailKinds DEF Sent
  <2>6. Quiet'  BY <2>1, <2>4, <2>5 DEF Sent, Quiet, InWait
  <2> QED BY <2>1, <2>4, <2>5, <2>6 DEF Moves
<1>10. CASE IgnoreMessage
  BY <1>2, <1>10 DEF IgnoreMessage, Goto, InWait
<1>11. CASE PollEmpty
  BY <1>2, <1>11 DEF PollEmpty, Goto, InWait
<1>12. CASE Finish
  <2>1. PICK ok \in BOOLEAN : to_ui' = Append(to_ui, Complete(job, ok))
    BY <1>12 DEF Finish, PostToUI
  <2>2. Complete(job, ok) \in UIMessage \ Prompts
    BY <1>12, Kinds, DialogueKinds DEF Finish, TypedState, TypeOK, Structure
  <2>3. ~InWait /\ ~InWait' /\ UNCHANGED <<pending, to_worker>>
    BY <1>12 DEF Finish, Goto, InWait
  <2> QED BY <1>1, <2>1, <2>2, <2>3
<1>13. CASE AbortJob \/ SwallowAbort
  BY <1>13 DEF AbortJob, SwallowAbort, Undisturbed
<1> QED
  BY <1>3, <1>4, <1>5, <1>6, <1>7, <1>8, <1>9, <1>10, <1>11, <1>12, <1>13 DEF WorkerNext

\* What a step of the UI thread that answers no question does to the messages
\* that are no prompts: m_to_ui loses one, m_to_worker gets one that is no
\* decision, at once or after spinning, or the one that was spun for.
Elsewhere ==
    /\ to_ui' = to_ui \/ (to_ui # <<>> /\ Head(to_ui) \notin Prompts /\ to_ui' = Tail(to_ui))
    /\ \/ UNCHANGED <<to_worker, pending>>
       \/ /\ pending' = pending
          /\ \E m \in WorkerMessage \ Decisions : to_worker' = Append(to_worker, m)
       \/ to_worker' = to_worker /\ pending = NoMessage /\ pending' \notin Decisions
       \/ /\ pending \in WorkerMessage /\ pending' = NoMessage
          /\ to_worker' = Append(to_worker, pending)

\* Such a step leaves the dialogue where it is, but for an answer that was spun for.
LEMMA ElsewhereMoves ==
    ASSUME TypedState, Staged, Elsewhere, UNCHANGED <<wpc, question>>
    PROVE  Moves
<1>1. InWait' = InWait  BY DEF InWait
<1>2. Answer(question) \in Decisions /\ Answer(question) \in WorkerMessage
  BY PromptAndAnswer, Kinds
<1>3. question \in Questions => Prompt(question) \in Prompts  BY PromptAndAnswer
<1>4. InWait => question \in Questions  BY DEF InWait, TypedState, Structure
<1>5. /\ Free(to_ui, Prompts) => Free(to_ui', Prompts)
      /\ InWait /\ Single(to_ui, Prompts, Prompt(question))
           => Single(to_ui', Prompts, Prompt(question))
  <2>1. CASE to_ui' = to_ui  BY <2>1
  <2>2. CASE to_ui # <<>> /\ Head(to_ui) \notin Prompts /\ to_ui' = Tail(to_ui)
    BY <1>3, <1>4, <2>2, QueuesTyped, TailKinds
  <2> QED BY <2>1, <2>2 DEF Elsewhere
<1>6. CASE UNCHANGED <<to_worker, pending>>
  BY <1>1, <1>5, <1>6 DEF Staged, Quiet, Asked, Sent, Held, Moves
<1>7. ASSUME pending' = pending, NEW m \in WorkerMessage \ Decisions,
             to_worker' = Append(to_worker, m)
      PROVE  Moves
  <2>1. /\ Free(to_worker, Decisions) => Free(to_worker', Decisions)
        /\ Single(to_worker, Decisions, Answer(question))
             => Single(to_worker', Decisions, Answer(question))
    BY <1>7, QueuesTyped, AppendKinds
  <2> QED BY <1>1, <1>5, <1>7, <2>1 DEF Staged, Quiet, Asked, Sent, Held, Moves
<1>8. CASE to_worker' = to_worker /\ pending = NoMessage /\ pending' \notin Decisions
  BY <1>1, <1>2, <1>5, <1>8, DialogueKinds DEF Staged, Quiet, Asked, Sent, Held, Moves
<1>9. CASE pending \in WorkerMessage /\ pending' = NoMessage /\ to_worker' = Append(to_worker, pending)
  <2>1. pending \notin Decisions =>
        /\ Free(to_worker, Decisions) => Free(to_worker', Decisions)
        /\ Single(to_worker, Decisions, Answer(question))
             => Single(to_worker', Decisions, Answer(question))
    BY <1>9, QueuesTyped, AppendKinds
  <2>2. Held => Single(to_worker', Decisions, Answer(question))
    BY <1>9, QueuesTyped, AppendKinds DEF Held
  <2>3. pending' \notin Decisions  BY <1>9, DialogueKinds
  <2>4. Quiet => Quiet'  BY <1>1, <1>5, <2>1, <2>3 DEF Quiet
  <2>5. Asked => Asked'  BY <1>1, <1>5, <2>1, <2>3 DEF Asked
  <2>6. Sent => Sent'  BY <1>1, <1>5, <2>1, <2>3 DEF Sent
  <2>7. Held => Sent'  BY <1>1, <1>5, <2>2, <2>3 DEF Sent, Held
  <2> QED BY <2>4, <2>5, <2>6, <2>7 DEF Staged, Moves, Asked, Sent, Held
<1> QED BY <1>6, <1>7, <1>8, <1>9 DEF Elsewhere

\* The UI answers the question it finds: the dialogue moves on.
LEMMA PromptMoves ==
    ASSUME TypedState, Staged, HandlePrompt
    PROVE  Moves
<1> DEFINE p == Head(to_ui)
<1>1. /\ upc = "draining" /\ to_ui # <<>> /\ p.type = "Prompt" /\ to_ui' = Tail(to_ui)
      /\ PostThen(Answer(p.question), "draining") /\ UNCHANGED <<wpc, question>>
  BY DEF HandlePrompt, Poll, Respond, Post, workerVars
<1>2. p \in Prompts
  BY <1>1, QueuesTyped, TailTyped DEF UIMessage, Progress
<1>3. Asked
  <2>1. ~Free(to_ui, Prompts)  BY <1>1, <1>2, QueuesTyped, TailKinds
  <2> QED BY <2>1 DEF Staged, Quiet, Sent, Held
<1>4. p = Prompt(question) /\ Free(to_ui', Prompts)
  BY <1>1, <1>2, <1>3, QueuesTyped, TailKinds DEF Asked
<1>5. p.question = question  BY <1>4 DEF Prompt
<1>6. Answer(question) \in Decisions /\ Answer(question) \in WorkerMessage
  BY PromptAndAnswer, Kinds
<1>7. InWait' = InWait  BY <1>1 DEF InWait
<1>8. CASE to_worker' = Append(to_worker, Answer(question)) /\ UNCHANGED pending
  <2>1. Single(to_worker', Decisions, Answer(question))
    BY <1>3, <1>6, <1>8, QueuesTyped, AppendKinds DEF Asked
  <2>2. Sent'  BY <1>1, <1>3, <1>4, <1>7, <1>8, <2>1 DEF Asked, Sent
  <2> QED BY <1>1, <1>3, <2>2 DEF Moves, Asked
<1>9. CASE pending' = Answer(question) /\ UNCHANGED to_worker
  <2>1. Held'  BY <1>1, <1>3, <1>4, <1>7, <1>9 DEF Asked, Held
  <2> QED BY <1>1, <1>3, <2>1 DEF Moves, Asked
<1> QED BY <1>1, <1>5, <1>8, <1>9 DEF PostThen

\* Any other step of the UI thread has nothing to do with the dialogue.
LEMMA UIElsewhere ==
    ASSUME TypedState, UINext, ~HandlePrompt
    PROVE  Elsewhere
<1> USE DEF atomics, workerVars, view, workerSide, uiSide
<1>1. upc # "posting" => pending = NoMessage  BY DEF TypedState, Structure
<1>2. ASSUME NEW m \in WorkerMessage \ Decisions, upc # "posting",
             PostThen(m, "draining") \/ PostThen(m, "joining"),
             \/ to_ui' = to_ui
             \/ to_ui # <<>> /\ Head(to_ui) \notin Prompts /\ to_ui' = Tail(to_ui)
      PROVE  Elsewhere
  BY <1>1, <1>2 DEF PostThen, Elsewhere
<1>3. ASSUME NEW next, NoPost(next),
             \/ to_ui' = to_ui
             \/ to_ui # <<>> /\ Head(to_ui) \notin Prompts /\ to_ui' = Tail(to_ui)
      PROVE  Elsewhere
  BY <1>3 DEF NoPost, Elsewhere
<1>4. CASE HandleProgress \/ HandleRefreshComplete
  <2>1. Head(to_ui) \notin Prompts  BY <1>4, DialogueKinds DEF HandleProgress, HandleRefreshComplete, Poll
  <2> QED BY <1>4, <2>1 DEF HandleProgress, HandleRefreshComplete, Poll, Elsewhere
<1>5. CASE HandleComplete
  <2>1. /\ to_ui # <<>> /\ Head(to_ui) \notin Prompts /\ to_ui' = Tail(to_ui) /\ upc # "posting"
        /\ PostThen(RefreshRegistry, "draining") \/ NoPost("draining")
    BY <1>5, DialogueKinds DEF HandleComplete, Poll, Post
  <2> QED BY <1>2, <1>3, <2>1, Kinds, DialogueKinds
<1>6. CASE RetryPost
  BY <1>6 DEF RetryPost, Elsewhere, TypedState, TypeOK, Structure
<1>7. CASE PressRefresh \/ ConfirmSettings
  BY <1>2, <1>7, Kinds, DialogueKinds DEF PressRefresh, ConfirmSettings, Rescan, Post, Input
<1>8. CASE Drained \/ IdleFrame \/ PressCancel \/ SetCancel \/ PressClose \/ Join \/ ToggleDryRun
  <2>1. (\E next : NoPost(next)) /\ to_ui' = to_ui
    BY <1>8 DEF Drained, IdleFrame, PressCancel, SetCancel, PressClose, Join, ToggleDryRun
  <2> QED BY <1>3, <2>1
<1>9. ASSUME NEW o \in UserOps, StartOperation(o) \/ ConfirmDialog(o)
      PROVE  Elsewhere
  <2> DEFINE m == Start(o, dry_run /\ o = "Clean")
  <2>1. PostThen(m, "draining") /\ to_ui' = to_ui /\ upc # "posting"
    BY <1>9 DEF StartOperation, ConfirmDialog, CanStart, Input, Begin, Post
  <2>2. m \in WorkerMessage \ Decisions
    BY Kinds, DialogueKinds DEF TypedState, TypeOK
  <2> QED BY <1>2, <2>1, <2>2
<1>10. ASSUME NEW o \in UserOps, OpenDialog(o) \/ DismissDialog(o)
       PROVE  Elsewhere
  <2>1. NoPost("draining") /\ to_ui' = to_ui  BY <1>10 DEF OpenDialog, DismissDialog
  <2> QED BY <1>3, <2>1
<1>11. CASE Exit
  BY <1>2, <1>11, Kinds, DialogueKinds DEF Exit, Input
<1> QED BY <1>4, <1>5, <1>6, <1>7, <1>8, <1>9, <1>10, <1>11 DEF UINext

\* What is known of every state: which stage the dialogue is in, and that nothing
\* interrupts it.
InDialogue == TypedState /\ Undisturbed /\ Staged

LEMMA InitDialogue == Init => InDialogue
<1> SUFFICES ASSUME Init PROVE Undisturbed /\ Quiet
    BY InitTyped DEF InDialogue, Staged
<1>1. Free(to_worker, Decisions) /\ Free(to_ui, Prompts)
  BY DialogueKinds DEF Init, Free
<1>2. pending \notin Decisions  BY DialogueKinds DEF Init
<1> QED BY <1>1, <1>2 DEF Init, Undisturbed, Quiet, InWait

\* Every step is a move of the dialogue, or one it does not notice.
LEMMA NextMoves ==
    ASSUME InDialogue, [Next]_vars, "Cancel" \notin Buttons
    PROVE  InDialogue' /\ Moves
<1> USE DEF InDialogue
<1>1. TypedState' /\ Undisturbed'  BY NextTyped, UndisturbedKept
<1>2. Moves
  <2>1. CASE WorkerNext  BY <2>1, WorkerMoves
  <2>2. CASE HandlePrompt  BY <2>2, PromptMoves
  <2>3. CASE UINext /\ ~HandlePrompt
    <3>1. UNCHANGED <<wpc, question>>
      BY <2>3 DEF UINext, HandleProgress, HandleRefreshComplete, HandleComplete, Poll,
         Drained, RetryPost, IdleFrame, PressRefresh, ConfirmSettings, Rescan, ToggleDryRun,
         PressCancel, SetCancel, PressClose, StartOperation, ConfirmDialog, Begin, OpenDialog,
         DismissDialog, Exit, Join, workerVars, workerSide
    <3> QED BY <2>3, <3>1, UIElsewhere, ElsewhereMoves
  <2>4. CASE UNCHANGED vars
    BY <2>4 DEF Staged, Quiet, Asked, Sent, Held, Moves, InWait, vars, workerVars, uiSide
  <2> QED BY <2>1, <2>2, <2>3, <2>4 DEF Next
<1>3. Staged'  BY <1>2 DEF Moves, Staged
<1> QED BY <1>1, <1>2, <1>3

\* Where nobody cancels, a worker that stops waiting has the answer to the question
\* it asked: no answer is left in m_to_worker from an earlier one.
THEOREM AnswersMatch ==
    ASSUME "Cancel" \notin Buttons
    PROVE  Spec => AnswerMatchesQuestion
<1>1. InDialogue /\ [Next]_vars => InDialogue'  BY NextMoves
<1>2. InDialogue /\ [Next]_vars
        => [wpc = "polling" /\ wpc' = "executing" => Head(to_worker) = Answer(question)]_vars
  <2> SUFFICES ASSUME InDialogue, [Next]_vars, wpc = "polling", wpc' = "executing"
               PROVE  Head(to_worker) = Answer(question)
    OBVIOUS
  <2>1. Moves  BY NextMoves
  <2>2. InWait /\ ~InWait'  BY DEF InWait
  <2> QED BY <2>1, <2>2 DEF Moves, Quiet, Asked, Sent, Held
<1> QED BY InitDialogue, <1>1, <1>2, PTL DEF Spec, AnswerMatchesQuestion

-----------------------------------------------------------------------------
(* The dialogue is the one that IActionCallback promises.                  *)

\* The answers under way, at each stage.
LEMMA UnderWay ==
    ASSUME NEW q, NEW p, NEW a \in Decisions
    PROVE  LET S == {m \in Decisions : m = p \/ Holds(q, {m})} IN
           /\ Free(q, Decisions) /\ p \notin Decisions => S = {}
           /\ Free(q, Decisions) /\ p = a => S = {a}
           /\ Single(q, Decisions, a) /\ p \notin Decisions => S = {a}
<1>1. ASSUME Free(q, Decisions) PROVE \A m \in Decisions : ~Holds(q, {m})
  BY <1>1 DEF Free, Holds
<1>2. ASSUME Single(q, Decisions, a) PROVE \A m \in Decisions : Holds(q, {m}) <=> m = a
  <2>1. PICK i \in 1..Len(q) : q[i] = a /\ \A j \in 1..Len(q) : q[j] \in Decisions => j = i
    BY <1>2 DEF Single
  <2> QED BY <2>1 DEF Holds
<1> QED BY <1>1, <1>2

\* The question as the action sees it, and its answer.
OpenQuestion == IF InWait THEN question ELSE "None"

OpenReply ==
    IF InWait /\ AnswersUnderWay # {} THEN CHOOSE m \in AnswersUnderWay : TRUE ELSE NoAnswer

\* What each stage is in the abstract dialogue.
Shown ==
    /\ Quiet => OpenQuestion = "None" /\ OpenReply = NoAnswer
    /\ Asked => OpenQuestion = question /\ OpenReply = NoAnswer
    /\ Sent \/ Held => OpenQuestion = question /\ OpenReply = Answer(question)

LEMMA StagesShow == Shown
<1>1. Asked => AnswersUnderWay = {}
  BY UnderWay, PromptAndAnswer DEF Asked, AnswersUnderWay
<1>2. Sent \/ Held => AnswersUnderWay = {Answer(question)}
  BY UnderWay, PromptAndAnswer DEF Sent, Held, AnswersUnderWay
<1>3. \A a : (CHOOSE m \in {a} : TRUE) = a  OBVIOUS
<1> QED BY <1>1, <1>2, <1>3 DEF Shown, OpenQuestion, OpenReply, Quiet, Asked, Sent, Held

\* Each move is a step of the abstract dialogue: asking opens the question, the UI
\* answers it, and with the answer the action goes on.
LEMMA MovesImplement ==
    ASSUME TypedState, TypedState', Moves, Shown, Shown'
    PROVE  [Dialogue!Next]_(Dialogue!vars)
<1> USE DEF Shown
<1> DEFINE Same == OpenQuestion' = OpenQuestion /\ OpenReply' = OpenReply
<1>1. Same => UNCHANGED Dialogue!vars
  BY DEF Dialogue!vars, OpenQuestion, OpenReply
<1>2. InWait => question \in Questions /\ question # "None"
  BY ParametersAssumption DEF InWait, TypedState, Structure
<1>3. \A q : Answer(q) # NoAnswer  BY DEF Answer, Decision, NoAnswer
<1>4. CASE Quiet /\ Quiet'  BY <1>1, <1>4
<1>5. CASE Quiet /\ Asked' /\ wpc' = "waiting"
  <2>1. question' \in Questions
    BY <1>5 DEF Asked, InWait, TypedState, Structure
  <2>2. OpenQuestion = "None" /\ OpenQuestion' = question' /\ OpenReply' = OpenReply
    BY <1>5
  <2>3. Dialogue!Ask(question')  BY <2>2 DEF Dialogue!Ask, OpenQuestion, OpenReply
  <2> QED BY <2>1, <2>3 DEF Dialogue!Next
<1>6. CASE InWait /\ question' = question /\ Asked /\ Asked'  BY <1>1, <1>6
<1>7. CASE InWait /\ question' = question /\ Asked /\ (Sent' \/ Held')
  <2>1. /\ OpenQuestion = question /\ OpenReply = NoAnswer
        /\ OpenQuestion' = question /\ OpenReply' = Answer(question)
    BY <1>7
  <2>2. Dialogue!Reply  BY <1>2, <1>7, <2>1 DEF Dialogue!Reply, OpenQuestion, OpenReply, Answers
  <2> QED BY <2>2 DEF Dialogue!Next
<1>8. CASE InWait /\ question' = question /\ (Sent \/ Held) /\ (Sent' \/ Held')
  BY <1>1, <1>8
<1>9. CASE Sent /\ Quiet'
  <2>1. OpenReply # NoAnswer /\ OpenQuestion' = "None" /\ OpenReply' = NoAnswer
    BY <1>3, <1>9
  <2>2. Dialogue!Resume  BY <2>1 DEF Dialogue!Resume, OpenQuestion, OpenReply
  <2> QED BY <2>2 DEF Dialogue!Next
<1> QED BY <1>4, <1>5, <1>6, <1>7, <1>8, <1>9 DEF Moves

\* The safety part of AsksAndAnswers: where nobody cancels, the dialogue is the one
\* IActionCallback promises.  An action's question stays open until it is answered,
\* the answer is the one given to this question, and no other comes.
THEOREM DialogueIsTheOnePromised ==
    ASSUME "Cancel" \notin Buttons
    PROVE  Spec => Dialogue!Safety
<1>1. InDialogue /\ [Next]_vars => InDialogue' /\ Moves  BY NextMoves
<1>2. Init => Dialogue!Init
  <2> SUFFICES ASSUME Init PROVE OpenQuestion = "None" /\ OpenReply = NoAnswer
    BY DEF Dialogue!Init, OpenQuestion, OpenReply
  <2> QED BY DEF Init, InWait, OpenQuestion, OpenReply
<1>3. Spec => []Shown  BY StagesShow, PTL
<1>4. InDialogue /\ [Next]_vars /\ Shown /\ Shown' => [Dialogue!Next]_(Dialogue!vars)
  BY <1>1, MovesImplement DEF InDialogue
<1> QED BY InitDialogue, <1>1, <1>2, <1>3, <1>4, PTL DEF Spec, Dialogue!Safety
=============================================================================
