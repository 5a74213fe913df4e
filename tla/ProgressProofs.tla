---------------------------- MODULE ProgressProofs ----------------------------
(***************************************************************************)
(* What TLAPS proves about the work of the operations of Orchestrator: how *)
(* far a backup, a restore or a clean has come at each of its stages, and  *)
(* so what it has done when it ends.                                       *)
(***************************************************************************)
EXTENDS OrchestratorProofs

(* What is remembered between operations.                                  *)

\* What was to see before an operation has been changed only by the stages whose
\* work that is; a restore is of a complete snapshot.
Remembered ==
    /\ observed.machine \in [Slots -> States]
    /\ request = None => observed = Observed
    /\ \/ request.name \in {"Backup", "Startup", "Shutdown"}
       \/ stage.phase \in {"None", "Open", "Create", "Shutdown"}
       => machine = observed.machine
    /\ \/ request.name # "Backup"
       \/ stage.phase \in {"None", "Shutdown"}
       \/ stage.phase = "Create" /\ script # <<>>
       => Observed.saved = observed.saved
    /\ request.name = "Restore" => snapshot = "Complete"

\* What the stages of an operation may change.
LEMMA StagesWork ==
    ASSUME TypedState, Ordered, Stays, Work
    PROVE  /\ stage.phase \notin {"Clean", "Restore"} => machine' = machine
           /\ stage.phase \notin {"Create", "Seal", "Backup"} => UNCHANGED <<archive, snapshot>>
           /\ stage.phase \notin {"Startup", "Shutdown"} => app' = app
           /\ stage.phase \in Phases(request)
           /\ request.name \in {"Backup", "Startup", "Shutdown"} => stage.phase \notin {"Clean", "Restore"}
           /\ request.name # "Backup" => stage.phase \notin {"Create", "Seal", "Backup"}
<1>1. /\ stage.phase \in {"Startup", "Shutdown", "Create", "Seal", "Open", "Backup", "Clean", "Restore"}
      /\ Fitting /\ Sane
  BY StaysTyped DEF Ordered
<1>2. stage.phase \in Phases(request) /\ request \in AllRequests
  BY CurrentTyped DEF StagesOf, Stays
<1>3. /\ request.name \in {"Backup", "Startup", "Shutdown"} => stage.phase \notin {"Clean", "Restore"}
      /\ request.name # "Backup" => stage.phase \notin {"Create", "Seal", "Backup"}
  BY <1>2 DEF Phases, AllRequests
<1>4. CASE stage.phase = "Clean"  BY <1>1, <1>2, <1>3, <1>4, CleanStep
<1>5. CASE stage.phase = "Restore"  BY <1>1, <1>2, <1>3, <1>5, RestoreStep
<1>6. CASE stage.phase = "Backup"  BY <1>1, <1>2, <1>3, <1>6, BackupStep
<1>7. CASE stage.phase \in {"Startup", "Shutdown"}  BY <1>1, <1>2, <1>3, <1>7, HookStep
<1>8. CASE stage.phase \in {"Create", "Seal", "Open"}  BY <1>1, <1>2, <1>3, <1>8, FileStep
<1> QED BY <1>1, <1>4, <1>5, <1>6, <1>7, <1>8

LEMMA RememberedKept ==
    ASSUME TypedState, TypedState', Ordered, Remembered, [Next]_vars
    PROVE  Remembered'
<1>1. ASSUME UNCHANGED <<machine, archive, snapshot>> PROVE UNCHANGED Observed.saved
  BY <1>1 DEF Observed
<1>2. ASSUME NEW r \in Requests, Begin(r) PROVE Remembered'
  <2>1. /\ request = None /\ request' = r /\ stage' = NoStage /\ script' = <<>>
        /\ r.name = "Restore" => snapshot = "Complete"
        /\ UNCHANGED <<machine, archive, snapshot, observed>>
    BY <1>2 DEF Begin, Idle, TypedState, TypeOK, resources
  <2>2. r # None
    <3>1. r.name # "None"  BY OrchestratorAssumption DEF AllRequests
    <3> QED BY <3>1 DEF None
  <2>3. observed = Observed  BY <2>1 DEF Remembered
  <2>4. observed.machine = machine /\ observed.saved = Observed.saved  BY <2>3 DEF Observed
  <2> QED BY <1>1, <2>1, <2>2, <2>4 DEF Remembered
<1>3. CASE EnterStage
  <2>1. /\ request # None /\ request \in AllRequests /\ script = <<>>
        /\ stage = Before(request, stage') /\ stage' \in StageSet
        /\ UNCHANGED <<machine, archive, snapshot, request, observed>>
    BY <1>3, EnterStageRun DEF Ordered, resources, history
  <2>2. stage'.phase # "None"  BY <2>1 DEF StageSet
  <2>3. stage'.phase \in {"Open", "Shutdown"} => stage.phase = "None"
    BY <2>1 DEF Before, NoStage, Stage
  <2>4. stage'.phase = "Create" => stage.phase = "Shutdown"  BY <2>1 DEF Before, Stage
  <2> QED BY <1>1, <2>1, <2>2, <2>3, <2>4 DEF Remembered
<1>4. CASE Stays /\ Work
  <2>1. UNCHANGED <<stage, request, observed>> /\ request # None  BY <1>4 DEF Stays
  <2>2. stage.phase = "Create" => script' = <<>>  BY <1>4, FileStep DEF Ordered
  <2>3. request.name \in {"Backup", "Startup", "Shutdown"}
           \/ stage.phase \in {"None", "Open", "Create", "Shutdown"} => machine' = machine
    BY <1>4, StagesWork
  <2>4. request.name # "Backup" \/ stage.phase \in {"None", "Shutdown"} => UNCHANGED <<archive, snapshot>>
    BY <1>4, StagesWork
  <2>5. UNCHANGED <<archive, snapshot>> => UNCHANGED Observed.saved  BY DEF Observed
  <2> QED BY <2>1, <2>2, <2>3, <2>4, <2>5 DEF Remembered
<1>5. CASE Succeed \/ Abandon \/ Use
  <2>1. request' = None /\ observed' = Observed'
    BY <1>5 DEF Use, Succeed, Abandon, Stop, Idle
  <2>2. observed'.machine = machine' /\ observed'.saved = Observed'.saved
    BY <2>1 DEF Observed
  <2>3. machine' \in [Slots -> States]  BY DEF TypedState, TypeOK
  <2> QED BY <2>1, <2>2, <2>3 DEF Remembered, None
<1>6. CASE UNCHANGED vars
  <2>1. UNCHANGED <<machine, archive, snapshot, app, request, stage, script, observed>>
    BY <1>6 DEF vars, resources, history
  <2>2. UNCHANGED Observed  BY <2>1 DEF Observed
  <2> QED BY <2>1, <2>2 DEF Remembered
<1> QED BY <1>2, <1>3, <1>4, <1>5, <1>6, Cases

-----------------------------------------------------------------------------
(* How far a clean has come.                                               *)

Emptied(i) == Excused(i) \/ \A s \in Of(i) : machine[s] = "Absent"

\* The actions after the current one are empty, this one is or its resource is
\* still to be dropped.
Emptying ==
    \A i \in Actions : stage = Stage("Clean", i) /\ ~request.simulate =>
       /\ \A j \in Actions : j > i => Emptied(j)
       /\ Emptied(i) \/ EndsIn(script, i)

\* Excuses last as long as the operation.
LEMMA ExcusesLast ==
    ASSUME passed \subseteq passed'
    PROVE  \A j : Excused(j) => Excused(j)'
BY DEF Excused

LEMMA LastOfScript ==
    ASSUME NEW S, NEW s \in Seq(S), s # <<>>, NEW i, EndsIn(s, i)
    PROVE  /\ EndsIn(<<s[Len(s)]>>, i)
           /\ \/ EndsIn(Tail(s), i)
              \/ Tail(s) = <<>> /\ Head(s).do \in {"drop", "clean"} /\ Head(s).slot = <<i, 0>>
<1>1. EndsIn(<<s[Len(s)]>>, i) /\ (Tail(s) # <<>> => EndsIn(Tail(s), i))
  BY Scripts, EndsInJoined
<1>2. /\ Tail(s) \in Seq(S) /\ Len(Tail(s)) = Len(s) - 1 /\ Len(s) \in Nat /\ Head(s) = s[1]
  BY HeadTailProperties, LenProperties
<1>3. Tail(s) = <<>> => Len(Tail(s)) = 0  BY EmptySeq
<1>4. Tail(s) = <<>> => Head(s) = s[Len(s)]  BY <1>2, <1>3
<1> QED BY <1>1, <1>4 DEF EndsIn

LEMMA EntriesOf ==
    ASSUME NEW i \in Actions
    PROVE  \A s \in Of(i) : s = <<i, 0>> \/ \E k \in Entries(i) : s = <<i, k>>
<1>1. CASE Blueprint[i] = "Directory"
  <2>1. Entries(i) = 1..DirSize  BY <1>1 DEF Entries
  <2>2. \A s \in Of(i) : s # <<i, 0>> => \E k \in 1..DirSize : s = <<i, k>>  BY <1>1, SlotsOf
  <2> QED BY <2>1, <2>2
<1>2. CASE Blueprint[i] # "Directory"
  <2>1. Of(i) = {<<i, 0>>}  BY <1>2, SlotsOf
  <2> QED BY <2>1
<1> QED BY <1>1, <1>2

LEMMA EmptyingKept ==
    ASSUME TypedState, Ordered, Emptying, [Next]_vars
    PROVE  Emptying'
<1> SUFFICES ASSUME NEW i \in Actions, stage' = Stage("Clean", i), ~request'.simulate
             PROVE  /\ \A j \in Actions : j > i => Emptied(j)'
                    /\ Emptied(i)' \/ EndsIn(script', i)
  BY DEF Emptying
<1>0. stage'.phase = "Clean" /\ stage'.action = i  BY DEF Stage
<1>1. CASE EnterStage
  <2>1. /\ request' = request /\ request \in AllRequests /\ script = <<>>
        /\ UNCHANGED <<machine, passed>>
        /\ stage = Before(request, Stage("Clean", i)) /\ script' = Steps(Stage("Clean", i))
    BY <1>1, EnterStageRun DEF Ordered, resources, history
  <2>3. \A j : Emptied(j)' <=> Emptied(j)  BY <2>1 DEF Emptied, Excused
  <2>4. script' = CleanSteps(i, machine, request.simulate) /\ request.simulate = FALSE
    BY <2>1 DEF Steps, AllRequests, Stage
  <2>5. Emptied(i) \/ EndsIn(script', i)
    BY <2>4, CleanScript DEF Emptied, Ordered, Sane
  <2>6. CASE i = Count
    <3>1. \A j \in Actions : ~(j > i)  BY <2>6, CountType
    <3> QED BY <2>1, <2>3, <2>5, <3>1
  <2>7. CASE i # Count
    <3>1. stage = Stage("Clean", i + 1) /\ i + 1 \in Actions
      BY <2>1, <2>7, CountType DEF Before, Stage
    <3>2. ~EndsIn(script, i + 1)  BY <2>1 DEF EndsIn
    <3>3. /\ \A j \in Actions : j > i + 1 => Emptied(j)
          /\ Emptied(i + 1)
      BY <2>1, <3>1, <3>2 DEF Emptying
    <3>4. \A j \in Actions : j > i => j = i + 1 \/ j > i + 1  BY CountType
    <3> QED BY <2>1, <2>3, <2>5, <3>3, <3>4
  <2> QED BY <2>6, <2>7
<1>2. CASE Stays /\ Work
  <2>1. /\ UNCHANGED <<stage, request>> /\ passed \subseteq passed' /\ script # <<>>
        /\ stage = Stage("Clean", i) /\ stage.phase = "Clean" /\ stage.action = i
    BY <1>0, <1>2 DEF Stays
  <2>2. Fitting /\ Sane /\ script \in Seq(FitSet(stage))
        /\ machine \in [Slots -> States]
    BY DEF Ordered, Fitting, TypedState, TypeOK
  <2>3. /\ \A j \in Actions : j > i => Emptied(j)
        /\ Emptied(i) \/ EndsIn(script, i)
    BY <2>1 DEF Emptying
  <2>4. \/ Excused(i)' /\ machine' \in Wreckage(step, machine)
        \/ machine' = machine /\ script' = Tail(script) /\ step.do \notin {"drop", "clean"}
        \/ /\ machine' = [machine EXCEPT ![step.slot] = "Absent"]
           /\ script' = Tail(script) /\ step.do = "drop"
           /\ step.slot[2] = 0 => Present(i, machine) = {}
        \/ /\ machine' \in Wreckage(step, machine)
           /\ script' = <<Step("clean", <<i, 0>>, CleanError)>>
        \/ machine' = machine /\ script' = <<script[Len(script)]>>
    BY <1>2, <2>1, <2>2, CleanStep
  <2>5. step.slot[1] = i /\ \A s \in Slots : s # step.slot => machine'[s] = machine[s]
    <3>1. CleanFits(i, step)  BY <2>1, <2>2, CurrentFits DEF Fits
    <3>2. step.slot[1] = i  BY <3>1, SlotsOf DEF CleanFits
    <3>3. machine' \in Wreckage(step, machine) =>
             machine' = machine \/ \E v : machine' = [machine EXCEPT ![step.slot] = v]
      BY <2>2, WreckageLeaves
    <3> QED BY <2>2, <2>4, <3>2, <3>3
  <2>6. \A j \in Actions : j > i => (Emptied(j) => Emptied(j)')
    <3> SUFFICES ASSUME NEW j \in Actions, j > i, Emptied(j) PROVE Emptied(j)'
      OBVIOUS
    <3>1. \A s \in Of(j) : s \in Slots /\ s # step.slot  BY <2>5, CountType DEF Of
    <3> QED BY <2>1, <2>5, <3>1, ExcusesLast DEF Emptied, Of
  <2>7. Emptied(i)' \/ EndsIn(script', i)
    <3>1. CASE Emptied(i) /\ \A s \in Slots : machine'[s] \in {machine[s], "Absent"}
      BY <2>1, <3>1, ExcusesLast DEF Emptied, Of
    <3>2. CASE Excused(i)'  BY <3>2 DEF Emptied
    <3>3. CASE script' = <<Step("clean", <<i, 0>>, CleanError)>>
      <4>1. \A c : c.do = "clean" /\ c.slot = <<i, 0>> => EndsIn(<<c>>, i)  BY DEF EndsIn
      <4> QED BY <3>3, <4>1 DEF Step
    <3>4. CASE EndsIn(script, i) /\ script' = <<script[Len(script)]>>
      BY <2>1, <2>2, <3>4, LastOfScript
    <3>5. CASE EndsIn(script, i) /\ script' = Tail(script) /\ step.do \notin {"drop", "clean"}
      BY <2>1, <2>2, <3>5, LastOfScript DEF step
    <3>6. CASE /\ EndsIn(script, i)
               /\ machine' = [machine EXCEPT ![step.slot] = "Absent"]
               /\ script' = Tail(script)
               /\ step.slot[2] = 0 => Present(i, machine) = {}
      <4>1. EndsIn(script', i) \/ step.slot = <<i, 0>>
        BY <2>1, <2>2, <3>6, LastOfScript DEF step
      <4>2. ASSUME step.slot = <<i, 0>> PROVE \A s \in Of(i) : machine'[s] = "Absent"
        <5>1. Present(i, machine) = {} /\ <<i, 0>> \in Slots  BY <2>2, <3>6, <4>2, SlotsOf
        <5>2. machine'[<<i, 0>>] = "Absent"  BY <2>2, <3>6, <4>2, <5>1
        <5>3. \A k \in Entries(i) : machine[<<i, k>>] = "Absent"  BY <5>1 DEF Present
        <5>4. \A s \in Of(i) : s = <<i, 0>> \/ \E k \in Entries(i) : s = <<i, k>>
          BY EntriesOf
        <5>5. \A s \in Slots : machine'[s] \in {machine[s], "Absent"}  BY <2>2, <3>6
        <5> QED BY <5>2, <5>3, <5>4, <5>5 DEF Of
      <4> QED BY <4>1, <4>2 DEF Emptied
    <3>7. \/ Excused(i)' \/ script' = <<Step("clean", <<i, 0>>, CleanError)>>
          \/ \A s \in Slots : machine'[s] \in {machine[s], "Absent"}
      BY <2>2, <2>4
    <3> QED BY <2>3, <2>4, <3>1, <3>2, <3>3, <3>4, <3>5, <3>6, <3>7
  <2> QED BY <2>1, <2>3, <2>6, <2>7
<1>3. CASE UNCHANGED vars
  <2>1. UNCHANGED <<machine, passed, stage, request, script>>
    BY <1>3 DEF vars, resources, history
  <2>2. \A j : Emptied(j)' <=> Emptied(j)  BY <2>1 DEF Emptied, Excused
  <2> QED BY <2>1, <2>2 DEF Emptying
<1>4. ~Ends /\ ~Use /\ \A r \in Requests : ~Begin(r)
  <2>1. stage' # NoStage  BY <1>0 DEF NoStage, Stage
  <2> QED BY <2>1 DEF Ends, Use, Begin, Idle, TypedState, TypeOK
<1> QED BY <1>1, <1>2, <1>3, <1>4, Cases

-----------------------------------------------------------------------------
(* How far a backup has come.                                              *)

\* The archive has what a backup should keep of slot s.
Kept(s) ==
    \/ /\ archive[s] = Written(s, machine) /\ ~Base(s) /\ s \notin Filtered
       /\ Blueprint[s[1]] = "Directory" => machine[s] # "Absent"
    \/ archive[s] = "Missing" /\ (machine[s] = "Absent" \/ s \in Filtered \/ Base(s))

Recorded(i) == Excused(i) \/ \A s \in Of(i) : Kept(s)

\* The actions before the current one are recorded, what is not yet of the
\* current one is still to be saved, and the later ones have nothing yet.
Recording ==
    request.name = "Backup" =>
       /\ stage.phase = "Create" /\ script = <<>> =>
             snapshot = "Open" /\ \A s \in Slots : archive[s] = "Missing"
       /\ stage.phase = "Backup" => snapshot = "Open"
       /\ stage.phase = "Seal" => snapshot = IF script = <<>> THEN "Complete" ELSE "Open"
       /\ stage.phase = "Startup" => snapshot = "Complete"
       /\ \A i \in Actions : stage = Stage("Backup", i) =>
             /\ \A j \in Actions : j < i => Recorded(j)
             /\ \A s \in Slots : s[1] > i => archive[s] = "Missing"
             /\ Excused(i) \/ \A s \in Of(i) : Kept(s) \/ (archive[s] = "Missing" /\ Holds(script, "save", s))
       /\ stage.phase \in {"Seal", "Startup"} => \A j \in Actions : Recorded(j)

LEMMA HoldsNothing ==
    ASSUME NEW do, NEW slot
    PROVE  ~Holds(<<>>, do, slot)
BY DEF Holds

LEMMA RecordedSame ==
    ASSUME passed \subseteq passed', UNCHANGED <<machine, archive>>
    PROVE  (\A j : Recorded(j) => Recorded(j)') /\ \A s : Kept(s)' <=> Kept(s)
<1>1. \A s : Kept(s)' <=> Kept(s)  BY DEF Kept, Written
<1> QED BY <1>1, ExcusesLast DEF Recorded

\* What a stage of a backup finds when the one before it is done.
LEMMA RecordingEnters ==
    ASSUME TypedState, Ordered, Recording, EnterStage, request.name = "Backup"
    PROVE  Recording'
<1>1. /\ request' = request /\ request \in AllRequests /\ script = <<>> /\ Sane
      /\ UNCHANGED <<machine, archive, snapshot, passed>> /\ passed \subseteq passed'
      /\ stage = Before(request, stage') /\ script' = Steps(stage')
  BY EnterStageRun DEF Ordered, resources, history
<1>2. stage'.phase = "Create" => script' # <<>>
  <2>1. \A st : st.phase = "Create" => Steps(st) # <<>>  BY DEF Steps
  <2> QED BY <1>1, <2>1
<1>3. (\A j : Recorded(j) => Recorded(j)') /\ \A s : Kept(s)' <=> Kept(s)
  BY <1>1, RecordedSame
<1>4. \A j : Excused(j) => Excused(j)'  BY <1>1, ExcusesLast
<1>5. \A i \in Actions : stage = Stage("Backup", i) =>
           (\A j \in Actions : j <= i => Recorded(j)) /\ snapshot = "Open"
  <2> SUFFICES ASSUME NEW i \in Actions, stage = Stage("Backup", i)
               PROVE  (\A j \in Actions : j <= i => Recorded(j)) /\ snapshot = "Open"
    OBVIOUS
  <2>1. stage.phase = "Backup"  BY DEF Stage
  <2>2. /\ \A j \in Actions : j < i => Recorded(j)
        /\ Excused(i) \/ \A s \in Of(i) : Kept(s) \/ Holds(script, "save", s)
        /\ snapshot = "Open"
    BY <2>1 DEF Recording
  <2>3. Recorded(i)  BY <1>1, <2>2, HoldsNothing DEF Recorded
  <2>4. \A j \in Actions : j <= i => j < i \/ j = i  BY CountType
  <2> QED BY <2>2, <2>3, <2>4
<1>6. ASSUME NEW i \in Actions, stage' = Stage("Backup", i)
      PROVE  /\ snapshot = "Open"
             /\ \A j \in Actions : j < i => Recorded(j)
             /\ \A s \in Slots : s[1] >= i => archive[s] = "Missing"
  <2>1. CASE i = 1
    <3>1. stage.phase = "Create"  BY <1>1, <1>6, <2>1 DEF Before, Stage
    <3>2. snapshot = "Open" /\ \A s \in Slots : archive[s] = "Missing"
      BY <1>1, <3>1 DEF Recording
    <3>3. \A j \in Actions : ~(j < i)  BY <2>1, CountType
    <3> QED BY <3>2, <3>3
  <2>2. CASE i # 1
    <3>1. stage = Stage("Backup", i - 1) /\ i - 1 \in Actions
      BY <1>1, <1>6, <2>2, CountType DEF Before, Stage
    <3>2. \A s \in Slots : s[1] > i - 1 => archive[s] = "Missing"  BY <3>1 DEF Recording
    <3>3. \A n \in Actions : (n < i => n <= i - 1) /\ (n >= i => n > i - 1)  BY CountType
    <3> QED BY <1>5, <3>1, <3>2, <3>3, EverySlot
  <2> QED BY <2>1, <2>2
<1>7. ASSUME NEW i \in Actions, stage' = Stage("Backup", i)
      PROVE  \A s \in Of(i) : Kept(s) \/ (archive[s] = "Missing" /\ Holds(script', "save", s))
  <2>1. script' = BackupSteps(i, machine)  BY <1>1, <1>7 DEF Steps, Stage
  <2>2. \A s \in Of(i) : s \in Slots /\ s[1] = i /\ archive[s] = "Missing"
    BY <1>6, <1>7, CountType DEF Of
  <2>3. \A s \in Of(i) : \/ Base(s) \/ s \in Filtered \/ machine[s] = "Absent"
                         \/ Holds(BackupSteps(i, machine), "save", s)
    BY BackupScript
  <2> QED BY <2>1, <2>2, <2>3 DEF Kept
<1>8. ASSUME stage'.phase = "Seal"
      PROVE  snapshot = "Open" /\ (\A j \in Actions : Recorded(j)) /\ script' # <<>>
  <2>1. script' # <<>>
    <3>1. \A st : st.phase = "Seal" => Steps(st) # <<>>  BY DEF Steps
    <3> QED BY <1>1, <1>8, <3>1
  <2>2. CASE Count = 0
    <3>1. stage.phase = "Create"  BY <1>1, <1>8, <2>2 DEF Before, Stage
    <3>2. snapshot = "Open"  BY <1>1, <3>1 DEF Recording
    <3> QED BY <2>1, <2>2, <3>2, CountType
  <2>3. CASE Count # 0
    <3>1. stage = Stage("Backup", Count) /\ Count \in Actions
      BY <1>1, <1>8, <2>3, CountType DEF Before
    <3>2. \A j \in Actions : j <= Count  BY CountType
    <3> QED BY <1>5, <2>1, <3>1, <3>2
  <2> QED BY <2>2, <2>3
<1>9. ASSUME stage'.phase = "Startup"
      PROVE  snapshot = "Complete" /\ \A j \in Actions : Recorded(j)
  <2>1. stage.phase = "Seal"  BY <1>1, <1>9 DEF Before, Stage
  <2> QED BY <1>1, <2>1 DEF Recording
<1>10. stage'.phase = "Backup" => snapshot = "Open"
  <2>1. stage' \in StageSet  BY EnterStageRun DEF Ordered
  <2>2. stage'.phase = "Backup" => \E i \in Actions : stage' = Stage("Backup", i)
    BY <2>1 DEF StageSet, Stage
  <2> QED BY <1>6, <2>2
<1>11. \A i \in Actions : stage' = Stage("Backup", i) =>
             /\ \A j \in Actions : j < i => Recorded(j)'
             /\ \A s \in Slots : s[1] > i => archive'[s] = "Missing"
             /\ \A s \in Of(i) : Kept(s)' \/ (archive'[s] = "Missing" /\ Holds(script', "save", s))
  <2> SUFFICES ASSUME NEW i \in Actions, stage' = Stage("Backup", i)
               PROVE  /\ \A j \in Actions : j < i => Recorded(j)'
                      /\ \A s \in Slots : s[1] > i => archive'[s] = "Missing"
                      /\ \A s \in Of(i) : Kept(s)' \/ (archive'[s] = "Missing" /\ Holds(script', "save", s))
    OBVIOUS
  <2>1. \A s \in Slots : s[1] > i => s[1] >= i  BY EverySlot, CountType
  <2> QED BY <1>1, <1>3, <1>6, <1>7, <2>1
<1>12. stage'.phase \in {"Seal", "Startup"} => \A j \in Actions : Recorded(j)'
  BY <1>3, <1>8, <1>9
<1> QED BY <1>1, <1>2, <1>8, <1>9, <1>10, <1>11, <1>12 DEF Recording

\* A step of the backup of action i.
LEMMA RecordingGoesOn ==
    ASSUME TypedState, Ordered, Recording, Stays, Work, request.name = "Backup",
           NEW i \in Actions, stage = Stage("Backup", i)
    PROVE  /\ \A j \in Actions : j < i => Recorded(j)'
           /\ \A s \in Slots : s[1] > i => archive'[s] = "Missing"
           /\ \/ Excused(i)'
              \/ \A s \in Of(i) : Kept(s)' \/ (archive'[s] = "Missing" /\ Holds(script', "save", s))
<1>1. /\ passed \subseteq passed' /\ script # <<>> /\ Fitting /\ Sane /\ script \in Seq(FitSet(stage))
      /\ archive \in [Slots -> Archived] /\ stage.phase = "Backup" /\ stage.action = i
  BY DEF Stays, Ordered, Fitting, TypedState, TypeOK, Stage
<1>2. /\ \A j \in Actions : j < i => Recorded(j)
      /\ \A s \in Slots : s[1] > i => archive[s] = "Missing"
      /\ Excused(i) \/ \A s \in Of(i) : Kept(s) \/ (archive[s] = "Missing" /\ Holds(script, "save", s))
  BY <1>1 DEF Recording
<1>3. /\ machine' = machine
      /\ \/ /\ Excused(i)'
            /\ archive' = archive \/ archive' = [archive EXCEPT ![step.slot] = "Absent"]
         \/ archive' = archive /\ script' = Tail(script) /\ step.do # "save"
         \/ /\ archive' = [archive EXCEPT ![step.slot] = Written(step.slot, machine)]
            /\ script' = Tail(script) /\ step.do = "save"
         \/ /\ archive' = archive /\ script' = <<>>
            /\ \A s \in Of(i) : machine[s] = "Absent"
  <2>1. stage.phase = "Backup" /\ stage.action = i /\ stage' = stage  BY <1>1 DEF Stays
  <2>2. Excused(stage.action)' => Excused(i)'  BY <2>1 DEF Excused
  <2> QED BY <1>1, <2>1, <2>2, BackupStep
<1>4. BackupFits(i, step, machine)  BY <1>1, CurrentFits DEF Fits
<1>5. step.slot \in Slots /\ step.slot[1] = i  BY <1>4 DEF BackupFits, Of
<1>6. \A s \in Slots : s # step.slot => archive'[s] = archive[s]  BY <1>1, <1>3
<1>7. \A s \in Slots : s # step.slot => (Kept(s)' <=> Kept(s))  BY <1>3, <1>6 DEF Kept, Written
<1>8. \A j : Excused(j) => Excused(j)'  BY <1>1, ExcusesLast
<1>9. ASSUME NEW j \in Actions, j < i PROVE Recorded(j)'
  <2>1. \A s \in Of(j) : s # step.slot  BY <1>5, <1>9, CountType DEF Of
  <2> QED BY <1>2, <1>7, <1>8, <1>9, <2>1 DEF Recorded, Of
<1>10. \A s \in Slots : s[1] > i => archive'[s] = "Missing"
  <2>1. \A s \in Slots : s[1] > i => s # step.slot  BY <1>5, CountType
  <2> QED BY <1>2, <1>6, <2>1
<1>11. ASSUME ~Excused(i)', NEW s \in Of(i)
       PROVE  Kept(s)' \/ (archive'[s] = "Missing" /\ Holds(script', "save", s))
  <2>1. Kept(s) \/ (archive[s] = "Missing" /\ Holds(script, "save", s))  BY <1>2, <1>8, <1>11
  <2>2. s \in Slots /\ s[1] = i  BY SlotsOf
  <2>3. CASE archive' = archive /\ script' = Tail(script) /\ step.do # "save"
    <3>1. Kept(s)' <=> Kept(s)  BY <1>3, <2>3 DEF Kept, Written
    <3>2. Holds(script, "save", s) => Holds(script', "save", s)
      BY <1>1, <2>3, HoldsOn DEF step
    <3> QED BY <2>1, <2>3, <3>1, <3>2
  <2>4. CASE /\ archive' = [archive EXCEPT ![step.slot] = Written(step.slot, machine)]
             /\ script' = Tail(script) /\ step.do = "save"
    <3>1. CASE s = step.slot
      <4>1. archive'[s] = Written(s, machine) /\ machine' = machine  BY <1>1, <1>3, <2>2, <2>4, <3>1
      <4>3. Written(s, machine)' = Written(s, machine)  BY <4>1 DEF Written
      <4>2. /\ ~Base(s) /\ s \notin Filtered
            /\ Blueprint[i] = "Directory" => machine[s] # "Absent"
        BY <1>4, <2>4, <3>1 DEF BackupFits
      <4> QED BY <2>2, <4>1, <4>2, <4>3 DEF Kept
    <3>2. CASE s # step.slot
      <4>1. Holds(script, "save", s) => Holds(script', "save", s)
        BY <1>1, <2>4, <3>2, HoldsOn DEF step
      <4> QED BY <1>6, <1>7, <2>1, <2>2, <3>2, <4>1
    <3> QED BY <3>1, <3>2
  <2>5. CASE /\ archive' = archive /\ script' = <<>>
             /\ \A t \in Of(i) : machine[t] = "Absent"
    <3>1. machine[s] = "Absent" /\ machine' = machine /\ archive'[s] = archive[s]  BY <1>3, <2>5
    <3> QED BY <2>1, <3>1 DEF Kept
  <2> QED BY <1>3, <1>11, <2>3, <2>4, <2>5
<1> QED BY <1>9, <1>10, <1>11

LEMMA RecordingKept ==
    ASSUME TypedState, Ordered, Recording, [Next]_vars
    PROVE  Recording'
<1>1. ASSUME stage' = NoStage PROVE Recording'
  <2>1. stage'.phase = "None" /\ \A i \in Actions : stage' # Stage("Backup", i)
    BY <1>1 DEF NoStage, Stage
  <2> QED BY <2>1 DEF Recording
<1>2. CASE EnterStage
  <2>1. request' = request  BY <1>2 DEF EnterStage
  <2>2. CASE request.name = "Backup"  BY <1>2, <2>2, RecordingEnters
  <2>3. CASE request.name # "Backup"  BY <2>1, <2>3 DEF Recording
  <2> QED BY <2>2, <2>3
<1>3. CASE Stays /\ Work
  <2> SUFFICES ASSUME request.name = "Backup" PROVE Recording'
    BY <1>3 DEF Recording, Stays
  <2>1. /\ UNCHANGED <<stage, request>> /\ passed \subseteq passed' /\ script # <<>>
        /\ Fitting /\ Sane
    BY <1>3 DEF Stays, Ordered
  <2>2. CASE stage.phase \in {"Create", "Seal", "Open"}
    <3>1. /\ script' = <<>> /\ machine' = machine
          /\ stage.phase = "Create" => archive' = [s \in Slots |-> "Missing"] /\ snapshot' = "Open"
          /\ stage.phase = "Seal" => archive' = archive /\ snapshot' = "Complete"
      BY <1>3, <2>1, <2>2, FileStep
    <3>2. \A i \in Actions : stage # Stage("Backup", i)  BY <2>2 DEF Stage
    <3>3. stage.phase = "Seal" => \A j \in Actions : Recorded(j)'
      BY <2>1, <3>1, RecordedSame DEF Recording
    <3> QED BY <2>1, <2>2, <3>1, <3>2, <3>3 DEF Recording
  <2>3. CASE stage.phase \in {"Startup", "Shutdown"}
    <3>1. UNCHANGED <<machine, archive, snapshot>>  BY <1>3, <2>1, <2>3, HookStep
    <3>2. \A i \in Actions : stage # Stage("Backup", i)  BY <2>3 DEF Stage
    <3>3. stage.phase = "Startup" => \A j \in Actions : Recorded(j)'
      BY <2>1, <3>1, RecordedSame DEF Recording
    <3> QED BY <2>1, <2>3, <3>1, <3>2, <3>3 DEF Recording
  <2>4. CASE stage.phase = "Backup"
    <3>1. snapshot' = snapshot  BY <1>3, <2>1, <2>4, BackupStep
    <3>2. snapshot = "Open"  BY <2>4 DEF Recording
    <3>3. \A i \in Actions : stage = Stage("Backup", i) =>
           /\ \A j \in Actions : j < i => Recorded(j)'
           /\ \A s \in Slots : s[1] > i => archive'[s] = "Missing"
           /\ \/ Excused(i)'
              \/ \A s \in Of(i) : Kept(s)' \/ (archive'[s] = "Missing" /\ Holds(script', "save", s))
      BY <1>3, RecordingGoesOn
    <3> QED BY <2>1, <2>4, <3>1, <3>2, <3>3 DEF Recording
  <2>5. stage.phase \notin {"Clean", "Restore"} /\ stage.phase \in Phases(request)
    BY <1>3, StagesWork
  <2> QED BY <2>2, <2>3, <2>4, <2>5 DEF Phases
<1>4. CASE UNCHANGED vars
  <2>1. UNCHANGED <<machine, archive, snapshot, passed, stage, request, script>>
    BY <1>4 DEF vars, resources, history
  <2>2. /\ \A j : Recorded(j) => Recorded(j)'
        /\ \A s : Kept(s)' <=> Kept(s)
        /\ \A j : Excused(j) => Excused(j)'
    BY <2>1, RecordedSame, ExcusesLast
  <2> QED BY <2>1, <2>2 DEF Recording
<1>5. \A r \in Requests : Begin(r) => stage' = NoStage
  BY DEF Begin, Idle, TypedState, TypeOK
<1>6. Ends \/ Use => stage' = NoStage
  BY DEF Ends, Use, Idle, TypedState, TypeOK
<1> QED BY <1>1, <1>2, <1>3, <1>4, <1>5, <1>6, Cases

-----------------------------------------------------------------------------
(* How far a restore has come.                                             *)

Brought(i) == Excused(i) \/ \A s \in Of(i) : machine[s] = Saved(archive)[s]

\* The actions before the current one are as the archive has them, what is not
\* yet of the current one is still to be put there, and the later ones are empty.
Bringing ==
    request.name = "Restore" /\ ~request.simulate =>
       /\ \A i \in Actions : stage = Stage("Restore", i) =>
             /\ \A j \in Actions : (j < i => Brought(j)) /\ (j > i => Emptied(j))
             /\ \/ Excused(i)
                \/ /\ Nothing(i) => script = <<>> \/ step.do = "lookup"
                   /\ \A s \in Of(i) :
                         \/ machine[s] = Saved(archive)[s]
                         \/ machine[s] = "Absent" /\ Holds(script, IF Base(s) THEN "mkdir" ELSE "put", s)
       /\ stage.phase = "Startup" => \A j \in Actions : Brought(j)

\* What a restore would bring back for an action the archive has, or has not.
LEMMA SavedOf ==
    ASSUME NEW i \in Actions, BasesMissing(archive)
    PROVE  /\ \A s \in Of(i) :
                 Saved(archive)[s] = IF Base(s) THEN (IF Stored(i, archive) = {} THEN "Absent" ELSE "Empty")
                                     ELSE IF archive[s] = "Missing" THEN "Absent" ELSE archive[s]
           /\ Nothing(i) => \A s \in Of(i) : Saved(archive)[s] = "Absent"
           /\ ~Nothing(i) => /\ Blueprint[i] = "Directory" => Saved(archive)[<<i, 0>>] = "Empty"
                             /\ Blueprint[i] # "Directory" => archive[<<i, 0>>] # "Missing"
<1>1. \A s \in Of(i) : s \in Slots /\ s[1] = i  BY DEF Of
<1>2. \A s \in Of(i) :
         Saved(archive)[s] = IF Base(s) THEN (IF Stored(i, archive) = {} THEN "Absent" ELSE "Empty")
                             ELSE IF archive[s] = "Missing" THEN "Absent" ELSE archive[s]
  BY <1>1 DEF Saved, Base
<1>3. <<i, 0>> \in Of(i)  BY SlotsOf
<1>4. ASSUME Nothing(i), NEW s \in Of(i) PROVE Saved(archive)[s] = "Absent"
  <2>1. Stored(i, archive) = {} /\ archive[<<i, 0>>] = "Missing"  BY <1>4 DEF Nothing
  <2>2. s = <<i, 0>> \/ \E k \in Entries(i) : s = <<i, k>>  BY EntriesOf
  <2>3. archive[s] = "Missing"  BY <2>1, <2>2 DEF Stored
  <2> QED BY <1>2, <2>1, <2>3
<1>5. ASSUME ~Nothing(i)
      PROVE  /\ Blueprint[i] = "Directory" => Saved(archive)[<<i, 0>>] = "Empty"
             /\ Blueprint[i] # "Directory" => archive[<<i, 0>>] # "Missing"
  <2>1. CASE Blueprint[i] = "Directory"
    <3>1. Base(<<i, 0>>)  BY <2>1 DEF Base
    <3>2. archive[<<i, 0>>] = "Missing"  BY <1>1, <1>3, <3>1 DEF BasesMissing
    <3>3. Stored(i, archive) # {}  BY <1>5, <3>2 DEF Nothing
    <3> QED BY <1>2, <1>3, <2>1, <3>1, <3>3
  <2>2. CASE Blueprint[i] # "Directory"
    <3>1. Stored(i, archive) = {}  BY <2>2 DEF Stored, Entries
    <3> QED BY <1>5, <2>2, <3>1 DEF Nothing
  <2> QED BY <2>1, <2>2
<1> QED BY <1>2, <1>4, <1>5

LEMMA BroughtSame ==
    ASSUME passed \subseteq passed', UNCHANGED <<machine, archive>>
    PROVE  \A j : (Brought(j) => Brought(j)') /\ (Emptied(j) => Emptied(j)')
<1>1. \A j : Excused(j) => Excused(j)'  BY ExcusesLast
<1>2. Saved(archive)' = Saved(archive)  OBVIOUS
<1> QED BY <1>1, <1>2 DEF Brought, Emptied

\* What a stage of a restore finds when the one before it is done.
LEMMA BringingEnters ==
    ASSUME TypedState, Ordered, Emptying, Bringing, EnterStage,
           request.name = "Restore", ~request.simulate
    PROVE  Bringing'
<1>1. /\ request' = request /\ request \in AllRequests /\ script = <<>> /\ Sane
      /\ UNCHANGED <<machine, archive, passed>> /\ passed \subseteq passed'
      /\ stage = Before(request, stage') /\ script' = Steps(stage')
  BY EnterStageRun DEF Ordered, resources, history
<1>2. \A j : (Brought(j) => Brought(j)') /\ (Emptied(j) => Emptied(j)')
  BY <1>1, BroughtSame
<1>3. \A i \in Actions : stage = Stage("Restore", i) =>
           \A j \in Actions : (j <= i => Brought(j)) /\ (j > i => Emptied(j))
  <2> SUFFICES ASSUME NEW i \in Actions, stage = Stage("Restore", i)
               PROVE  \A j \in Actions : (j <= i => Brought(j)) /\ (j > i => Emptied(j))
    OBVIOUS
  <2>1. /\ \A j \in Actions : (j < i => Brought(j)) /\ (j > i => Emptied(j))
        /\ \/ Excused(i)
           \/ \A s \in Of(i) : \/ machine[s] = Saved(archive)[s]
                               \/ Holds(script, IF Base(s) THEN "mkdir" ELSE "put", s)
    BY DEF Bringing
  <2>2. Brought(i)  BY <1>1, <2>1, HoldsNothing DEF Brought
  <2>3. \A j \in Actions : j <= i => j < i \/ j = i  BY CountType
  <2> QED BY <2>1, <2>2, <2>3
<1>4. stage = Stage("Clean", 1) /\ 1 \in Actions => \A j \in Actions : Emptied(j)
  <2> SUFFICES ASSUME stage = Stage("Clean", 1), 1 \in Actions PROVE \A j \in Actions : Emptied(j)
    OBVIOUS
  <2>1. ~EndsIn(script, 1)  BY <1>1 DEF EndsIn
  <2>2. Emptied(1) /\ \A j \in Actions : j > 1 => Emptied(j)  BY <2>1 DEF Emptying
  <2>3. \A j \in Actions : j = 1 \/ j > 1  BY CountType
  <2> QED BY <2>2, <2>3
<1>5. ASSUME NEW i \in Actions, stage' = Stage("Restore", i)
      PROVE  \A j \in Actions : (j < i => Brought(j)) /\ (j >= i => Emptied(j))
  <2>1. CASE i = 1
    <3>1. stage = Stage("Clean", 1)  BY <1>1, <1>5, <2>1 DEF Before, Stage
    <3>2. \A j \in Actions : ~(j < i)  BY <2>1, CountType
    <3> QED BY <1>4, <2>1, <3>1, <3>2
  <2>2. CASE i # 1
    <3>1. stage = Stage("Restore", i - 1) /\ i - 1 \in Actions
      BY <1>1, <1>5, <2>2, CountType DEF Before, Stage
    <3>2. \A n \in Actions : (n < i => n <= i - 1) /\ (n >= i => n > i - 1)  BY CountType
    <3> QED BY <1>3, <3>1, <3>2
  <2> QED BY <2>1, <2>2
<1>6. ASSUME NEW i \in Actions, stage' = Stage("Restore", i), ~Excused(i)
      PROVE  /\ script' # <<>> /\ Head(script').do = "lookup"
             /\ \A s \in Of(i) : /\ machine[s] = "Absent"
                                 /\ \/ Saved(archive)[s] = "Absent"
                                    \/ Holds(script', IF Base(s) THEN "mkdir" ELSE "put", s)
  <2>1. script' = RestoreSteps(i, archive, FALSE)
    <3>1. request.simulate = FALSE  BY <1>1 DEF AllRequests
    <3> QED BY <1>1, <1>6, <3>1 DEF Steps, Stage
  <2>2. Emptied(i)  BY <1>5, <1>6, CountType
  <2>3. \A s \in Of(i) : machine[s] = "Absent"  BY <1>6, <2>2 DEF Emptied
  <2>4. BasesMissing(archive)  BY <1>1 DEF Sane
  <2> QED BY <2>1, <2>3, <2>4, RestoreScript
<1>7. ASSUME stage'.phase = "Startup" PROVE \A j \in Actions : Brought(j)
  <2>1. CASE Count = 0  BY <2>1, CountType
  <2>2. CASE Count # 0
    <3>1. stage = Stage("Restore", Count) /\ Count \in Actions
      BY <1>1, <1>7, <2>2, CountType DEF Before
    <3>2. \A j \in Actions : j <= Count  BY CountType
    <3> QED BY <1>3, <3>1, <3>2
  <2> QED BY <2>1, <2>2
<1>8. ASSUME NEW i \in Actions, stage' = Stage("Restore", i)
      PROVE  /\ \A j \in Actions : (j < i => Brought(j)') /\ (j > i => Emptied(j)')
             /\ \/ Excused(i)'
                \/ /\ script' # <<>> /\ Head(script').do = "lookup"
                   /\ \A s \in Of(i) :
                         \/ machine'[s] = Saved(archive')[s]
                         \/ machine'[s] = "Absent" /\ Holds(script', IF Base(s) THEN "mkdir" ELSE "put", s)
  <2>1. \A j \in Actions : j > i => j >= i  BY CountType
  <2>2. \A j \in Actions : (j < i => Brought(j)') /\ (j > i => Emptied(j)')
    BY <1>2, <1>5, <1>8, <2>1
  <2>3. Excused(i) => Excused(i)'  BY <1>1, ExcusesLast
  <2> QED BY <1>1, <1>6, <1>8, <2>2, <2>3
<1>9. stage'.phase = "Startup" => \A j \in Actions : Brought(j)'  BY <1>2, <1>7
<1> QED BY <1>1, <1>8, <1>9 DEF Bringing, step

\* A step of the restore of action i.
LEMMA BringingGoesOn ==
    ASSUME TypedState, Ordered, Bringing, Stays, Work, request.name = "Restore", ~request.simulate,
           NEW i \in Actions, stage = Stage("Restore", i)
    PROVE  /\ \A j \in Actions : (j < i => Brought(j)') /\ (j > i => Emptied(j)')
           /\ \/ Excused(i)'
              \/ /\ Nothing(i) => script' = <<>>
                 /\ \A s \in Of(i) :
                       \/ machine'[s] = Saved(archive)[s]
                       \/ machine'[s] = "Absent" /\ Holds(script', IF Base(s) THEN "mkdir" ELSE "put", s)
           /\ archive' = archive
<1> DEFINE x == step.slot
           Wanted(s) == IF Base(s) THEN "mkdir" ELSE "put"
<1>1. /\ passed \subseteq passed' /\ script # <<>> /\ Fitting /\ Sane /\ script \in Seq(FitSet(stage))
      /\ machine \in [Slots -> States] /\ stage.phase = "Restore" /\ stage.action = i
      /\ BasesMissing(archive)
  BY DEF Stays, Ordered, Fitting, TypedState, TypeOK, Stage, Sane
<1>2. /\ \A j \in Actions : (j < i => Brought(j)) /\ (j > i => Emptied(j))
      /\ \/ Excused(i)
         \/ /\ Nothing(i) => script = <<>> \/ step.do = "lookup"
            /\ \A s \in Of(i) :
                  \/ machine[s] = Saved(archive)[s]
                  \/ machine[s] = "Absent" /\ Holds(script, Wanted(s), s)
  BY DEF Bringing
<1>3. /\ archive' = archive
      /\ \/ /\ Excused(i)'
            /\ machine' = machine \/ \E v : machine' = [machine EXCEPT ![x] = v]
         \/ /\ machine' = machine /\ script' = Tail(script)
            /\ step.do \notin {"mkdir", "put"}
            /\ step.do = "lookup" => ~Nothing(i)
         \/ /\ machine' = [machine EXCEPT ![x] = IF @ = "Absent" THEN "Empty" ELSE @]
            /\ script' = Tail(script) /\ step.do = "mkdir"
         \/ /\ machine' = [machine EXCEPT ![x] = Restored(x, archive)]
            /\ script' = Tail(script) /\ step.do = "put"
         \/ machine' = machine /\ script' = <<>> /\ step.do = "lookup" /\ Nothing(i)
  <2>1. stage' = stage  BY DEF Stays
  <2>2. Excused(stage.action)' => Excused(i)'  BY <1>1, <2>1 DEF Excused
  <2>3. machine' \in Wreckage(step, machine) =>
           machine' = machine \/ \E v : machine' = [machine EXCEPT ![x] = v]
    BY <1>1, WreckageLeaves
  <2> HIDE DEF x
  <2> QED BY <1>1, <2>2, <2>3, RestoreStep DEF x
<1>4. /\ step.do = "put" => /\ ~Base(x)
                            /\ Blueprint[i] = "Directory" => archive[x] # "Missing"
      /\ step.do = "mkdir" => x = <<i, 0>> /\ Blueprint[i] = "Directory"
      /\ x \in Of(i) /\ x \in Slots /\ x[1] = i
  BY <1>1, PutFits DEF Of
<1> HIDE DEF x
<1>5. \A s \in Slots : s # x => machine'[s] = machine[s]  BY <1>1, <1>3
<1>6. \A j : Excused(j) => Excused(j)'  BY <1>1, ExcusesLast
<1>7. ASSUME NEW j \in Actions, j # i
      PROVE  (Brought(j) => Brought(j)') /\ (Emptied(j) => Emptied(j)')
  <2>1. \A s \in Of(j) : machine'[s] = machine[s]  BY <1>4, <1>5, <1>7 DEF Of
  <2>2. Saved(archive)' = Saved(archive)  BY <1>3
  <2> QED BY <1>6, <2>1, <2>2 DEF Brought, Emptied
<1>8. ASSUME ~Excused(i)', NEW s \in Of(i)
      PROVE  \/ machine'[s] = Saved(archive)[s]
             \/ machine'[s] = "Absent" /\ Holds(script', Wanted(s), s)
  <2>1. \/ machine[s] = Saved(archive)[s]
        \/ machine[s] = "Absent" /\ Holds(script, Wanted(s), s)
    BY <1>2, <1>6, <1>8
  <2>2. s \in Slots /\ s[1] = i  BY DEF Of
  <2>3. Nothing(i) => step.do = "lookup"  BY <1>1, <1>2, <1>6, <1>8
  <2>4. script' = Tail(script) /\ ~(step.do = Wanted(s) /\ x = s) =>
           (Holds(script, Wanted(s), s) => Holds(script', Wanted(s), s))
    BY <1>1, HoldsOn DEF step, x
  <2>5. CASE /\ machine' = machine /\ script' = Tail(script)
             /\ step.do \notin {"mkdir", "put"}
    BY <2>1, <2>4, <2>5
  <2>6. CASE /\ machine' = [machine EXCEPT ![x] = IF @ = "Absent" THEN "Empty" ELSE @]
             /\ script' = Tail(script) /\ step.do = "mkdir"
    <3>1. CASE s = x
      <4>1. Saved(archive)[s] = "Empty"  BY <1>1, <1>4, <2>3, <2>6, <3>1, SavedOf
      <4>2. Base(s)  BY <1>4, <2>6, <3>1 DEF Base
      <4>3. machine[s] \in {"Absent", "Empty"}  BY <1>1, <2>2, <4>2 DEF Sane
      <4>4. machine'[s] = "Empty"  BY <1>1, <2>2, <2>6, <3>1, <4>3
      <4> QED BY <4>1, <4>4
    <3>2. CASE s # x  BY <1>5, <2>1, <2>2, <2>4, <2>6, <3>2
    <3> QED BY <3>1, <3>2
  <2>7. CASE /\ machine' = [machine EXCEPT ![x] = Restored(x, archive)]
             /\ script' = Tail(script) /\ step.do = "put"
    <3>1. CASE s = x
      <4>1. archive[s] # "Missing"
        <5>1. CASE Blueprint[i] = "Directory"
          <6>1. archive[x] # "Missing"  BY <1>4, <2>7, <5>1
          <6> QED BY <3>1, <6>1
        <5>2. CASE Blueprint[i] # "Directory"
          <6>1. Of(i) = {<<i, 0>>}  BY <5>2, SlotsOf
          <6>2. s = <<i, 0>>  BY <6>1
          <6> QED BY <1>1, <2>3, <2>7, <5>2, <6>2, SavedOf
        <5> QED BY <5>1, <5>2
      <4>2. Saved(archive)[s] = archive[s]  BY <1>1, <1>4, <2>7, <3>1, <4>1, SavedOf
      <4>3. machine'[s] = archive[s]  BY <1>1, <2>2, <2>7, <3>1, <4>1 DEF Restored
      <4> QED BY <4>2, <4>3
    <3>2. CASE s # x  BY <1>5, <2>1, <2>2, <2>4, <2>7, <3>2
    <3> QED BY <3>1, <3>2
  <2>8. CASE machine' = machine /\ script' = <<>> /\ Nothing(i)
    BY <1>1, <2>1, <2>8, SavedOf
  <2> QED BY <1>3, <1>8, <2>5, <2>6, <2>7, <2>8
<1>9. ~Excused(i)' /\ Nothing(i) => script' = <<>>
  <2>1. ~Excused(i)' /\ Nothing(i) => step.do = "lookup"  BY <1>1, <1>2, <1>6
  <2> QED BY <1>3, <2>1
<1>10. \A j \in Actions : (j < i => j # i) /\ (j > i => j # i)  BY CountType
<1> QED BY <1>2, <1>3, <1>7, <1>8, <1>9, <1>10

LEMMA BringingKept ==
    ASSUME TypedState, Ordered, Emptying, Bringing, [Next]_vars
    PROVE  Bringing'
<1>1. ASSUME stage' = NoStage PROVE Bringing'
  <2>1. stage'.phase = "None" /\ \A i \in Actions : stage' # Stage("Restore", i)
    BY <1>1 DEF NoStage, Stage
  <2> QED BY <2>1 DEF Bringing
<1>2. CASE EnterStage
  <2>1. request' = request  BY <1>2 DEF EnterStage
  <2>2. CASE request.name = "Restore" /\ ~request.simulate  BY <1>2, <2>2, BringingEnters
  <2>3. CASE ~(request.name = "Restore" /\ ~request.simulate)  BY <2>1, <2>3 DEF Bringing
  <2> QED BY <2>2, <2>3
<1>3. CASE Stays /\ Work
  <2> SUFFICES ASSUME request.name = "Restore", ~request.simulate PROVE Bringing'
    BY <1>3 DEF Bringing, Stays
  <2>1. UNCHANGED <<stage, request>> /\ passed \subseteq passed' /\ script # <<>>
    BY <1>3 DEF Stays
  <2>2. ASSUME NEW i \in Actions, stage = Stage("Restore", i)
        PROVE  /\ \A j \in Actions : (j < i => Brought(j)') /\ (j > i => Emptied(j)')
               /\ \/ Excused(i)'
                  \/ /\ Nothing(i)' => script' = <<>>
                     /\ \A s \in Of(i) :
                           \/ machine'[s] = Saved(archive')[s]
                           \/ machine'[s] = "Absent" /\ Holds(script', IF Base(s) THEN "mkdir" ELSE "put", s)
    <3>1. archive' = archive  BY <1>3, <2>2, BringingGoesOn
    <3>2. Nothing(i)' <=> Nothing(i)  BY <3>1 DEF Nothing
    <3> QED BY <1>3, <2>2, <3>1, <3>2, BringingGoesOn
  <2>3. stage.phase = "Startup" => \A j \in Actions : Brought(j)'
    <3>1. stage.phase = "Startup" => UNCHANGED <<machine, archive>>
      BY <1>3, HookStep DEF Ordered
    <3> QED BY <2>1, <3>1, BroughtSame DEF Bringing
  <2> QED BY <2>1, <2>2, <2>3 DEF Bringing
<1>4. CASE UNCHANGED vars
  <2>1. UNCHANGED <<machine, archive, passed, stage, request, script>>
    BY <1>4 DEF vars, resources, history
  <2>2. /\ \A j : (Brought(j) => Brought(j)') /\ (Emptied(j) => Emptied(j)')
        /\ \A j : Excused(j) => Excused(j)'
        /\ \A j : Nothing(j)' <=> Nothing(j)
        /\ step' = step
    BY <2>1, BroughtSame, ExcusesLast DEF Nothing, step
  <2> QED BY <2>1, <2>2 DEF Bringing
<1>5. \A r \in Requests : Begin(r) => stage' = NoStage
  BY DEF Begin, Idle, TypedState, TypeOK
<1>6. Ends \/ Use => stage' = NoStage
  BY DEF Ends, Use, Idle, TypedState, TypeOK
<1> QED BY <1>1, <1>2, <1>3, <1>4, <1>5, <1>6, Cases

-----------------------------------------------------------------------------
(* What the hooks have done, and who has been asked.                       *)

\* A hook of this lifecycle is run by the operation.
HookRuns(lifecycle) ==
    \E n \in 1..Len(Hooks[lifecycle]) : Hooks[lifecycle][n] = "always" \/ request.force

Wanted(lifecycle) == IF lifecycle = "Shutdown" THEN "down" ELSE "up"

\* A stage of hooks has done what it is for, has survived a failure, or still has
\* a hook to run; until a backup is sealed the application stays down.
Hooked ==
    /\ \A lifecycle \in {"Startup", "Shutdown"} :
          stage.phase = lifecycle /\ HookRuns(lifecycle) =>
             app = Wanted(lifecycle) \/ NoSlot \in passed \/ Holds(script, "hook", NoSlot)
    /\ stage.phase \in {"Create", "Backup", "Seal"} /\ HookRuns("Shutdown") =>
          app = "down" \/ NoSlot \in passed

LEMMA HooksHeld ==
    ASSUME NEW lifecycle \in {"Startup", "Shutdown"}, HookRuns(lifecycle)
    PROVE  Holds(HookSteps(lifecycle, request.force), "hook", NoSlot)
<1> DEFINE hooks == HookSteps(lifecycle, request.force)
<1>1. PICK n \in 1..Len(Hooks[lifecycle]) : Hooks[lifecycle][n] = "always" \/ request.force
  BY DEF HookRuns
<1>2. hooks[n].do = "hook" /\ hooks[n].slot = NoSlot  BY <1>1 DEF HookSteps, Step
<1>3. Len(hooks) = Len(Hooks[lifecycle])  BY OrchestratorAssumption DEF HookSteps
<1> HIDE DEF hooks
<1>4. Holds(hooks, "hook", NoSlot)  BY <1>2, <1>3 DEF Holds
<1> QED BY <1>4 DEF hooks

LEMMA HookedKept ==
    ASSUME TypedState, Ordered, Hooked, [Next]_vars
    PROVE  Hooked'
<1>1. ASSUME stage' = NoStage PROVE Hooked'
  BY <1>1 DEF Hooked, NoStage, Stage
<1>2. request' = request => \A l : HookRuns(l)' <=> HookRuns(l)  BY DEF HookRuns
<1>3. CASE EnterStage
  <2>1. /\ request' = request /\ UNCHANGED <<app, passed>> /\ script = <<>>
        /\ stage = Before(request, stage') /\ script' = Steps(stage')
    BY <1>3, EnterStageRun DEF Ordered, resources, history
  <2>2. \A l \in {"Startup", "Shutdown"} :
           stage'.phase = l => script' = HookSteps(l, request.force)
    <3>1. \A st : \A l \in {"Startup", "Shutdown"} :
             st.phase = l => Steps(st) = HookSteps(l, request.force)
      BY DEF Steps
    <3> QED BY <2>1, <3>1
  <2>3. \A l \in {"Startup", "Shutdown"} :
           stage'.phase = l /\ HookRuns(l) => Holds(script', "hook", NoSlot)
    BY <2>2, HooksHeld
  <2>4. ASSUME stage'.phase \in {"Create", "Backup", "Seal"}, HookRuns("Shutdown")
        PROVE  app = "down" \/ NoSlot \in passed
    <3>1. stage.phase \in {"Shutdown", "Create", "Backup"}
      BY <2>1, <2>4 DEF Before, Stage
    <3>2. ~Holds(script, "hook", NoSlot)  BY <2>1, HoldsNothing
    <3> QED BY <2>4, <3>1, <3>2 DEF Hooked, Wanted
  <2> QED BY <1>2, <2>1, <2>3, <2>4 DEF Hooked
<1>4. CASE Stays /\ Work
  <2>1. /\ UNCHANGED <<stage, request>> /\ passed \subseteq passed' /\ script # <<>>
        /\ script \in Seq(FitSet(stage)) /\ Fitting /\ Sane
    BY <1>4 DEF Stays, Ordered, Fitting
  <2>2. stage.phase \in {"Create", "Backup", "Seal"} => app' = app  BY <1>4, StagesWork
  <2>3. ASSUME NEW l \in {"Startup", "Shutdown"}, stage.phase = l, HookRuns(l)
        PROVE  app' = Wanted(l) \/ NoSlot \in passed' \/ Holds(script', "hook", NoSlot)
    <3>1. app = Wanted(l) \/ NoSlot \in passed \/ Holds(script, "hook", NoSlot)
      BY <2>3 DEF Hooked
    <3>2. \/ NoSlot \in passed' /\ app' = app
          \/ app' = Wanted(l)
          \/ app' = app /\ script' = Tail(script) /\ step.do # "hook"
      BY <1>4, <2>1, <2>3, HookStep DEF Wanted
    <3>3. script' = Tail(script) /\ step.do # "hook" =>
             (Holds(script, "hook", NoSlot) => Holds(script', "hook", NoSlot))
      BY <2>1, HoldsOn DEF step
    <3> QED BY <2>1, <3>1, <3>2, <3>3
  <2> QED BY <1>2, <2>1, <2>2, <2>3 DEF Hooked
<1>5. CASE UNCHANGED vars
  <2>1. UNCHANGED <<app, passed, stage, request, script>>
    BY <1>5 DEF vars, resources, history
  <2> QED BY <1>2, <2>1 DEF Hooked
<1>6. \A r \in Requests : Begin(r) => stage' = NoStage
  BY DEF Begin, Idle, TypedState, TypeOK
<1>7. Ends \/ Use => stage' = NoStage
  BY DEF Ends, Use, Idle, TypedState, TypeOK
<1> QED BY <1>1, <1>3, <1>4, <1>5, <1>6, <1>7, Cases

\* No step of a silenced operation asks again whether an error of a directory,
\* already answered, fails its clean: that question is the only one of a script.
Unnagging ==
    /\ SkipAllSilences
    /\ \A n \in 1..Len(script) : script[n].do = "clean" =>
          Len(script) = 1 /\ (silenced => Blueprint[script[n].slot[1]] # "Directory")

\* A stage is never entered with that question.
LEMMA NoQuestion ==
    ASSUME TypedState, NEW st \in StagesOf(request), request \in AllRequests
    PROVE  \A n \in 1..Len(Steps(st)) : Steps(st)[n].do # "clean"
<1>1. st \in StageSet /\ request.simulate \in BOOLEAN  BY DEF StagesOf, AllRequests
<1>2. Steps(st) \in Seq(FitSet(st))  BY StageFits
<1>3. \A n \in 1..Len(Steps(st)) : Steps(st)[n] \in FitSet(st)  BY <1>2, ElementOfSeq
<1>4. CASE st.phase = "Clean"
  <2>1. st.action \in Actions  BY <1>1, <1>4 DEF StageSet
  <2> DEFINE s == CleanSteps(st.action, machine, request.simulate)
  <2>2. \A n \in 1..Len(s) : s[n].do # "clean"  BY <1>1, <2>1, CleanScript
  <2>3. Steps(st) = s  BY <1>4 DEF Steps
  <2> HIDE DEF s
  <2> QED BY <2>2, <2>3
<1>5. CASE st.phase # "Clean"
  <2>1. \A x \in FitSet(st) : x.do # "clean"
    <3>1. CASE st.phase \in {"Startup", "Shutdown", "Create", "Seal", "Open"}
      BY <3>1 DEF FitSet, StepsIn, StepSet
    <3>2. CASE st.phase = "Backup"  BY <3>2 DEF FitSet, Fits, BackupFits
    <3>3. CASE st.phase = "Restore"  BY <3>3 DEF FitSet, Fits, RestoreFits
    <3> QED BY <1>1, <1>5, <3>1, <3>2, <3>3 DEF StageSet
  <2> QED BY <1>3, <2>1
<1> QED BY <1>4, <1>5

\* What is left of a script holds that question only if the script was it.
LEMMA QuestionAlone ==
    ASSUME NEW S, NEW s \in Seq(S), s # <<>>,
           \A n \in 1..Len(s) : s[n].do = "clean" => Len(s) = 1,
           NEW t \in {Tail(s), s, <<>>, <<s[Len(s)]>>}
    PROVE  \A n \in 1..Len(t) : t[n].do = "clean" => Len(t) = 1 /\ t[n] = Head(s) /\ Len(s) = 1
<1>1. /\ Head(s) = s[1] /\ Len(Tail(s)) = Len(s) - 1 /\ Len(s) \in Nat \ {0}
      /\ \A n \in 1..Len(Tail(s)) : Tail(s)[n] = s[n + 1]
  BY EmptySeq, HeadTailProperties, LenProperties
<1>2. CASE t = Tail(s)
  <2> SUFFICES ASSUME NEW n \in 1..Len(t), t[n].do = "clean" PROVE FALSE
    OBVIOUS
  <2>1. n + 1 \in 1..Len(s) /\ s[n + 1].do = "clean"  BY <1>1, <1>2
  <2>2. Len(s) = 1  BY <2>1
  <2> QED BY <1>1, <1>2, <2>2
<1>3. CASE t = s  BY <1>1, <1>3
<1>4. CASE t = <<s[Len(s)]>>
  <2>1. Len(t) = 1 /\ t[1] = s[Len(s)] /\ Len(s) \in 1..Len(s)  BY <1>1, <1>4
  <2> QED BY <1>1, <2>1
<1>5. CASE t = <<>>  BY <1>5
<1> QED BY <1>2, <1>3, <1>4, <1>5

\* How a failing step goes on, where skip_all is looked at and where SkipAll has
\* just been answered, and whether it is one of the errors asked about.
LEMMA SilentHow ==
    ASSUME TypedState, Sane, FailStep
    PROVE  \E how \in HowsOf(step.site) \cap Hows :
              /\ Resume(how)
              /\ Silent => how = step.site.silent /\ silenced' = silenced
              /\ silenced' => silenced \/ how = step.site.answers["SkipAll"]
              /\ \/ nagged' = nagged
                 \/ /\ silenced /\ ~Silent /\ DOMAIN step.site.answers # {}
                    /\ step.do \notin FileSteps \cup {"conflict"}
                    /\ nagged' = nagged \cup {step.slot}
<1>1. script # <<>>  BY DEF FailStep
<1>2. /\ step.site.alone \in Hows /\ step.site.silent \in Hows \cup {"ask"}
      /\ DOMAIN step.site.answers # {} => \A d \in Decisions : step.site.answers[d] \in Hows
  BY <1>1, CurrentTyped, ProtocolsTyped
<1>3. CASE Unattended
  <2> DEFINE how == IF Silent THEN step.site.silent ELSE step.site.alone
  <2>1. Resume(how) /\ nagged' = nagged /\ silenced' = silenced  BY <1>3 DEF Unattended
  <2>2. how \in Hows /\ how # "ask"  BY <1>2 DEF Silent, Hows
  <2>3. how \in HowsOf(step.site) \cap Hows  BY <2>2 DEF HowsOf
  <2> QED BY <2>1, <2>3
<1>4. ASSUME NEW d \in Decisions, Ask(d)
      PROVE  \E how \in HowsOf(step.site) \cap Hows :
              /\ Resume(how)
              /\ Silent => how = step.site.silent /\ silenced' = silenced
              /\ silenced' => silenced \/ how = step.site.answers["SkipAll"]
              /\ \/ nagged' = nagged
                 \/ /\ silenced /\ ~Silent /\ DOMAIN step.site.answers # {}
                    /\ step.do \notin FileSteps \cup {"conflict"}
                    /\ nagged' = nagged \cup {step.slot}
  <2> DEFINE how == step.site.answers[d]
  <2>1. /\ Resume(how) /\ ~Silent /\ DOMAIN step.site.answers # {}
        /\ silenced' => silenced \/ d = "SkipAll"
        /\ \/ nagged' = nagged
           \/ /\ silenced /\ step.do \notin FileSteps \cup {"conflict"}
              /\ nagged' = nagged \cup {step.slot}
    BY <1>4 DEF Ask, Asks
  <2>2. how \in Hows /\ how # "ask"  BY <1>2, <2>1 DEF Hows
  <2>3. d \in DOMAIN step.site.answers
    <3>1. step.site \in Firm \cup {check_archive_exists}  BY <1>1, CurrentTyped
    <3>2. DOMAIN step.site.answers \in {{}, Decisions}
      BY <3>1 DEF Firm, HookError, WriterError, Unasked, Unlisted, EntryError, FileError, FileMissing,
         ValueError, ValueMissing, KeyError, CleanError, Conflict, check_archive_exists, Protocol,
         Answers, handle_decision
    <3> QED BY <2>1, <3>2
  <2>4. how \in HowsOf(step.site) \cap Hows  BY <2>2, <2>3 DEF HowsOf
  <2> QED BY <2>1, <2>4
<1> QED BY <1>3, <1>4 DEF FailStep

LEMMA Silents ==
    /\ \A l \in {"Startup", "Shutdown"} : HookError(l).silent = "next"
    /\ EntryError.silent = "next" /\ EntryError.answers["SkipAll"] = "next"
    /\ Unasked.silent = "fail" /\ Unlisted.silent = "last" /\ KeyError.silent = "fail"
    /\ FileError.silent = "done" /\ FileMissing.silent = "done"
    /\ check_archive_exists.silent = "done" /\ CleanError.answers["SkipAll"] = "done"
BY DEF HookError, EntryError, Unasked, Unlisted, KeyError, FileError, FileMissing, CleanError,
   ValueError, check_archive_exists, Protocol, Answers, handle_decision, Decisions

\* An error that a silenced operation is asked about is of a value.
LEMMA NagsFit ==
    ASSUME TypedState, Ordered, Unnagging, FailStep, silenced, ~Silent,
           step.do \notin FileSteps \cup {"conflict"}
    PROVE  step.slot # NoSlot /\ Blueprint[step.slot[1]] # "Directory"
<1>1. /\ script # <<>> /\ step.do # "pass"
  BY DEF FailStep, Fails, ResourceSteps, FileSteps
<1>2. step.site.silent = "ask"  BY DEF Silent, Ordered, Sane
<1>3. /\ step \in StepsIn(stage.phase) /\ Fits(stage, step) /\ stage \in StageSet
      /\ stage.phase \in {"Backup", "Clean", "Restore"} => stage.action \in Actions
  BY <1>1, CurrentFits DEF Ordered
<1>4. stage.phase \notin {"Create", "Seal", "Open"}
  BY <1>3 DEF StepsIn, StepSet, FileSteps
<1>5. stage.phase \notin {"Startup", "Shutdown"}
  BY <1>2, <1>3, Silents DEF Fits
<1>6. CASE stage.phase \in {"Backup", "Clean", "Restore"}
  <2>1. PICK i \in Actions : i = stage.action  BY <1>3, <1>6
  <2>2. step.do = "clean" => Blueprint[i] # "Directory"
    <3>1. step.do = "clean" => Blueprint[step.slot[1]] # "Directory"
      <4>1. step = script[1] /\ 1 \in 1..Len(script)
        BY <1>1, EmptySeq, HeadTailProperties, LenProperties DEF Ordered, Fitting, step
      <4> QED BY <4>1 DEF Unnagging
    <3>2. stage.phase = "Clean" /\ step.do = "clean" => step.slot = <<i, 0>>
      BY <1>3, <2>1 DEF Fits, CleanFits
    <3>3. stage.phase \in {"Backup", "Restore"} => step.do # "clean"
      BY <1>3 DEF Fits, BackupFits, RestoreFits
    <3> QED BY <1>6, <3>1, <3>2, <3>3
  <2>3. \A s \in Of(i) : s # NoSlot /\ s[1] = i
    <3>1. i # 0 /\ \A s \in Of(i) : s[1] = i  BY CountType DEF Of
    <3> QED BY <3>1 DEF NoSlot
  <2>4. CASE stage.phase = "Backup"
    <3>1. BackupFits(i, step, machine)  BY <1>3, <2>1, <2>4 DEF Fits
    <3>2. step.slot \in Of(i)  BY <3>1 DEF BackupFits
    <3>3. Blueprint[i] # "Directory"  BY <1>1, <1>2, <3>1, Silents DEF BackupFits
    <3> QED BY <2>3, <3>2, <3>3
  <2>5. CASE stage.phase = "Clean"
    <3>1. CleanFits(i, step)  BY <1>3, <2>1, <2>5 DEF Fits
    <3>2. step.slot \in Of(i)  BY <3>1 DEF CleanFits
    <3>3. Blueprint[i] # "Directory"  BY <1>1, <1>2, <2>2, <3>1, Silents DEF CleanFits
    <3> QED BY <2>3, <3>2, <3>3
  <2>6. CASE stage.phase = "Restore"
    <3>1. RestoreFits(i, step, archive)  BY <1>3, <2>1, <2>6 DEF Fits
    <3>2. step.slot \in Of(i)  BY <3>1 DEF RestoreFits
    <3>3. Blueprint[i] # "Directory"  BY <1>1, <1>2, <3>1, Silents DEF RestoreFits
    <3> QED BY <2>3, <3>2, <3>3
  <2> QED BY <1>6, <2>4, <2>5, <2>6
<1> QED BY <1>3, <1>4, <1>5, <1>6 DEF StageSet

LEMMA UnnaggingGoesOn ==
    ASSUME TypedState, Ordered, Unnagging, Stays, Work
    PROVE  Unnagging'
<1>1. /\ stage' = stage /\ script # <<>> /\ Fitting /\ Sane /\ script \in Seq(FitSet(stage))
      /\ stage \in StageSet
  BY StaysTyped DEF Ordered, Fitting
<1>2. /\ \A n \in 1..Len(script) : script[n].do = "clean" =>
            Len(script) = 1 /\ (silenced => Blueprint[script[n].slot[1]] # "Directory")
      /\ SkipAllSilences
      /\ step = script[1] /\ 1 \in 1..Len(script)
  BY <1>1, EmptySeq, HeadTailProperties, LenProperties DEF Unnagging, step
<1>3. ASSUME script' \in {Tail(script), script, <<>>, <<script[Len(script)]>>},
             script' # <<>> /\ step.do = "clean" => (silenced' => silenced)
      PROVE  \A n \in 1..Len(script') : script'[n].do = "clean" =>
                Len(script') = 1 /\ (silenced' => Blueprint[script'[n].slot[1]] # "Directory")
  <2> SUFFICES ASSUME NEW n \in 1..Len(script'), script'[n].do = "clean"
               PROVE  Len(script') = 1 /\ (silenced' => Blueprint[script'[n].slot[1]] # "Directory")
    OBVIOUS
  <2>1. Len(script') = 1 /\ script'[n] = step  BY <1>1, <1>2, <1>3, QuestionAlone DEF step
  <2>2. script' # <<>>  BY <2>1
  <2> QED BY <1>2, <1>3, <2>1, <2>2
<1>4. CASE FailStep
  <2>1. PICK how \in HowsOf(step.site) \cap Hows :
              /\ Resume(how)
              /\ Silent => how = step.site.silent /\ silenced' = silenced
              /\ silenced' => silenced \/ how = step.site.answers["SkipAll"]
              /\ \/ nagged' = nagged
                 \/ /\ silenced /\ ~Silent /\ DOMAIN step.site.answers # {}
                    /\ step.do \notin FileSteps \cup {"conflict"}
                    /\ nagged' = nagged \cup {step.slot}
    BY <1>1, <1>4, SilentHow
  <2>2. SkipAllSilences'
    BY <1>2, <1>4, <2>1, NagsFit DEF SkipAllSilences
  <2>3. CASE how # "fail"
    <3>1. script' \in {Tail(script), script, <<>>, <<script[Len(script)]>>}
          /\ (how = "done" => script' = <<>>)
      BY <2>1, <2>3 DEF Resume, Hows
    <3>2. step.do = "clean" => step.site = CleanError
      <4>1. step \in StepsIn(stage.phase) /\ Fits(stage, step)  BY <1>1, CurrentFits
      <4>2. stage.phase \in {"Startup", "Shutdown", "Create", "Seal", "Open"} => step.do # "clean"
        BY <4>1 DEF StepsIn, StepSet
      <4>3. stage.phase \in {"Backup", "Restore"} => step.do # "clean"
        BY <4>1 DEF Fits, BackupFits, RestoreFits
      <4>4. stage.phase = "Clean" /\ step.do = "clean" => step.site = CleanError
        BY <4>1 DEF Fits, CleanFits
      <4> QED BY <1>1, <4>2, <4>3, <4>4 DEF StageSet
    <3>3. script' # <<>> /\ step.do = "clean" => (silenced' => silenced)
      BY <2>1, <3>1, <3>2, Silents
    <3> QED BY <1>3, <2>2, <3>1, <3>3 DEF Unnagging
  <2>4. CASE how = "fail"
    <3>1. /\ stage.phase = "Clean" /\ script' = <<Step("clean", <<stage.action, 0>>, CleanError)>>
          /\ step.do # "clean"
      BY <1>2, <2>1, <2>4, StaysOn DEF Resume, Stays, Abandon, Stop
    <3>2. PICK i \in Actions : i = stage.action  BY <1>1, <3>1 DEF StageSet
    <3>3. CleanFits(i, step) /\ step.do # "pass"
      BY <1>1, <1>4, <3>1, <3>2, CurrentFits DEF Fits, FailStep, Fails, ResourceSteps, FileSteps
    <3>4. ASSUME silenced', Blueprint[i] = "Directory" PROVE FALSE
      <4>1. step.site = EntryError
        BY <2>1, <2>4, <3>1, <3>3, <3>4, Sites DEF CleanFits
      <4>2. silenced  BY <2>1, <2>4, <3>4, <4>1, Silents
      <4>3. Silent  BY <1>1, <4>1, <4>2, Silents DEF Silent, Sane
      <4> QED BY <2>1, <2>4, <4>1, <4>3, Silents
    <3> DEFINE c == Step("clean", <<i, 0>>, CleanError)
    <3>5. script' = <<c>> /\ c.slot[1] = i  BY <3>1, <3>2 DEF Step
    <3> HIDE DEF c
    <3>6. \A n \in 1..Len(script') : script'[n] = c /\ Len(script') = 1  BY <3>5
    <3> QED BY <2>2, <3>4, <3>5, <3>6 DEF Unnagging
  <2> QED BY <2>3, <2>4
<1>5. CASE ~FailStep
  <2>1. script' = Tail(script) /\ UNCHANGED <<silenced, nagged>>
    BY <1>5 DEF Work, RunHook, CreateArchive, SealArchive, PerformStep, PassStep,
       OverlookStep, MisreadStep, Advance, MoveOn
  <2> QED BY <1>2, <1>3, <2>1 DEF Unnagging, SkipAllSilences
<1> QED BY <1>4, <1>5

LEMMA UnnaggingKept ==
    ASSUME TypedState, Ordered, Unnagging, [Next]_vars
    PROVE  Unnagging'
<1>1. ASSUME NEW r \in Requests, Begin(r) PROVE Unnagging'
  <2>1. nagged' = {} /\ script' = <<>>  BY <1>1 DEF Begin, Idle, TypedState, TypeOK
  <2> QED BY <2>1 DEF Unnagging, SkipAllSilences
<1>2. CASE EnterStage
  <2>1. /\ request \in AllRequests /\ stage' \in StagesOf(request) /\ script' = Steps(stage')
        /\ nagged' = nagged
    BY <1>2, EnterStageRun DEF Ordered, history
  <2>2. \A n \in 1..Len(script') : script'[n].do # "clean"
    <3>1. PICK st \in StagesOf(request) : st = stage'  BY <2>1
    <3> DEFINE s == Steps(st)
    <3>2. \A n \in 1..Len(s) : s[n].do # "clean"  BY <2>1, NoQuestion
    <3>3. script' = s  BY <2>1, <3>1
    <3> HIDE DEF s
    <3> QED BY <3>2, <3>3
  <2> QED BY <2>1, <2>2 DEF Unnagging, SkipAllSilences
<1>3. CASE Stays /\ Work  BY <1>3, UnnaggingGoesOn
<1>4. CASE Ends /\ UNCHANGED nagged
  BY <1>4 DEF Ends, Unnagging, SkipAllSilences
<1>5. CASE Use
  BY <1>5 DEF Use, Unnagging, SkipAllSilences
<1>6. CASE UNCHANGED vars
  BY <1>6 DEF vars, history, Unnagging, SkipAllSilences
<1>7. CASE Ends /\ FailStep
  <2>1. script' = <<>>  BY <1>7 DEF Ends
  <2>2. SkipAllSilences'
    BY <1>7, SilentHow, NagsFit DEF SkipAllSilences, Ordered, Unnagging
  <2> QED BY <2>1, <2>2 DEF Unnagging
<1>8. Succeed \/ Throw => UNCHANGED nagged  BY DEF Succeed, Throw
<1>9. [Next]_vars => \/ \E r \in Requests : Begin(r)
                     \/ EnterStage \/ (Stays /\ Work) \/ Use \/ UNCHANGED vars
                     \/ (Ends /\ (Succeed \/ Throw \/ FailStep))
  <2>1. Work => Stays \/ (Ends /\ FailStep)
    <3>1. FailStep => Stays \/ Ends  BY FailCases
    <3>2. ASSUME RunHook \/ CreateArchive \/ SealArchive \/ PerformStep \/ PassStep
                          \/ OverlookStep \/ MisreadStep
          PROVE  Stays
      <4>1. script # <<>> /\ MoveOn /\ passed \subseteq passed'
        BY <3>2 DEF RunHook, CreateArchive, SealArchive, PerformStep, PassStep, OverlookStep,
           MisreadStep, Advance, Current
      <4>2. request # None  BY <4>1, CurrentTyped
      <4> QED BY <4>1, <4>2 DEF MoveOn, Stays
    <3> QED BY <3>1, <3>2 DEF Work
  <2>2. Succeed \/ Throw => Ends  BY DEF Succeed, Throw, Abandon, Stop, Ends
  <2> QED BY <2>1, <2>2 DEF Next, Execute, Work
<1> QED BY <1>1, <1>2, <1>3, <1>4, <1>5, <1>6, <1>7, <1>8, <1>9

-----------------------------------------------------------------------------
(* What is sure whatever goes unseen.                                      *)

\* The archive has nothing of slot s, what is there, or the absence of a value.
Glimpsed(s) ==
    \/ archive[s] = "Missing"
    \/ /\ ~Base(s) /\ s \notin Filtered
       /\ IF Blueprint[s[1]] = "Directory"
          THEN archive[s] = Written(s, machine) /\ machine[s] # "Absent"
          ELSE archive[s] \in {Written(s, machine), "Absent"}

\* A backup writes nothing that is not there.  Where nobody is asked, no step goes
\* on from a write that has failed: a slot is as it was, as it is wanted, or empty.
Unwatched ==
    /\ request.name = "Backup" =>
          \/ stage.phase \in {"None", "Shutdown"}
          \/ stage.phase = "Create" /\ script # <<>>
          \/ \A s \in Slots : Glimpsed(s)
    /\ ErrorAnswers = {} /\ request.name \in {"Clean", "Restore"} /\ stage.phase \notin {"Restore", "Startup"} =>
          \A s \in Slots : machine[s] \in {observed.machine[s], "Absent"}
    /\ ErrorAnswers = {} /\ request.name = "Restore" =>
          \A s \in Slots : machine[s] \in {observed.machine[s], "Absent", "Empty", Saved(archive)[s]}

LEMMA FailureSeen ==
    ASSUME TypedState, Ordered, Stays, FailStep, ErrorAnswers = {}
    PROVE  machine' = machine
<1> SUFFICES ASSUME machine' # machine PROVE FALSE
  OBVIOUS
<1>1. PICK how \in HowsOf(step.site) \cap Hows : Resume(how) /\ how = step.site.alone
  BY FailHow DEF Ordered
<1>2. how # "fail"  BY <1>1, StaysOn
<1>3. script # <<>> /\ machine' \in Wreckage(step, machine)  BY Breaking
<1>4. /\ stage.phase \in {"Clean", "Restore"}
      /\ step.do = IF stage.phase = "Clean" THEN "drop" ELSE "put"
  BY <1>3, Wrecked
<1>5. Fits(stage, step)  BY <1>3, CurrentFits DEF Ordered
<1>6. step.site.alone = "fail"
  <2>1. CASE stage.phase = "Clean"  BY <1>4, <1>5, <2>1, Sites DEF Fits, CleanFits
  <2>2. CASE stage.phase = "Restore"  BY <1>4, <1>5, <2>2, Sites DEF Fits, RestoreFits
  <2> QED BY <1>4, <2>1, <2>2
<1> QED BY <1>1, <1>2, <1>6

\* What a step of a clean or of a restore nobody is asked about does to the machine.
LEMMA UnwatchedStep ==
    ASSUME TypedState, Ordered, Stays, Work, ErrorAnswers = {}
    PROVE  \A s \in Slots :
              \/ machine'[s] \in {machine[s], "Absent"}
              \/ stage.phase = "Restore" /\ machine'[s] \in {"Empty", Saved(archive)[s]}
<1>1. machine \in [Slots -> States] /\ script # <<>> /\ BasesMissing(archive)
  BY DEF TypedState, TypeOK, Stays, Ordered, Sane
<1>2. CASE FailStep  BY <1>2, FailureSeen
<1>3. CASE PerformStep
  <2>1. step.do \in ResourceSteps /\ machine' = MachineAfter(step, machine, archive)
    BY <1>3 DEF PerformStep
  <2>2. CASE step.do = "drop"  BY <1>1, <2>1, <2>2 DEF MachineAfter
  <2>3. CASE step.do \in {"mkdir", "put"}
    <3>1. Fits(stage, step) /\ step \in StepsIn(stage.phase) /\ stage \in StageSet
      BY <1>1, CurrentFits DEF Ordered
    <3>2. stage.phase = "Restore"
      BY <2>3, <3>1 DEF StageSet, StepsIn, StepSet, Fits, BackupFits, CleanFits
    <3>3. stage.action \in Actions /\ step.slot \in Of(stage.action)
      BY <1>1, <3>2, PutFits, CurrentFits DEF Ordered
    <3>4. CASE step.do = "mkdir"  BY <1>1, <2>1, <3>2, <3>4 DEF MachineAfter
    <3>5. CASE step.do = "put"
      <4>1. ~Base(step.slot)  BY <1>1, <3>2, <3>5, PutFits
      <4>2. archive[step.slot] # "Missing" => Saved(archive)[step.slot] = archive[step.slot]
        BY <1>1, <3>3, <4>1, SavedOf
      <4>3. Restored(step.slot, archive) \in {"Absent", "Empty", Saved(archive)[step.slot]}
        BY <4>2 DEF Restored
      <4>4. machine' = [machine EXCEPT ![step.slot] = Restored(step.slot, archive)]
        BY <2>1, <3>5 DEF MachineAfter
      <4> QED BY <1>1, <3>2, <4>3, <4>4
    <3> QED BY <2>3, <3>4, <3>5
  <2>4. CASE step.do \notin {"drop", "mkdir", "put"}  BY <2>1, <2>4 DEF MachineAfter
  <2> QED BY <2>2, <2>3, <2>4
<1>4. CASE MisreadStep
  <2>1. step.do = "put" /\ machine' = [machine EXCEPT ![step.slot] = Misread(step.slot, machine)]
    BY <1>4 DEF MisreadStep, Current
  <2>2. stage.phase = "Restore"
    <3>1. Fits(stage, step) /\ step \in StepsIn(stage.phase) /\ stage \in StageSet
      BY <1>1, CurrentFits DEF Ordered
    <3> QED BY <2>1, <3>1 DEF StageSet, StepsIn, StepSet, Fits, BackupFits, CleanFits
  <2>3. Misread(step.slot, machine) \in {machine[step.slot], "Empty", "Absent"}  BY DEF Misread
  <2> QED BY <1>1, <2>1, <2>2, <2>3
<1>5. CASE RunHook \/ CreateArchive \/ SealArchive \/ PassStep \/ OverlookStep
  BY <1>5 DEF RunHook, CreateArchive, SealArchive, PassStep, OverlookStep, resources
<1> QED BY <1>2, <1>3, <1>4, <1>5 DEF Work

\* A step of a backup writes what is there, or that there is nothing.
LEMMA GlimpsedGoesOn ==
    ASSUME TypedState, Ordered, Stays, Work, stage.phase = "Backup", \A s \in Slots : Glimpsed(s)
    PROVE  \A s \in Slots : Glimpsed(s)'
<1>1. /\ script # <<>> /\ Fitting /\ Sane /\ archive \in [Slots -> Archived]
  BY DEF Stays, Ordered, TypedState, TypeOK
<1>2. BackupFits(stage.action, step, machine) /\ stage.action \in Actions
  BY <1>1, CurrentFits DEF Fits
<1>3. step.slot \in Slots /\ step.slot[1] = stage.action  BY <1>2, SlotsOf DEF BackupFits
<1>4. /\ machine' = machine
      /\ \/ archive' = archive
         \/ /\ step.do = "save" /\ Blueprint[stage.action] # "Directory"
            /\ archive' = [archive EXCEPT ![step.slot] = "Absent"]
         \/ step.do = "save" /\ archive' = [archive EXCEPT ![step.slot] = Written(step.slot, machine)]
  BY <1>1, BackupStep
<1>5. \A s \in Slots : archive'[s] = archive[s] => Glimpsed(s)'
  BY <1>4 DEF Glimpsed, Written
<1>6. ASSUME NEW s \in Slots, s = step.slot, archive' # archive PROVE Glimpsed(s)'
  <2>1. /\ ~Base(s) /\ s \notin Filtered
        /\ Blueprint[stage.action] = "Directory" => machine[s] # "Absent"
    BY <1>2, <1>4, <1>6 DEF BackupFits
  <2>2. /\ archive'[s] \in {"Absent", Written(s, machine)}
        /\ Blueprint[stage.action] = "Directory" => archive'[s] = Written(s, machine)
    BY <1>1, <1>3, <1>4, <1>6
  <2> QED BY <1>3, <1>4, <1>6, <2>1, <2>2 DEF Glimpsed, Written
<1>7. \A s \in Slots : s # step.slot => archive'[s] = archive[s]  BY <1>1, <1>3, <1>4
<1> QED BY <1>5, <1>6, <1>7

LEMMA UnwatchedKept ==
    ASSUME TypedState, Ordered, Remembered, Unwatched, [Next]_vars
    PROVE  Unwatched'
<1>1. ASSUME request'.name = "None" PROVE Unwatched'  BY <1>1 DEF Unwatched
<1>2. ASSUME NEW r \in Requests, Begin(r) PROVE Unwatched'
  <2>1. /\ request = None /\ request' = r /\ stage' = NoStage
        /\ UNCHANGED <<machine, archive, observed>>
    BY <1>2 DEF Begin, Idle, TypedState, TypeOK, resources
  <2>2. observed = Observed  BY <2>1 DEF Remembered
  <2>3. observed.machine = machine  BY <2>2 DEF Observed
  <2> QED BY <2>1, <2>3 DEF Unwatched, NoStage, Stage
<1>3. CASE EnterStage
  <2>1. /\ request' = request /\ script = <<>> /\ stage = Before(request, stage')
        /\ stage' \in StageSet /\ request \in AllRequests /\ script' = Steps(stage')
        /\ UNCHANGED <<machine, archive, observed>>
    BY <1>3, EnterStageRun DEF Ordered, resources, history
  <2>2. \A s : Glimpsed(s)' <=> Glimpsed(s)  BY <2>1 DEF Glimpsed, Written
  <2>3. request.name = "Backup" =>
           stage'.phase \in {"None", "Shutdown", "Create"} \/ stage.phase \notin {"None", "Shutdown"}
    <3>1. request.name = "Backup" => stage'.phase \in Phases(request) \cup {"None"}
      BY <1>3, EnterStageRun DEF Ordered, StagesOf
    <3> QED BY <2>1, <3>1 DEF Before, Stage, NoStage, Phases
  <2>4. stage'.phase = "Create" => script' # <<>>
    <3>1. \A st : st.phase = "Create" => Steps(st) # <<>>  BY DEF Steps
    <3> QED BY <2>1, <3>1
  <2>5. stage'.phase \notin {"Restore", "Startup"} /\ request.name \in {"Clean", "Restore"} =>
           stage.phase \notin {"Restore", "Startup"}
    <3>1. stage'.phase \in Phases(request)  BY <1>3, EnterStageRun DEF Ordered, StagesOf
    <3> QED BY <2>1, <3>1 DEF Before, Stage, NoStage, Phases
  <2> QED BY <2>1, <2>2, <2>3, <2>4, <2>5 DEF Unwatched
<1>4. CASE Stays /\ Work
  <2>1. UNCHANGED <<stage, request, observed>> /\ script # <<>> /\ Fitting /\ Sane
    BY <1>4 DEF Stays, Ordered
  <2>2. stage.phase \notin {"Clean", "Restore"} => machine' = machine  BY <1>4, StagesWork
  <2>3. /\ stage.phase \notin {"Create", "Seal", "Backup"} => archive' = archive
        /\ request.name \in {"Backup", "Startup", "Shutdown"} => stage.phase \notin {"Clean", "Restore"}
        /\ request.name # "Backup" => stage.phase \notin {"Create", "Seal", "Backup"}
    BY <1>4, StagesWork
  <2>4. ASSUME request.name = "Backup", stage.phase \notin {"None", "Shutdown"}
        PROVE  \A s \in Slots : Glimpsed(s)'
    <3>1. CASE stage.phase = "Create"
      <4>1. archive' = [s \in Slots |-> "Missing"]  BY <1>4, <2>1, <3>1, FileStep
      <4> QED BY <4>1 DEF Glimpsed
    <3>2. CASE stage.phase = "Backup"
      <4>1. \A s \in Slots : Glimpsed(s)  BY <2>4, <3>2 DEF Unwatched
      <4> QED BY <1>4, <3>2, <4>1, GlimpsedGoesOn
    <3>3. CASE stage.phase \notin {"Create", "Backup"}
      <4>1. archive' = archive  BY <1>4, <2>1, <2>3, <3>3, FileStep
      <4>2. machine' = machine  BY <2>2, <2>3, <2>4
      <4>3. \A s \in Slots : Glimpsed(s)  BY <2>4, <3>3 DEF Unwatched
      <4> QED BY <4>1, <4>2, <4>3 DEF Glimpsed, Written
    <3> QED BY <3>1, <3>2, <3>3
  <2>5. ASSUME ErrorAnswers = {}, request.name \in {"Clean", "Restore"}
        PROVE  /\ archive' = archive
               /\ \A s \in Slots :
                     \/ machine'[s] \in {machine[s], "Absent"}
                     \/ stage.phase = "Restore" /\ machine'[s] \in {"Empty", Saved(archive)[s]}
    BY <1>4, <2>3, <2>5, UnwatchedStep
  <2> QED BY <2>1, <2>4, <2>5 DEF Unwatched
<1>5. CASE UNCHANGED vars
  <2>1. UNCHANGED <<machine, archive, stage, request, script, observed>>
    BY <1>5 DEF vars, resources, history
  <2>2. \A s : Glimpsed(s)' <=> Glimpsed(s)  BY <2>1 DEF Glimpsed, Written
  <2> QED BY <2>1, <2>2 DEF Unwatched
<1>6. Ends \/ Use => request'.name = "None"
  BY DEF Ends, Use, Idle, None
<1> QED BY <1>1, <1>2, <1>3, <1>4, <1>5, <1>6, Cases

-----------------------------------------------------------------------------
(* The inductive invariant, and what the operations promise.               *)

Progress ==
    /\ TypedState /\ Ordered
    /\ Remembered /\ Emptying /\ Recording /\ Bringing
    /\ Hooked /\ Unnagging /\ Unwatched

LEMMA InitProgress == Init => Progress
<1> SUFFICES ASSUME Init PROVE Progress
  OBVIOUS
<1>1. TypedState /\ Ordered  BY InitTyped, InitOrdered
<1>2. /\ request = None /\ stage = NoStage /\ script = <<>> /\ nagged = {}
      /\ observed = Observed
      /\ machine \in [Slots -> States]
  BY <1>1 DEF Init, TypedState, TypeOK
<1>3. stage.phase = "None" /\ request.name = "None" /\ \A p, i : stage = Stage(p, i) => p = "None"
  BY <1>2 DEF NoStage, Stage, None
<1>4. observed.machine = machine /\ observed.saved = Observed.saved  BY <1>2 DEF Observed
<1>5. Remembered  BY <1>2, <1>3, <1>4 DEF Remembered
<1>6. Emptying /\ Recording /\ Bringing /\ Hooked /\ Unwatched
  BY <1>3 DEF Emptying, Recording, Bringing, Hooked, Unwatched
<1>7. Unnagging  BY <1>2 DEF Unnagging, SkipAllSilences
<1> QED BY <1>1, <1>5, <1>6, <1>7 DEF Progress

LEMMA ProgressKept == Progress /\ [Next]_vars => Progress'
BY NextTyped, OrderedKept, RememberedKept, EmptyingKept, RecordingKept, BringingKept, HookedKept,
   UnnaggingKept, UnwatchedKept DEF Progress

LEMMA AlwaysProgress == Spec => []Progress
BY InitProgress, ProgressKept, PTL DEF Spec

\* A stage of an action is the stage of an action of the blueprint.
LEMMA StageOfAction ==
    ASSUME TypedState, NEW phase \in {"Backup", "Clean", "Restore"}, stage.phase = phase
    PROVE  stage.action \in Actions /\ stage = Stage(phase, stage.action)
<1>1. stage \in StagesOf(request) \/ stage = NoStage  BY DEF TypedState, Plan
<1>2. stage # NoStage  BY DEF NoStage, Stage
<1> QED BY <1>1, <1>2 DEF StagesOf, StageSet, Stage

\* What a restore would bring back is what could be saved, when the archive has
\* all of it.
LEMMA SavedIsSaveable ==
    ASSUME machine \in [Slots -> States], Orderly(machine), BasesMissing(archive),
           \A s \in Slots : Kept(s)
    PROVE  Saved(archive) = Saveable(machine)
<1>0. \A s \in Slots : /\ Written(s, machine) # "Missing" /\ machine[s] # "Missing"
                       /\ machine[s] = "Absent" => Written(s, machine) = "Absent"
                       /\ Blueprint[s[1]] = "Directory" => Written(s, machine) = machine[s]
  <2>1. "Missing" \notin States  BY OrchestratorAssumption DEF States
  <2> QED BY <2>1 DEF Written
<1>1. ASSUME NEW i \in Actions, Blueprint[i] = "Directory"
      PROVE  Stored(i, archive) = Present(i, machine) \ Excluded
  <2> SUFFICES ASSUME NEW k \in Entries(i)
               PROVE  archive[<<i, k>>] # "Missing" <=> machine[<<i, k>>] # "Absent" /\ k \notin Excluded
    BY DEF Stored, Present
  <2>1. <<i, k>> \in Slots /\ ~Base(<<i, k>>)  BY <1>1, SlotsOf DEF Of
  <2>2. <<i, k>> \in Filtered <=> k \in Excluded  BY <2>1 DEF Filtered
  <2>3. machine[<<i, k>>] # "Missing" /\ Written(<<i, k>>, machine) = machine[<<i, k>>]
    BY <1>0, <1>1, <2>1
  <2>4. Kept(<<i, k>>)  BY <2>1
  <2> QED BY <1>1, <2>1, <2>2, <2>3, <2>4 DEF Kept
<1>2. ASSUME NEW s \in Slots PROVE Saved(archive)[s] = Saveable(machine)[s]
  <2>1. PICK i \in Actions : i = s[1]  BY EverySlot
  <2>2. s \in Of(i)  BY <2>1 DEF Of
  <2>3. /\ Kept(s) /\ Written(s, machine) # "Missing"
        /\ machine[s] = "Absent" => Written(s, machine) = "Absent"
        /\ Blueprint[i] = "Directory" => Written(s, machine) = machine[s]
    BY <1>0, <2>1
  <2>4. Saveable(machine)[s] =
          IF s \in Filtered \/ (Blueprint[i] = "Directory" /\ Present(i, machine) \ Excluded = {})
          THEN "Absent" ELSE Written(s, machine)
    BY <2>1 DEF Saveable
  <2>5. Saved(archive)[s] =
          IF Base(s) THEN IF Stored(i, archive) = {} THEN "Absent" ELSE "Empty"
          ELSE IF archive[s] = "Missing" THEN "Absent" ELSE archive[s]
    BY <2>1 DEF Saved, Base
  <2>6. CASE Base(s)
    <3>1. s = <<i, 0>> /\ Blueprint[i] = "Directory" /\ Entries(i) = 1..DirSize
      <4>1. Blueprint[i] = "Directory"  BY <2>1, <2>6 DEF Base
      <4>2. /\ Entries(i) = 1..DirSize
            /\ \A k \in 1..DirSize : ~Base(<<i, k>>)
            /\ s # <<i, 0>> => \E k \in 1..DirSize : s = <<i, k>>
        BY <2>2, <4>1, SlotsOf
      <4> QED BY <2>6, <4>1, <4>2
    <3>2. s \notin Filtered
      <4>1. 0 \notin Excluded  BY OrchestratorAssumption
      <4> QED BY <3>1, <4>1 DEF Filtered
    <3>3. machine[s] \in {"Absent", "Empty"}  BY <2>6 DEF Orderly
    <3>4. machine[s] = "Absent" => Present(i, machine) = {}
      BY <3>1 DEF Orderly, WellFormed, Present
    <3> QED BY <1>1, <2>3, <2>4, <2>5, <2>6, <3>1, <3>2, <3>3, <3>4
  <2>7. CASE ~Base(s) /\ Blueprint[i] = "Directory"
    <3>1. PICK k \in 1..DirSize : s = <<i, k>>
      <4>1. s # <<i, 0>>  BY <2>1, <2>7 DEF Base
      <4> QED BY <2>2, <2>7, <4>1, SlotsOf
    <3>2. s \in Filtered <=> k \in Excluded  BY <3>1 DEF Filtered
    <3>3. k \in Entries(i)  BY <2>7, <3>1 DEF Entries
    <3>4. machine[s] # "Absent" /\ k \notin Excluded => Present(i, machine) \ Excluded # {}
      BY <3>1, <3>3 DEF Present
    <3> QED BY <2>1, <2>3, <2>4, <2>5, <2>7, <3>2, <3>4 DEF Kept
  <2>8. CASE Blueprint[i] # "Directory"
    <3>1. ~Base(s)  BY <2>1, <2>8 DEF Base
    <3> QED BY <2>1, <2>3, <2>4, <2>5, <2>8, <3>1 DEF Kept
  <2> QED BY <2>6, <2>7, <2>8
<1>3. Saved(archive) = [s \in Slots |-> Saved(archive)[s]]  BY DEF Saved
<1>4. Saveable(machine) = [s \in Slots |-> Saveable(machine)[s]]  BY DEF Saveable
<1> DEFINE a == Saved(archive)
           b == Saveable(machine)
<1>5. a = [s \in Slots |-> a[s]] /\ b = [s \in Slots |-> b[s]] /\ \A s \in Slots : a[s] = b[s]
  BY <1>2, <1>3, <1>4
<1> HIDE DEF a, b
<1>6. a = b  BY <1>5
<1> QED BY <1>6 DEF a, b

\* An operation that ends in success has done all of its stages.
LEMMA Succeeded ==
    ASSUME Progress, Succeed
    PROVE  /\ request \in AllRequests /\ request # None /\ script = <<>>
           /\ stage = Last(request)
           /\ machine \in [Slots -> States]
<1>1. TypedState /\ Course /\ ~Idle /\ agenda = <<>>  BY DEF Progress, Ordered, Succeed
<1>2. request \in AllRequests /\ request # None
  BY <1>1, OrchestratorAssumption DEF Idle, TypedState, TypeOK
<1> QED BY <1>1, <1>2, CourseRun DEF Succeed, TypedState, TypeOK

LEMMA CleanedAll ==
    ASSUME Progress, Succeed, request.name = "Clean", ~request.simulate,
           \A i \in Actions : ~Excused(i)
    PROVE  machine = [s \in Slots |-> "Absent"]
<1>1. stage = Last(request) /\ script = <<>> /\ machine \in [Slots -> States]  BY Succeeded
<1>2. ASSUME NEW s \in Slots PROVE machine[s] = "Absent"
  <2>1. s[1] \in Actions /\ s \in Of(s[1])  BY EverySlot
  <2>2. Count # 0 /\ 1 \in Actions /\ \A j \in Actions : j = 1 \/ j > 1  BY <2>1, CountType
  <2>3. stage = Stage("Clean", 1)  BY <1>1, <2>2 DEF Last
  <2>4. ~EndsIn(script, 1)  BY <1>1 DEF EndsIn
  <2>5. \A j \in Actions : Emptied(j)  BY <2>2, <2>3, <2>4 DEF Progress, Emptying
  <2> QED BY <2>1, <2>5 DEF Emptied
<1> QED BY <1>1, <1>2

LEMMA BroughtAll ==
    ASSUME Progress, stage.phase = "Startup", request.name = "Restore", ~request.simulate,
           \A i \in Actions : ~Excused(i)
    PROVE  machine = Saved(archive)
<1>1. \A j \in Actions : Brought(j)  BY DEF Progress, Bringing
<1>2. \A s \in Slots : machine[s] = Saved(archive)[s]  BY <1>1, EverySlot DEF Brought
<1>3. Saved(archive) = [s \in Slots |-> Saved(archive)[s]]  BY DEF Saved
<1>4. machine \in [Slots -> States]  BY DEF Progress, TypedState, TypeOK
<1> DEFINE a == Saved(archive)
<1>5. a = [s \in Slots |-> a[s]] /\ \A s \in Slots : machine[s] = a[s]  BY <1>2, <1>3
<1> HIDE DEF a
<1>6. machine = a  BY <1>4, <1>5
<1> QED BY <1>6 DEF a

\* An action is cleaned only when everything the later actions manage is gone, or
\* one of their failures was survived: Orchestrator cleans in reverse document
\* order, and a do_clean that returns true has removed all there was.
THEOREM CleanIsInReverse == Spec => []CleansInReverse
<1>1. ASSUME Progress PROVE CleansInReverse
  <2> SUFFICES ASSUME stage.phase = "Clean", ~request.simulate,
                      NEW s \in Slots, s[1] > stage.action
               PROVE  machine[s] = "Absent" \/ \E p \in passed : p[1] = s[1]
    BY DEF CleansInReverse
  <2>1. PICK i \in Actions : i = stage.action /\ stage = Stage("Clean", i)
    BY <1>1, StageOfAction DEF Progress
  <2>2. s[1] \in Actions /\ s \in Of(s[1]) /\ s[1] > i  BY <2>1, EverySlot
  <2>3. Emptied(s[1])  BY <1>1, <2>1, <2>2 DEF Progress, Emptying
  <2> QED BY <2>2, <2>3 DEF Emptied, Excused
<1> QED BY <1>1, AlwaysProgress, PTL

\* A clean that ends in success without having survived a failure leaves nothing of
\* what the blueprint manages, whatever was on the machine.
THEOREM CleanedIsEmpty == Spec => CleanLeavesNothing
<1>1. ASSUME Progress, Clear("Clean") PROVE \A s \in Slots : machine[s] = "Absent"
  <2>1. \A i \in Actions : ~Excused(i)  BY <1>1 DEF Clear, Excused
  <2>2. machine = [s \in Slots |-> "Absent"]  BY <1>1, <2>1, CleanedAll DEF Clear
  <2> QED BY <2>2
<1>2. Progress /\ [Next]_vars => [Clear("Clean") => \A s \in Slots : machine[s] = "Absent"]_vars
  BY <1>1
<1> QED BY <1>2, AlwaysProgress, PTL DEF Spec, CleanLeavesNothing

\* A restore that ends in success without having survived a failure leaves the machine
\* as the snapshot has it: what the snapshot does not have was cleaned first, and
\* is not there.
THEOREM RestoredIsSaved == Spec => RestoreIsFaithful
<1>1. ASSUME Progress, Clear("Restore") PROVE machine = Saved(archive)
  <2>1. \A i \in Actions : ~Excused(i)  BY <1>1 DEF Clear, Excused
  <2>2. request.name = "Restore" /\ ~request.simulate /\ stage = Last(request)
    BY <1>1, Succeeded DEF Clear
  <2>3. stage.phase = "Startup"  BY <2>2 DEF Last, Stage
  <2> QED BY <1>1, <2>1, <2>2, <2>3, BroughtAll
<1>2. Progress /\ [Next]_vars => [Clear("Restore") => machine = Saved(archive)]_vars
  BY <1>1
<1> QED BY <1>2, AlwaysProgress, PTL DEF Spec, RestoreIsFaithful

\* A backup that ends in success without having survived a failure has recorded all
\* of the machine that the filters let through, and nothing that is not there.
THEOREM BackedUpIsSaveable == Spec => BackupIsFaithful
<1>1. ASSUME Progress, Clear("Backup") PROVE Saved(archive) = Saveable(machine)
  <2>1. /\ request.name = "Backup" /\ passed = {} /\ stage = Last(request)
        /\ machine \in [Slots -> States]
    BY <1>1, Succeeded DEF Clear
  <2>2. stage.phase = "Startup"  BY <2>1 DEF Last, Stage
  <2>3. \A j \in Actions : Recorded(j)  BY <1>1, <2>1, <2>2 DEF Progress, Recording
  <2>4. \A s \in Slots : Kept(s)  BY <2>1, <2>3, EverySlot DEF Recorded, Excused
  <2>5. Orderly(machine) /\ BasesMissing(archive)  BY <1>1 DEF Progress, Ordered, Sane, Orderly
  <2> QED BY <2>1, <2>4, <2>5, SavedIsSaveable
<1>2. Progress /\ [Next]_vars => [Clear("Backup") => Saved(archive) = Saveable(machine)]_vars
  BY <1>1
<1> QED BY <1>2, AlwaysProgress, PTL DEF Spec, BackupIsFaithful

\* What a backup records, it records while the application is stopped, or after a
\* failure to stop it that was passed over; the blueprint must have a shutdown hook
\* that such a backup runs, or nothing stops the application.
THEOREM BackupIsQuiet ==
    ASSUME \A r \in Requests : r.name = "Backup" =>
              \E n \in 1..Len(Hooks["Shutdown"]) : Hooks["Shutdown"][n] = "always" \/ r.force
    PROVE  Spec => BackupReadsQuietApp
<1>1. ASSUME Progress, stage.phase = "Backup" PROVE app = "down" \/ NoSlot \in passed
  <2>1. stage \in StagesOf(request) \/ stage = NoStage  BY <1>1 DEF Progress, TypedState, Plan
  <2>2. "Backup" \in Phases(request)  BY <1>1, <2>1 DEF StagesOf, NoStage, Stage
  <2>3. request \in Requests /\ request.name = "Backup"
    <3>1. request \in Requests \cup {None}  BY <1>1 DEF Progress, TypedState, TypeOK
    <3>2. request # None  BY <2>2 DEF None, Phases
    <3>3. request \in AllRequests  BY <3>1, <3>2, OrchestratorAssumption
    <3> QED BY <2>2, <3>1, <3>2, <3>3 DEF Phases, AllRequests
  <2>4. HookRuns("Shutdown")  BY <2>3 DEF HookRuns
  <2> QED BY <1>1, <2>4 DEF Progress, Hooked
<1>2. Progress /\ [Next]_vars =>
         [stage.phase = "Backup" /\ archive' # archive => app = "down" \/ NoSlot \in passed]_vars
  BY <1>1
<1> QED BY <1>2, AlwaysProgress, PTL DEF Spec, BackupReadsQuietApp

\* A backup that succeeds leaves the application running: the startup hooks are the
\* last of its stages, and one of them that always runs has started it, unless a
\* failure of a hook was passed over.
THEOREM BackupEndsWithApp == Spec => BackupStartsApp
<1>1. ASSUME Progress, Succeed, request.name = "Backup",
             "always" \in {Hooks["Startup"][n] : n \in DOMAIN Hooks["Startup"]}
      PROVE  app = "up" \/ NoSlot \in passed
  <2>1. stage = Last(request) /\ script = <<>>  BY <1>1, Succeeded
  <2>2. stage.phase = "Startup"  BY <1>1, <2>1 DEF Last, Stage
  <2>3. HookRuns("Startup")
    <3>1. Hooks["Startup"] \in Seq({"always", "forced"})  BY OrchestratorAssumption
    <3>2. DOMAIN Hooks["Startup"] = 1..Len(Hooks["Startup"])  BY <3>1
    <3> QED BY <1>1, <3>2 DEF HookRuns
  <2>4. ~Holds(script, "hook", NoSlot)  BY <2>1, HoldsNothing
  <2> QED BY <1>1, <2>2, <2>3, <2>4 DEF Progress, Hooked, Wanted
<1>2. Progress /\ [Next]_vars =>
         [Succeed /\ request.name = "Backup" =>
            app = "up" \/ NoSlot \in passed
            \/ "always" \notin {Hooks["Startup"][n] : n \in DOMAIN Hooks["Startup"]}]_vars
  BY <1>1
<1> QED BY <1>2, AlwaysProgress, PTL DEF Spec, BackupStartsApp

\* Once SkipAll has been the answer to an error, neither a hook nor a directory action
\* asks about one again: run_lifecycle_hooks and the retry loops look at
\* skip_all first, and so the question IAction::clean asks is not reached.
THEOREM SkipAllIsHeard == Spec => []SkipAllSilences
<1>1. Progress => SkipAllSilences  BY DEF Progress, Unnagging
<1> QED BY <1>1, AlwaysProgress, PTL

-----------------------------------------------------------------------------
(* Orchestrator implements InstallManager.                                 *)

\* A dry run that heeds simulate has not even changed the machine for a while.
Pure == request.simulate => machine = observed.machine

Refining == Progress /\ Dry /\ Pure

LEMMA PureKept ==
    ASSUME Progress, Progress', Dry, Pure, [Next]_vars
    PROVE  Pure'
<1> USE DEF Progress
<1>1. ASSUME request' = None PROVE Pure'  BY <1>1 DEF Pure, None
<1>2. ASSUME NEW r \in Requests, Begin(r) PROVE Pure'
  <2>1. request = None /\ UNCHANGED <<machine, observed>>  BY <1>2 DEF Begin, Idle, resources
  <2>2. observed = Observed  BY <2>1 DEF Remembered
  <2>3. observed.machine = machine  BY <2>2 DEF Observed
  <2> QED BY <2>1, <2>3 DEF Pure
<1>3. CASE EnterStage  BY <1>3 DEF EnterStage, resources, history, Pure
<1>4. CASE Stays /\ Work
  <2>1. request' = request /\ observed' = observed /\ request # None  BY <1>4 DEF Stays
  <2>2. request.simulate => machine' = machine
    <3>1. Execute  BY <1>4 DEF Work, Execute
    <3> QED BY <2>1, <3>1, DryExecute DEF resources
  <2> QED BY <2>1, <2>2 DEF Pure
<1>5. CASE UNCHANGED vars  BY <1>5 DEF vars, resources, history, Pure
<1>6. Use => request' = None  BY DEF Use, Idle
<1> QED BY <1>1, <1>2, <1>3, <1>4, <1>5, <1>6, Cases DEF Ends

LEMMA AlwaysRefining ==
    ASSUME Heeded
    PROVE  Spec => []Refining
<1>1. Init => Refining
  <2>1. Init => Dry /\ Pure  BY DEF Init, Dry, Pure, None
  <2> QED BY <2>1, InitProgress DEF Refining
<1>2. Refining /\ [Next]_vars => Refining'
  BY DryKept, ProgressKept, PureKept DEF Refining, Progress
<1> QED BY <1>1, <1>2, PTL DEF Spec

\* Where nobody is asked and no failure can go unseen, nothing is excused.
LEMMA AllSeen ==
    ASSUME ErrorAnswers = {}, ~Unseen
    PROVE  \A j : ~Excused(j)
BY DEF Unseen, Careful, Excused

\* What an operation that is under way has made of the machine: each slot is as it
\* was, or empty, or as the operation wants it.
LEMMA PartlyDone ==
    ASSUME ErrorAnswers = {}, Refining, request # None
    PROVE  /\ request \in AllRequests
           /\ request.name \in {"Backup", "Startup", "Shutdown"} \/ request.simulate =>
                 machine = observed.machine
           /\ request.name = "Clean" =>
                 \A s \in Slots : machine[s] \in {observed.machine[s], "Absent"}
           /\ request.name = "Restore" /\ ~request.simulate =>
                 \A s \in Slots : machine[s] \in {observed.machine[s], "Absent", Saved(archive)[s]}
                                                    \cup (IF Unseen THEN {"Empty"} ELSE {})
<1> USE DEF Refining, Progress
<1>1. request \in AllRequests
  BY OrchestratorAssumption DEF TypedState, TypeOK
<1>2. request.name \in {"Backup", "Startup", "Shutdown"} \/ request.simulate =>
         machine = observed.machine
  BY DEF Remembered, Pure
<1>3. ASSUME request.name = "Clean" PROVE \A s \in Slots : machine[s] \in {observed.machine[s], "Absent"}
  <2>1. stage.phase \in Phases(request) \cup {"None"}
    BY DEF TypedState, Plan, StagesOf, NoStage, Stage
  <2> QED BY <1>3, <2>1 DEF Unwatched, Phases
<1>4. ASSUME Unseen, request.name = "Restore", NEW s \in Slots
      PROVE  machine[s] \in {observed.machine[s], "Absent", Saved(archive)[s], "Empty"}
  BY <1>4 DEF Unwatched
<1>5. ASSUME ~Unseen, request.name = "Restore", ~request.simulate, NEW s \in Slots
      PROVE  machine[s] \in {observed.machine[s], "Absent", Saved(archive)[s]}
  <2>1. s[1] \in Actions /\ s \in Of(s[1])  BY EverySlot
  <2>2. \A j : ~Excused(j)  BY <1>5, AllSeen
  <2>3. CASE stage.phase = "Restore"
    <3>1. PICK i \in Actions : stage = Stage("Restore", i)  BY <2>3, StageOfAction
    <3>2. s[1] < i => machine[s] = Saved(archive)[s]
      BY <1>5, <2>1, <2>2, <3>1 DEF Bringing, Brought
    <3>3. s[1] > i => machine[s] = "Absent"
      BY <1>5, <2>1, <2>2, <3>1 DEF Bringing, Emptied
    <3>4. s[1] = i => machine[s] \in {"Absent", Saved(archive)[s]}
      BY <1>5, <2>1, <2>2, <3>1 DEF Bringing
    <3>5. s[1] < i \/ s[1] > i \/ s[1] = i  BY <2>1, CountType
    <3> QED BY <3>2, <3>3, <3>4, <3>5
  <2>4. CASE stage.phase = "Startup"
    BY <1>5, <2>1, <2>2, <2>4 DEF Bringing, Brought
  <2>5. CASE stage.phase \in {"None", "Open", "Clean"}
    BY <1>5, <2>5 DEF Unwatched
  <2>6. stage.phase \in Phases(request) \cup {"None"}
    BY DEF TypedState, Plan, StagesOf, NoStage, Stage
  <2> QED BY <1>5, <2>3, <2>4, <2>5, <2>6 DEF Phases
<1> QED BY <1>1, <1>2, <1>3, <1>4, <1>5

\* What a restore would bring back is a part of what could be saved, when the archive
\* has nothing else.
LEMMA SavedIsPart ==
    ASSUME machine \in [Slots -> States], Orderly(machine), BasesMissing(archive),
           \A s \in Slots : Glimpsed(s)
    PROVE  /\ Saved(archive) = [s \in Slots |-> Saved(archive)[s]]
           /\ \A s \in Slots : Saved(archive)[s] \in {Saveable(machine)[s], "Absent"}
<1>1. \A s \in Slots : Blueprint[s[1]] = "Directory" => Written(s, machine) = machine[s]
  BY DEF Written
<1>2. ASSUME NEW i \in Actions, Blueprint[i] = "Directory", NEW k \in Entries(i), archive[<<i, k>>] # "Missing"
      PROVE  /\ machine[<<i, k>>] # "Absent" /\ <<i, k>> \notin Filtered
             /\ archive[<<i, k>>] = machine[<<i, k>>]
             /\ Present(i, machine) \ Excluded # {}
  <2>1. <<i, k>> \in Slots  BY <1>2, SlotsOf
  <2>2. /\ machine[<<i, k>>] # "Absent" /\ <<i, k>> \notin Filtered
        /\ archive[<<i, k>>] = machine[<<i, k>>]
    BY <1>1, <1>2, <2>1 DEF Glimpsed
  <2>3. k \notin Excluded  BY <2>1, <2>2 DEF Filtered
  <2> QED BY <2>2, <2>3 DEF Present
<1>3. ASSUME NEW s \in Slots PROVE Saved(archive)[s] \in {Saveable(machine)[s], "Absent"}
  <2>1. PICK i \in Actions : i = s[1]  BY EverySlot
  <2>2. s \in Of(i)  BY <2>1 DEF Of
  <2>3. Saveable(machine)[s] =
          IF s \in Filtered \/ (Blueprint[i] = "Directory" /\ Present(i, machine) \ Excluded = {})
          THEN "Absent" ELSE Written(s, machine)
    BY <2>1 DEF Saveable
  <2>4. Saved(archive)[s] =
          IF Base(s) THEN IF Stored(i, archive) = {} THEN "Absent" ELSE "Empty"
          ELSE IF archive[s] = "Missing" THEN "Absent" ELSE archive[s]
    BY <2>1 DEF Saved, Base
  <2>5. CASE Base(s) /\ Stored(i, archive) # {}
    <3>1. Blueprint[i] = "Directory" /\ s[2] = 0  BY <2>1, <2>5 DEF Base
    <3>2. PICK k \in Entries(i) : archive[<<i, k>>] # "Missing"  BY <2>5 DEF Stored
    <3>3. Present(i, machine) \ Excluded # {} /\ machine[<<i, k>>] # "Absent"  BY <1>2, <3>1, <3>2
    <3>4. s = <<i, 0>>
      <4>1. s # <<i, 0>> => \E n \in 1..DirSize : s = <<i, n>> /\ ~Base(<<i, n>>)
        BY <2>2, <3>1, SlotsOf
      <4> QED BY <2>5, <4>1
    <3>5. machine[s] = "Empty"  BY <2>5, <3>2, <3>3, <3>4 DEF Orderly, WellFormed
    <3>6. s \notin Filtered
      <4>1. 0 \notin Excluded  BY OrchestratorAssumption
      <4> QED BY <3>1, <4>1 DEF Filtered
    <3> QED BY <1>1, <2>1, <2>3, <2>4, <2>5, <3>1, <3>3, <3>5, <3>6
  <2>6. CASE ~Base(s) /\ Blueprint[i] = "Directory" /\ archive[s] # "Missing"
    <3>1. PICK k \in Entries(i) : s = <<i, k>>
      <4>1. s # <<i, 0>>  BY <2>1, <2>6 DEF Base
      <4> QED BY <2>2, <4>1, EntriesOf
    <3> QED BY <1>1, <1>2, <2>1, <2>3, <2>4, <2>6, <3>1
  <2>7. CASE Blueprint[i] # "Directory" /\ archive[s] # "Missing"
    <3>1. archive[s] \in {Written(s, machine), "Absent"} /\ s \notin Filtered /\ ~Base(s)
      BY <2>1, <2>7 DEF Glimpsed
    <3> QED BY <2>3, <2>4, <2>7, <3>1
  <2>8. CASE (Base(s) /\ Stored(i, archive) = {}) \/ (~Base(s) /\ archive[s] = "Missing")
    BY <2>4, <2>8
  <2> QED BY <2>5, <2>6, <2>7, <2>8
<1> QED BY <1>3 DEF Saved

\* What a backup that goes on writes is an image of InstallManager's.
LEMMA SavedIsImage ==
    ASSUME ErrorAnswers = {}, Refining, request.name = "Backup", stage.phase \in {"Seal", "Startup"}
    PROVE  Saved(archive) \in Manager!Images
<1> USE DEF Refining, Progress
<1>1. machine \in [Slots -> States] /\ Orderly(machine) /\ BasesMissing(archive)
  BY DEF Ordered, Sane, Orderly, TypedState, TypeOK
<1>2. machine = observed.machine  BY DEF Remembered
<1>3. CASE ~Unseen
  <2>1. \A j \in Actions : Recorded(j) /\ ~Excused(j)  BY <1>3, AllSeen DEF Recording
  <2>2. \A s \in Slots : Kept(s)  BY <2>1, EverySlot DEF Recorded
  <2>3. Saved(archive) = Saveable(machine)  BY <1>1, <2>2, SavedIsSaveable
  <2> QED BY <1>2, <1>3, <2>3 DEF Manager!Images
<1>4. CASE Unseen
  <2>1. \A s \in Slots : Glimpsed(s)  BY DEF Unwatched
  <2> DEFINE a == Saved(archive)
             b == Saveable(observed.machine)
             R == {b[s] : s \in Slots} \cup {"Absent"}
  <2>2. a = [s \in Slots |-> a[s]] /\ \A s \in Slots : a[s] \in {b[s], "Absent"}
    BY <1>1, <1>2, <2>1, SavedIsPart
  <2>3. Manager!Images = {image \in [Slots -> R] : \A s \in Slots : image[s] \in {b[s], "Absent"}}
    BY <1>4 DEF Manager!Images
  <2> HIDE DEF a, b
  <2>4. a \in [Slots -> R]  BY <2>2
  <2> QED BY <2>2, <2>3, <2>4 DEF a
<1> QED BY <1>3, <1>4

\* What an operation that is under way has made of the snapshot, were it to end now.
LEMMA SavedNow ==
    ASSUME ErrorAnswers = {}, Refining, request # None
    PROVE  /\ request.name # "Backup" => snapshot # "Open" /\ Observed.saved = observed.saved
           /\ request.name = "Restore" => observed.saved = {Saved(archive)}
           /\ request.name = "Backup" /\ snapshot = "Complete" =>
                 {Saved(archive)} = observed.saved \/ Saved(archive) \in Manager!Images
           /\ request.name = "Backup" /\ stage.phase = "Startup" =>
                 snapshot = "Complete" /\ Saved(archive) \in Manager!Images
<1> USE DEF Refining, Progress
<1>1. Observed.saved = IF snapshot = "Complete" THEN {Saved(archive)} ELSE {}  BY DEF Observed
<1>2. request.name # "Backup" => snapshot # "Open" /\ Observed.saved = observed.saved
  BY DEF Remembered, TypedState, TypeOK
<1>3. request.name = "Restore" => observed.saved = {Saved(archive)}
  BY <1>1, <1>2 DEF Remembered
<1>4. request.name = "Backup" => stage.phase \in {"None", "Shutdown", "Create", "Backup", "Seal", "Startup"}
  BY DEF TypedState, Plan, StagesOf, NoStage, Stage, Phases
<1>5. ASSUME request.name = "Backup", snapshot = "Complete"
      PROVE  {Saved(archive)} = observed.saved \/ Saved(archive) \in Manager!Images
  <2>1. CASE stage.phase \in {"None", "Shutdown"} \/ (stage.phase = "Create" /\ script # <<>>)
    BY <1>1, <1>5, <2>1 DEF Remembered
  <2>2. ~(stage.phase = "Create" /\ script = <<>>) /\ stage.phase # "Backup"
    BY <1>5 DEF Recording
  <2>3. CASE stage.phase \in {"Seal", "Startup"}  BY <1>5, <2>3, SavedIsImage
  <2> QED BY <1>4, <1>5, <2>1, <2>2, <2>3
<1>6. request.name = "Backup" /\ stage.phase = "Startup" =>
         snapshot = "Complete" /\ Saved(archive) \in Manager!Images
  BY SavedIsImage DEF Recording
<1> QED BY <1>2, <1>3, <1>5, <1>6

\* What a step that fails, or throws, leaves of the machine: at most the slot it was at is
\* not as the operation had left it, and that in a restore or a clean.
LEMMA BrokenAtOne ==
    ASSUME Refining, request # None, FailStep \/ Throw
    PROVE  /\ request.name \in {"Backup", "Startup", "Shutdown"} \/ request.simulate => machine' = machine
           /\ \/ machine' = machine
              \/ \E t \in Slots : /\ machine'[t] \in {"Absent", "Empty", "Torn"}
                                  /\ \A s \in Slots \ {t} : machine'[s] = machine[s]
<1> USE DEF Refining, Progress
<1>1. script # <<>> /\ machine' \in Wreckage(step, machine)  BY Breaking
<1>2. request.simulate => machine' = machine
  BY DryExecute DEF Execute, resources
<1>3. SUFFICES ASSUME machine' # machine
               PROVE  /\ request.name \notin {"Backup", "Startup", "Shutdown"}
                      /\ \E t \in Slots : /\ machine'[t] \in {"Absent", "Empty", "Torn"}
                                          /\ \A s \in Slots \ {t} : machine'[s] = machine[s]
  BY <1>2
<1>4. /\ stage.phase \in {"Clean", "Restore"} /\ step.slot \in Slots
      /\ \E v \in Partial(step) : machine' = [machine EXCEPT ![step.slot] = v]
  BY <1>1, <1>3, Wrecked
<1>5. Partial(step) \subseteq {"Absent", "Empty", "Torn"}  BY DEF Partial
<1>6. machine \in [Slots -> States]  BY DEF TypedState, TypeOK
<1>7. stage.phase \in Phases(request)  BY <1>4 DEF TypedState, Plan, StagesOf, NoStage, Stage
<1>8. request.name \notin {"Backup", "Startup", "Shutdown"}  BY <1>4, <1>7 DEF Phases
<1> QED BY <1>4, <1>5, <1>6, <1>8

\* An operation that ends does what InstallManager has for its name and outcome.
LEMMA SuccessImplements ==
    ASSUME ErrorAnswers = {}, Refining, Succeed
    PROVE  Manager!Next
<1>1. /\ request \in AllRequests /\ request # None /\ stage = Last(request)
      /\ machine \in [Slots -> States]
  BY Succeeded DEF Refining
<1>2. /\ outcome' = <<IF request.simulate THEN "DryRun" ELSE request.name, "success">>
      /\ observed' = Observed' /\ UNCHANGED <<machine, archive, snapshot>>
  BY DEF Succeed, Stop, resources
<1>3. observed'.machine = machine /\ observed'.saved = Observed.saved
  BY <1>2 DEF Observed
<1>4. ~Unseen => \A i \in Actions : ~Excused(i)  BY AllSeen
<1>5. Observed.saved = IF snapshot = "Complete" THEN {Saved(archive)} ELSE {}  BY DEF Observed
<1>6. CASE request.simulate \/ request.name \in {"Startup", "Shutdown"}
  <2>1. observed'.machine = observed.machine  BY <1>1, <1>3, <1>6, PartlyDone
  <2>2. observed'.saved = observed.saved
    BY <1>1, <1>3, <1>6, SavedNow DEF AllRequests
  <2>3. outcome' \in {<<"DryRun", "success">>, <<"Startup", "success">>, <<"Shutdown", "success">>}
    BY <1>2, <1>6
  <2>4. Manager!ChangeNothing
    BY <2>1, <2>2, <2>3 DEF Manager!ChangeNothing, Manager!Succeeds
  <2> QED BY <2>4 DEF Manager!Next
<1>7. CASE request.name = "Backup" /\ ~request.simulate
  <2>1. stage.phase = "Startup"  BY <1>1, <1>7 DEF Last, Stage
  <2>2. observed'.saved = {Saved(archive)} /\ Saved(archive) \in Manager!Images
    BY <1>1, <1>3, <1>5, <1>7, <2>1, SavedNow
  <2>3. observed'.machine = observed.machine  BY <1>1, <1>3, <1>7, PartlyDone
  <2>4. outcome' = <<"Backup", "success">>  BY <1>2, <1>7
  <2>5. Manager!Backup  BY <2>2, <2>3, <2>4 DEF Manager!Backup, Manager!Succeeds
  <2> QED BY <2>5 DEF Manager!Next
<1>8. CASE request.name = "Restore" /\ ~request.simulate
  <2>1. stage.phase = "Startup"  BY <1>1, <1>8 DEF Last, Stage
  <2>2. ~Unseen => machine = Saved(archive)  BY <1>4, <1>8, <2>1, BroughtAll DEF Refining
  <2>3. observed'.saved = observed.saved /\ observed.saved = {Saved(archive)}
    BY <1>1, <1>3, <1>8, SavedNow
  <2>4. outcome' = <<"Restore", "success">>  BY <1>2, <1>8
  <2>5. Manager!Partly(Manager!Filling(Saved(archive)))
    BY <1>1, <1>3, <1>8, PartlyDone DEF Manager!Partly, Manager!Filling
  <2>6. Manager!Restore
    BY <1>3, <2>2, <2>3, <2>4, <2>5 DEF Manager!Restore, Manager!Succeeds
  <2> QED BY <2>6 DEF Manager!Next
<1>9. CASE request.name = "Clean" /\ ~request.simulate
  <2>1. ~Unseen => machine = [s \in Slots |-> "Absent"]  BY <1>4, <1>9, CleanedAll DEF Refining
  <2>2. observed'.saved = observed.saved  BY <1>1, <1>3, <1>9, SavedNow
  <2>3. outcome' = <<"Clean", "success">>  BY <1>2, <1>9
  <2>4. Manager!Partly(Manager!Emptying)
    BY <1>1, <1>3, <1>9, PartlyDone DEF Manager!Partly, Manager!Emptying
  <2>5. Manager!Clean  BY <1>3, <2>1, <2>2, <2>3, <2>4 DEF Manager!Clean, Manager!Succeeds
  <2> QED BY <2>5 DEF Manager!Next
<1> QED BY <1>1, <1>6, <1>7, <1>8, <1>9 DEF AllRequests

\* What an operation has done so far, and the step that ends it, make no more than
\* one slot other than they may be on the way.
LEMMA PartlyOrBroken ==
    ASSUME NEW way, observed'.machine = machine',
           \A s \in Slots : machine[s] \in way[s] /\ "Absent" \in way[s],
           \/ machine' = machine
           \/ \E t \in Slots : /\ machine'[t] \in {"Absent", "Empty", "Torn"}
                               /\ \A s \in Slots \ {t} : machine'[s] = machine[s]
    PROVE  Manager!Partly(way) \/ Manager!Broken(way)
<1>1. CASE machine' = machine  BY <1>1 DEF Manager!Partly
<1>2. ASSUME NEW t \in Slots, machine'[t] \in {"Absent", "Empty", "Torn"},
             \A s \in Slots \ {t} : machine'[s] = machine[s]
      PROVE  Manager!Partly(way) \/ Manager!Broken(way)
  <2>1. CASE machine'[t] = "Absent"  BY <1>2, <2>1 DEF Manager!Partly
  <2>2. CASE machine'[t] \in {"Empty", "Torn"}  BY <1>2, <2>2 DEF Manager!Broken
  <2> QED BY <1>2, <2>1, <2>2
<1> QED BY <1>1, <1>2

LEMMA FailureImplements ==
    ASSUME ErrorAnswers = {}, Refining, request # None, Abandon, FailStep \/ Throw
    PROVE  Manager!Next
<1>0. archive' = archive  BY Breaking DEF Refining, Progress
<1>1. request \in AllRequests  BY PartlyDone
<1>2. /\ outcome' = <<IF request.simulate THEN "DryRun" ELSE request.name, "failure">>
      /\ observed' = Observed'
      /\ snapshot' = IF snapshot = "Open" THEN "Partial" ELSE snapshot
  BY DEF Abandon, Stop
<1>3. observed'.machine = machine'
      /\ observed'.saved = IF snapshot' = "Complete" THEN {Saved(archive)} ELSE {}
  BY <1>0, <1>2 DEF Observed
<1>4. Observed.saved = IF snapshot = "Complete" THEN {Saved(archive)} ELSE {}  BY DEF Observed
<1>5. request.name # "Backup" => observed'.saved = observed.saved
  BY <1>2, <1>3, <1>4, SavedNow
<1>6. CASE request.simulate \/ request.name \in {"Startup", "Shutdown"}
  <2>1. observed'.machine = observed.machine  BY <1>1, <1>3, <1>6, PartlyDone, BrokenAtOne
  <2>2. observed'.saved = observed.saved  BY <1>1, <1>5, <1>6 DEF AllRequests
  <2>3. outcome' \in {<<"DryRun", "failure">>, <<"Startup", "failure">>, <<"Shutdown", "failure">>}
    BY <1>2, <1>6
  <2>4. Manager!ChangeNothing
    BY <2>1, <2>2, <2>3 DEF Manager!ChangeNothing, Manager!Fails
  <2> QED BY <2>4 DEF Manager!Next
<1>7. CASE request.name = "Backup" /\ ~request.simulate
  <2>1. observed'.saved \in {observed.saved, {}} \cup {{image} : image \in Manager!Images}
    BY <1>2, <1>3, <1>7, SavedNow
  <2>2. observed'.machine = observed.machine  BY <1>3, <1>7, PartlyDone, BrokenAtOne
  <2>3. outcome' = <<"Backup", "failure">>  BY <1>2, <1>7
  <2>4. Manager!FailedBackup  BY <2>1, <2>2, <2>3 DEF Manager!FailedBackup, Manager!Fails
  <2> QED BY <2>4 DEF Manager!Next
<1>8. CASE request.name = "Restore" /\ ~request.simulate
  <2> DEFINE way == Manager!Filling(Saved(archive))
  <2>1. observed.saved = {Saved(archive)} /\ observed'.saved = observed.saved
    BY <1>5, <1>8, SavedNow
  <2>2. \A s \in Slots : machine[s] \in way[s] /\ "Absent" \in way[s]
    BY <1>8, PartlyDone DEF Manager!Filling
  <2> HIDE DEF way
  <2>3. Manager!Partly(way) \/ Manager!Broken(way)  BY <1>3, <2>2, BrokenAtOne, PartlyOrBroken
  <2>4. outcome' = <<"Restore", "failure">>  BY <1>2, <1>8
  <2>5. Manager!FailedRestore
    BY <2>1, <2>3, <2>4 DEF Manager!FailedRestore, Manager!Fails, way
  <2> QED BY <2>5 DEF Manager!Next
<1>9. CASE request.name = "Clean" /\ ~request.simulate
  <2> DEFINE way == Manager!Emptying
  <2>1. observed'.saved = observed.saved  BY <1>5, <1>9
  <2>2. \A s \in Slots : machine[s] \in way[s] /\ "Absent" \in way[s]
    BY <1>9, PartlyDone DEF Manager!Emptying
  <2> HIDE DEF way
  <2>3. Manager!Partly(way) \/ Manager!Broken(way)  BY <1>3, <2>2, BrokenAtOne, PartlyOrBroken
  <2>4. outcome' = <<"Clean", "failure">>  BY <1>2, <1>9
  <2>5. Manager!FailedClean
    BY <2>1, <2>3, <2>4 DEF Manager!FailedClean, Manager!Fails, way
  <2> QED BY <2>5 DEF Manager!Next
<1> QED BY <1>1, <1>6, <1>7, <1>8, <1>9 DEF AllRequests

\* Where nobody is asked and simulate is heeded, the operations are those of
\* InstallManager, whatever fails, goes unseen or throws, and wherever the process
\* dies.  A dry run changes nothing.  If no failure can go unseen, a backup that
\* succeeds saves what there is, a restore puts it back and a clean leaves
\* nothing; if one can, each may have left gaps, and a restored file may be
\* empty.  An operation that says it has failed, or dies, has done a part of its
\* work, may have torn one slot, and has done nothing else.
THEOREM PromiseIsKept ==
    ASSUME ErrorAnswers = {}, Heeded
    PROVE  Spec => KeepsItsPromise
<1>1. Init => Manager!Init
  <2> SUFFICES ASSUME Init PROVE Manager!Init
    OBVIOUS
  <2>1. observed = Observed /\ machine \in Machines /\ snapshot = "None" /\ outcome = <<"None", "none">>
    BY DEF Init
  <2>2. observed.machine = machine /\ observed.saved = {}  BY <2>1 DEF Observed
  <2> QED BY <2>1, <2>2 DEF Manager!Init
<1>2. Refining /\ [Next]_vars => [Manager!Next]_(Manager!vars)
  <2> SUFFICES ASSUME Refining, [Next]_vars PROVE [Manager!Next]_(Manager!vars)
    OBVIOUS
  <2>1. ASSUME UNCHANGED <<observed, outcome>> PROVE UNCHANGED Manager!vars
    <3>1. observed'.machine = observed.machine /\ observed'.saved = observed.saved  BY <2>1
    <3> QED BY <2>1, <3>1 DEF Manager!vars
  <2>2. CASE \/ \E r \in Requests : Begin(r)
             \/ EnterStage \/ (Stays /\ Work) \/ UNCHANGED vars
    BY <2>1, <2>2 DEF Begin, EnterStage, Stays, vars, history
  <2>3. CASE Succeed  BY <2>3, SuccessImplements
  <2>4. CASE request # None /\ Abandon /\ (FailStep \/ Throw)
    BY <2>4, FailureImplements
  <2>5. CASE Use
    <3>1. /\ request = None /\ machine' \in Machines /\ outcome' = <<"None", "none">>
          /\ observed' = Observed' /\ UNCHANGED <<archive, snapshot>>
      BY <2>5 DEF Use, Idle
    <3>2. observed = Observed  BY <3>1 DEF Refining, Progress, Remembered
    <3>3. observed'.machine = machine' /\ observed'.saved = observed.saved
      BY <3>1, <3>2 DEF Observed
    <3>4. Manager!Use  BY <3>1, <3>3 DEF Manager!Use
    <3> QED BY <3>4 DEF Manager!Next
  <2>6. TypedState  BY DEF Refining, Progress
  <2> QED BY <2>2, <2>3, <2>4, <2>5, <2>6, Cases
<1> QED BY <1>1, <1>2, AlwaysRefining, PTL DEF Spec, KeepsItsPromise, Manager!Spec
=============================================================================
