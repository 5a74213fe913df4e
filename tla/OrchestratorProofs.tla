-------------------------- MODULE OrchestratorProofs --------------------------
(***************************************************************************)
(* What TLAPS proves about Orchestrator, for every blueprint, every size   *)
(* of directory, every filter, every list of hooks, every callback, every  *)
(* fault and every bound; and the lemmas that ProgressProofs needs: in     *)
(* which order an operation goes through its stages, which steps a stage   *)
(* can hold, and what each of them does.                                   *)
(***************************************************************************)
EXTENDS Orchestrator, SequenceTheorems, TLAPS

(* Which steps the stages of an operation can hold.                        *)

\* The protocols under which Abort, where it can be answered at all, fails the
\* step: all but check_archive_exists.
Firm ==
    {HookError("Startup"), HookError("Shutdown"), WriterError, Unasked, Unlisted, EntryError,
     FileError, FileMissing, ValueError, ValueMissing, KeyError, CleanError, Conflict}

AllSlots == Slots \cup {NoSlot}

StepSet(deeds, sites) == [do : deeds, slot : AllSlots, site : sites]

\* What an action does to the machine and the archive, and what a dry run does.
Changes == {"save", "parent", "mkdir", "put", "drop"}

Looks == {"exists", "list", "lookup", "conflict", "pass", "clean"}

StepsIn(phase) ==
    CASE phase \in {"Startup", "Shutdown"} -> StepSet({"hook", "pass"}, Firm)
      [] phase = "Create" -> StepSet({"create"}, {WriterError})
      [] phase = "Seal" -> StepSet({"seal"}, {WriterError})
      [] phase = "Open" -> StepSet({"open"}, {WriterError})
      [] phase \in {"Backup", "Clean"} -> StepSet(Looks \cup Changes, Firm)
      [] phase = "Restore" -> StepSet(Looks \cup Changes, Firm \cup {check_archive_exists})
      [] OTHER -> {}

StageSet ==
    [phase : {"Startup", "Shutdown", "Create", "Seal", "Open"}, action : {0}]
    \cup [phase : {"Backup", "Clean", "Restore"}, action : Actions]

LEMMA FirmAbort ==
    \A p \in Firm : DOMAIN p.answers # {} => p.answers["Abort"] = "fail"
BY DEF Firm, HookError, WriterError, Unasked, Unlisted, EntryError, FileError, FileMissing,
   ValueError, ValueMissing, KeyError, CleanError, Conflict, Protocol, Answers, handle_decision,
   Decisions

LEMMA ActionsAreSlots ==
    \A i \in Actions : /\ <<i, 0>> \in AllSlots /\ Blueprint[i] \in Kinds
                       /\ \A k \in Entries(i) : <<i, k>> \in AllSlots
BY OrchestratorAssumption DEF AllSlots, Slots, Actions

\* A step is in its set when its parts are.
LEMMA StepTyped ==
    ASSUME NEW D, NEW P, NEW d \in D, NEW s \in AllSlots, NEW p \in P
    PROVE  Step(d, s, p) \in StepSet(D, P)
BY DEF Step, StepSet

\* The loop over the entries of a directory.
LEMMA ForEachTyped ==
    ASSUME NEW D, NEW P, NEW d \in D, "pass" \in D, NEW i \in Actions, NEW p \in P,
           Blueprint[i] = "Directory", NEW E
    PROVE  ForEach(d, i, E, p) \in Seq(StepSet(D, P))
<1> DEFINE loop == [k \in 1..DirSize |-> Step(IF k \in E THEN d ELSE "pass", <<i, k>>, p)]
<1>1. \A k \in 1..DirSize : <<i, k>> \in AllSlots  BY ActionsAreSlots DEF Entries
<1>2. \A k \in 1..DirSize : loop[k] \in StepSet(D, P)  BY <1>1, StepTyped
<1>3. loop \in [1..DirSize -> StepSet(D, P)]  BY <1>2
<1>4. loop \in Seq(StepSet(D, P))  BY <1>3, SeqDef, OrchestratorAssumption
<1> QED BY <1>4 DEF ForEach

\* Short scripts, and scripts one after the other.
LEMMA Scripts ==
    ASSUME NEW S
    PROVE  /\ <<>> \in Seq(S)
           /\ \A a \in S : <<a>> \in Seq(S)
           /\ \A a, b \in S : <<a, b>> \in Seq(S)
           /\ \A a, b, c \in S : <<a, b, c>> \in Seq(S)
           /\ \A s, t \in Seq(S) : s \o t \in Seq(S)
           /\ \A c \in BOOLEAN : \A s \in Seq(S) : Real(c, s) \in Seq(S)
BY DEF Real

\* The steps of every action are of the kinds its stage allows.
LEMMA BackupTyped ==
    ASSUME NEW i \in Actions, NEW m
    PROVE  BackupSteps(i, m) \in Seq(StepSet(Looks \cup Changes, Firm))
<1> DEFINE T == StepSet(Looks \cup Changes, Firm)
<1>1. \A d \in Looks \cup Changes, p \in Firm : Step(d, <<i, 0>>, p) \in T
  BY StepTyped, ActionsAreSlots
<1>2. {"exists", "list", "save", "pass"} \subseteq Looks \cup Changes  BY DEF Looks, Changes
<1>3. {FileMissing, FileError, Unasked, EntryError, ValueError, ValueMissing} \subseteq Firm  BY DEF Firm
<1>4. FileBackup(i) \in Seq(T)  BY <1>1, <1>2, <1>3, Scripts DEF FileBackup
<1>5. ASSUME Blueprint[i] = "Directory" PROVE DirectoryBackup(i, m) \in Seq(T)
  <2>1. backup_files(i, m) \in Seq(T)
    BY <1>2, <1>3, <1>5, ForEachTyped DEF backup_files
  <2>2. <<Step("exists", <<i, 0>>, FileMissing), Step("list", <<i, 0>>, Unasked)>> \in Seq(T)
    BY <1>1, <1>2, <1>3, Scripts
  <2> HIDE DEF T
  <2> QED BY <2>1, <2>2, Scripts DEF DirectoryBackup
<1>6. ListBackup(i) \in Seq(T)  BY <1>1, <1>2, <1>3, Scripts DEF ListBackup
<1>7. EnvironmentBackup(i) \in Seq(T)  BY <1>1, <1>2, <1>3, Scripts DEF EnvironmentBackup
<1>8. HostsBackup(i) \in Seq(T)  BY <1>1, <1>2, <1>3, Scripts DEF HostsBackup
<1>9. ServiceBackup(i) \in Seq(T)  BY <1>1, <1>2, <1>3, Scripts DEF ServiceBackup
<1>10. RegistryBackup(i) \in Seq(T)  BY <1>1, <1>2, <1>3, Scripts DEF RegistryBackup
<1> HIDE DEF T
<1>11. BackupSteps(i, m) \in Seq(T)
  BY <1>4, <1>5, <1>6, <1>7, <1>8, <1>9, <1>10, ActionsAreSlots DEF BackupSteps, Kinds
<1> QED BY <1>11 DEF T

LEMMA CleanTyped ==
    ASSUME NEW i \in Actions, NEW m, NEW simulate \in BOOLEAN
    PROVE  CleanSteps(i, m, simulate) \in Seq(StepSet(Looks \cup Changes, Firm))
<1> DEFINE T == StepSet(Looks \cup Changes, Firm)
<1>1. \A d \in Looks \cup Changes, p \in Firm : Step(d, <<i, 0>>, p) \in T
  BY StepTyped, ActionsAreSlots
<1>2. {"list", "drop", "pass"} \subseteq Looks \cup Changes  BY DEF Looks, Changes
<1>3. {Unasked, Unlisted, EntryError, KeyError} \subseteq Firm  BY DEF Firm
<1>4. Gone(i, m) \in BOOLEAN /\ (simulate \/ Gone(i, m)) \in BOOLEAN  BY DEF Gone
<1>5. <<Step("drop", <<i, 0>>, Unasked)>> \in Seq(T) /\ <<Step("drop", <<i, 0>>, KeyError)>> \in Seq(T)
  BY <1>1, <1>2, <1>3, Scripts
<1>6. ASSUME Blueprint[i] = "Directory" PROVE DirectoryClean(i, m, simulate) \in Seq(T)
  <2>1. clean_files(i, m) \in Seq(T)
    BY <1>2, <1>3, <1>6, ForEachTyped DEF clean_files
  <2>2. <<Step("list", <<i, 0>>, Unlisted)>> \in Seq(T) /\ clean_directories(i) \in Seq(T)
    BY <1>1, <1>2, <1>3, Scripts DEF clean_directories
  <2> HIDE DEF T
  <2> QED BY <1>4, <2>1, <2>2, Scripts DEF DirectoryClean
<1> HIDE DEF T
<1>7. FileClean(i, m, simulate) \in Seq(T)  BY <1>4, <1>5, Scripts DEF FileClean
<1>8. ListClean(i) \in Seq(T)  BY <1>5 DEF ListClean
<1>9. EnvironmentClean(i, simulate) \in Seq(T)  BY <1>5, Scripts DEF EnvironmentClean
<1>10. HostsClean(i, simulate) \in Seq(T)  BY <1>5, Scripts DEF HostsClean
<1>11. ServiceClean(i, simulate) \in Seq(T)  BY <1>5, Scripts DEF ServiceClean
<1>12. RegistryClean(i, m, simulate) \in Seq(T)  BY <1>4, <1>5, Scripts DEF RegistryClean
<1>13. CleanSteps(i, m, simulate) \in Seq(T)
  BY <1>6, <1>7, <1>8, <1>9, <1>10, <1>11, <1>12, ActionsAreSlots DEF CleanSteps, Kinds
<1> QED BY <1>13 DEF T

LEMMA RestoreTyped ==
    ASSUME NEW i \in Actions, NEW a, NEW simulate \in BOOLEAN
    PROVE  RestoreSteps(i, a, simulate) \in Seq(StepSet(Looks \cup Changes, Firm \cup {check_archive_exists}))
<1> DEFINE P == Firm \cup {check_archive_exists}
           T == StepSet(Looks \cup Changes, P)
<1>1. \A d \in Looks \cup Changes, p \in P : Step(d, <<i, 0>>, p) \in T
  BY StepTyped, ActionsAreSlots
<1>2. {"lookup", "conflict", "parent", "mkdir", "put", "pass"} \subseteq Looks \cup Changes
  BY DEF Looks, Changes
<1>3. {FileError, EntryError, ValueError, Conflict, check_archive_exists} \subseteq P  BY DEF Firm
<1>4. (a[<<i, 0>>] = "Missing") \in BOOLEAN /\ (simulate \/ a[<<i, 0>>] = "Missing") \in BOOLEAN
  OBVIOUS
<1>5. Lookup(i) \in Seq(T)  BY <1>1, <1>2, <1>3, Scripts DEF Lookup
<1>6. <<Step("put", <<i, 0>>, ValueError)>> \in Seq(T)  BY <1>1, <1>2, <1>3, Scripts
<1>7. <<Step("conflict", <<i, 0>>, Conflict), Step("parent", <<i, 0>>, FileError),
        Step("put", <<i, 0>>, FileError)>> \in Seq(T)
  BY <1>1, <1>2, <1>3, Scripts
<1>8. <<Step("conflict", <<i, 0>>, Conflict), Step("mkdir", <<i, 0>>, FileError)>> \in Seq(T)
  BY <1>1, <1>2, <1>3, Scripts
<1>9. ASSUME Blueprint[i] = "Directory" PROVE restore_files(i, a) \in Seq(T)
  BY <1>2, <1>3, <1>9, ForEachTyped DEF restore_files
<1> HIDE DEF T
<1>10. ASSUME Blueprint[i] = "Directory" PROVE DirectoryRestore(i, a, simulate) \in Seq(T)
  BY <1>5, <1>8, <1>9, <1>10, Scripts DEF DirectoryRestore
<1>11. FileRestore(i, simulate) \in Seq(T)  BY <1>5, <1>7, Scripts DEF FileRestore
<1>12. ListRestore(i) \in Seq(T)  BY <1>5, <1>6, Scripts DEF ListRestore
<1>13. EnvironmentRestore(i, simulate) \in Seq(T)  BY <1>5, <1>6, Scripts DEF EnvironmentRestore
<1>14. HostsRestore(i, simulate) \in Seq(T)  BY <1>5, <1>6, Scripts DEF HostsRestore
<1>15. ServiceRestore(i, a, simulate) \in Seq(T)  BY <1>4, <1>5, <1>6, Scripts DEF ServiceRestore
<1>16. RegistryRestore(i, a, simulate) \in Seq(T)  BY <1>4, <1>5, <1>6, Scripts DEF RegistryRestore
<1>17. RestoreSteps(i, a, simulate) \in Seq(T)
  BY <1>10, <1>11, <1>12, <1>13, <1>14, <1>15, <1>16, ActionsAreSlots DEF RestoreSteps, Kinds
<1> QED BY <1>17 DEF T

LEMMA HooksTyped ==
    ASSUME NEW lifecycle \in {"Startup", "Shutdown"}, NEW force
    PROVE  HookSteps(lifecycle, force) \in Seq(StepSet({"hook", "pass"}, Firm))
<1> DEFINE T == StepSet({"hook", "pass"}, Firm)
           hooks == HookSteps(lifecycle, force)
<1>1. Len(Hooks[lifecycle]) \in Nat  BY OrchestratorAssumption
<1>2. NoSlot \in AllSlots /\ HookError(lifecycle) \in Firm  BY DEF AllSlots, Firm
<1>3. \A n \in 1..Len(Hooks[lifecycle]) :
         Step(IF Hooks[lifecycle][n] = "always" \/ force THEN "hook" ELSE "pass", NoSlot, HookError(lifecycle)) \in T
  BY <1>2, StepTyped
<1>4. hooks \in [1..Len(Hooks[lifecycle]) -> T]  BY <1>3 DEF HookSteps
<1> HIDE DEF T, hooks
<1>5. hooks \in Seq(T)  BY <1>1, <1>4, SeqDef
<1> QED BY <1>5 DEF T, hooks

\* What EnterStage puts in the script is what the stage allows.
LEMMA StepsTyped ==
    ASSUME NEW st \in StageSet, request \in AllRequests
    PROVE  Steps(st) \in Seq(StepsIn(st.phase))
<1>1. request.simulate \in BOOLEAN  BY DEF AllRequests
<1>2. CASE st.phase \in {"Shutdown", "Startup"}
  BY <1>2, HooksTyped DEF Steps, StepsIn
<1>3. CASE st.phase \in {"Create", "Seal", "Open"}
  <2>1. NoSlot \in AllSlots  BY DEF AllSlots
  <2>2. /\ Step("create", NoSlot, WriterError) \in StepSet({"create"}, {WriterError})
        /\ Step("seal", NoSlot, WriterError) \in StepSet({"seal"}, {WriterError})
        /\ Step("open", NoSlot, WriterError) \in StepSet({"open"}, {WriterError})
    BY <2>1, StepTyped
  <2> QED BY <1>3, <2>2, Scripts DEF Steps, StepsIn
<1>4. CASE st.phase \in {"Backup", "Clean", "Restore"}
  <2>1. st.action \in Actions  BY <1>4 DEF StageSet
  <2> QED BY <1>1, <1>4, <2>1, BackupTyped, CleanTyped, RestoreTyped DEF Steps, StepsIn
<1> QED BY <1>2, <1>3, <1>4 DEF StageSet

-----------------------------------------------------------------------------
(* The inductive invariant of the types.                                   *)

\* The phases of an operation.
Phases(r) ==
    CASE r.name = "Backup" -> {"Shutdown", "Create", "Backup", "Seal", "Startup"}
      [] r.name = "Restore" ->
            {"Open", "Clean", "Restore"} \cup (IF r.simulate THEN {} ELSE {"Startup"})
      [] r.name = "Clean" -> {"Clean"} \cup (IF r.simulate THEN {} ELSE {"Shutdown"})
      [] r.name = "Startup" -> {"Startup"}
      [] r.name = "Shutdown" -> {"Shutdown"}
      [] OTHER -> {}

StagesOf(r) == {st \in StageSet : st.phase \in Phases(r)}

\* Agenda, stage and script fit the operation that is executed.
Plan ==
    /\ agenda \in Seq(StagesOf(request))
    /\ stage \in StagesOf(request) \cup {NoStage}
    /\ script \in Seq(StepsIn(stage.phase))

SealComes == \E n \in 1..Len(agenda) : agenda[n].phase = "Seal"

\* A backup whose archive is open, or about to be, still has to seal it.
Sealing ==
    /\ snapshot = "Open" => SealComes \/ (stage.phase = "Seal" /\ script # <<>>)
    /\ stage.phase = "Create" /\ script # <<>> => SealComes
    /\ \A m \in 1..Len(agenda) :
          agenda[m].phase = "Create" => \E n \in (m + 1)..Len(agenda) : agenda[n].phase = "Seal"

TypedState == TypeOK /\ Plan /\ Sealing

LEMMA StagesTyped ==
    ASSUME NEW r \in AllRequests
    PROVE  /\ Stages(r) \in Seq(StagesOf(r))
           /\ \A m \in 1..Len(Stages(r)) :
                 Stages(r)[m].phase = "Create" =>
                    \E n \in (m + 1)..Len(Stages(r)) : Stages(r)[n].phase = "Seal"
<1> DEFINE T == StagesOf(r)
<1>1. \A p \in {"Startup", "Shutdown", "Create", "Seal", "Open"} \cap Phases(r) : Stage(p, 0) \in T
  BY DEF Stage, StagesOf, StageSet
<1>2. \A p \in {"Backup", "Clean", "Restore"} \cap Phases(r) :
         Forward(p) \in Seq(T) /\ Backward(p) \in Seq(T) /\ Len(Forward(p)) = Len(Blueprint)
  <2> TAKE p \in {"Backup", "Clean", "Restore"} \cap Phases(r)
  <2>1. \A n \in Actions : Stage(p, n) \in T  BY DEF Stage, StagesOf, StageSet
  <2>2. Len(Blueprint) \in Nat  BY OrchestratorAssumption
  <2>3. \A n \in Actions : Len(Blueprint) + 1 - n \in Actions  BY <2>2 DEF Actions
  <2> HIDE DEF T
  <2>4. Forward(p) \in [1..Len(Blueprint) -> T] /\ Backward(p) \in [1..Len(Blueprint) -> T]
    BY <2>1, <2>3 DEF Forward, Backward, Actions
  <2> QED BY <2>2, <2>4, SeqDef
<1>3. r.name \in {"Backup", "Restore", "Clean", "Startup", "Shutdown"} /\ r.simulate \in BOOLEAN
  BY DEF AllRequests
<1>4. CASE r.name = "Backup"
  <2> DEFINE head == <<Stage("Shutdown", 0)>> \o <<Stage("Create", 0)>>
             saving == head \o Forward("Backup")
             sealed == saving \o <<Stage("Seal", 0)>>
             all == sealed \o <<Stage("Startup", 0)>>
             L == Len(Blueprint)
  <2>1. Stages(r) = all  BY <1>4 DEF Stages
  <2>2. {"Shutdown", "Create", "Backup", "Seal", "Startup"} \subseteq Phases(r)  BY <1>4 DEF Phases
  <2>3. Stage("Shutdown", 0) \in T /\ Stage("Create", 0) \in T /\ Stage("Seal", 0) \in T
        /\ Stage("Startup", 0) \in T
    BY <1>1, <2>2
  <2>4. Forward("Backup") \in Seq(T) /\ Len(Forward("Backup")) = L /\ L \in Nat
    BY <1>2, <2>2, OrchestratorAssumption
  <2> HIDE DEF T
  <2>5. head \in Seq(T) /\ Len(head) = 2  BY <2>3
  <2> HIDE DEF head
  <2>6. saving \in Seq(T) /\ Len(saving) = L + 2
    <3> DEFINE loop == Forward("Backup")
    <3>1. loop \in Seq(T) /\ Len(loop) = L /\ L \in Nat  BY <2>4
    <3> HIDE DEF loop, L
    <3>2. head \o loop \in Seq(T) /\ Len(head \o loop) = Len(head) + Len(loop)
      BY <2>5, <3>1, ConcatProperties
    <3>3. Len(head \o loop) = L + 2  BY <2>5, <3>1, <3>2
    <3> QED BY <3>2, <3>3 DEF loop
  <2> HIDE DEF saving
  <2>7. sealed \in Seq(T) /\ Len(sealed) = L + 3 /\ sealed[L + 3] = Stage("Seal", 0)
    BY <2>3, <2>4, <2>6
  <2> HIDE DEF sealed
  <2>8. /\ all \in Seq(T) /\ Len(all) = L + 4
        /\ all[L + 3] = Stage("Seal", 0) /\ all[L + 4] = Stage("Startup", 0)
    BY <2>3, <2>4, <2>7
  <2> HIDE DEF all, L
  <2>9. ASSUME NEW m \in 1..Len(all), all[m].phase = "Create"
        PROVE  \E n \in (m + 1)..Len(all) : all[n].phase = "Seal"
    <3>1. m # L + 3 /\ m # L + 4  BY <2>8, <2>9 DEF Stage
    <3>2. L + 3 \in (m + 1)..Len(all)  BY <2>4, <2>8, <2>9, <3>1
    <3>3. all[L + 3].phase = "Seal"  BY <2>8 DEF Stage
    <3> QED BY <3>2, <3>3
  <2> QED BY <2>1, <2>8, <2>9 DEF T
<1>5. CASE r.name # "Backup"
  <2>1. Stages(r) \in Seq(T)
    <3>1. r.name = "Restore" => {"Open", "Clean", "Restore"} \subseteq Phases(r)
                                /\ (~r.simulate => "Startup" \in Phases(r))
      BY DEF Phases
    <3>2. r.name = "Clean" => "Clean" \in Phases(r) /\ (~r.simulate => "Shutdown" \in Phases(r))
      BY DEF Phases
    <3>3. r.name = "Startup" => "Startup" \in Phases(r)  BY DEF Phases
    <3>4. r.name = "Shutdown" => "Shutdown" \in Phases(r)  BY DEF Phases
    <3> HIDE DEF T
    <3>5. \A p \in {"Startup", "Shutdown", "Open"} \cap Phases(r) : <<Stage(p, 0)>> \in Seq(T)
      BY <1>1, Scripts
    <3>6. CASE r.name = "Restore"
      <4>1. <<Stage("Open", 0)>> \o Backward("Clean") \o Forward("Restore") \in Seq(T)
        BY <1>2, <3>1, <3>5, <3>6, Scripts
      <4>2. (IF r.simulate THEN <<>> ELSE <<Stage("Startup", 0)>>) \in Seq(T)
        BY <1>3, <3>1, <3>5, <3>6, Scripts
      <4> QED BY <3>6, <4>1, <4>2, Scripts DEF Stages
    <3>7. CASE r.name = "Clean"
      <4>1. Backward("Clean") \in Seq(T)  BY <1>2, <3>2, <3>7
      <4>2. (IF r.simulate THEN <<>> ELSE <<Stage("Shutdown", 0)>>) \in Seq(T)
        BY <1>3, <3>2, <3>5, <3>7, Scripts
      <4> QED BY <3>7, <4>1, <4>2, Scripts DEF Stages
    <3>8. CASE r.name \in {"Startup", "Shutdown"}
      BY <3>3, <3>4, <3>5, <3>8 DEF Stages
    <3> QED BY <1>3, <1>5, <3>6, <3>7, <3>8
  <2>2. "Create" \notin Phases(r)  BY <1>3, <1>5 DEF Phases
  <2>3. \A m \in 1..Len(Stages(r)) : Stages(r)[m].phase # "Create"
    BY <2>1, <2>2, ElementOfSeq DEF StagesOf
  <2> QED BY <2>1, <2>3
<1> QED BY <1>4, <1>5

\* What is known of the step that is tried next.
LEMMA CurrentTyped ==
    ASSUME TypedState, script # <<>>
    PROVE  /\ request \in AllRequests /\ request # None
           /\ stage \in StagesOf(request)
           /\ step \in StepsIn(stage.phase) /\ Tail(script) \in Seq(StepsIn(stage.phase))
           /\ step.slot \in AllSlots
           /\ step.site \in Firm \cup {check_archive_exists}
           /\ step.do = "create" <=> stage.phase = "Create"
           /\ step.do = "seal" <=> stage.phase = "Seal"
           /\ stage.phase = "Clean" => stage.action \in Actions
           /\ stage.phase = "Seal" => step.site = WriterError
<1>1. request # None  BY DEF TypedState, TypeOK, Idle
<1>2. request \in AllRequests  BY <1>1, OrchestratorAssumption DEF TypedState, TypeOK
<1>3. step \in StepsIn(stage.phase) /\ Tail(script) \in Seq(StepsIn(stage.phase))
  BY DEF TypedState, Plan, step
<1>4. stage \in StagesOf(request)
  <2>1. StepsIn("None") = {}  BY DEF StepsIn
  <2> QED BY <1>3, <2>1 DEF TypedState, Plan, NoStage, Stage
<1>5. stage \in StageSet  BY <1>4 DEF StagesOf
<1>6. /\ step.slot \in AllSlots
      /\ step.site \in Firm \cup {check_archive_exists}
      /\ step.do = "create" <=> stage.phase = "Create"
      /\ step.do = "seal" <=> stage.phase = "Seal"
      /\ stage.phase = "Seal" => step.site = WriterError
  <2>1. WriterError \in Firm  BY DEF Firm
  <2>2. CASE stage.phase \in {"Startup", "Shutdown"}
    BY <1>3, <2>2 DEF StepsIn, StepSet
  <2>3. CASE stage.phase \in {"Create", "Seal", "Open"}
    BY <1>3, <2>1, <2>3 DEF StepsIn, StepSet
  <2>4. CASE stage.phase \in {"Backup", "Clean", "Restore"}
    BY <1>3, <2>4 DEF StepsIn, StepSet, Looks, Changes
  <2> QED BY <1>5, <2>2, <2>3, <2>4 DEF StageSet
<1>7. stage.phase = "Clean" => stage.action \in Actions  BY <1>5 DEF StageSet
<1> QED BY <1>1, <1>2, <1>3, <1>4, <1>6, <1>7

\* What a protocol can say comes next.
Hows == {"next", "again", "last", "done", "fail"}

LEMMA ProtocolsTyped ==
    ASSUME NEW p \in Firm \cup {check_archive_exists}
    PROVE  /\ p.silent \in Hows \cup {"ask"} /\ p.alone \in Hows
           /\ DOMAIN p.answers # {} => \A d \in Decisions : p.answers[d] \in Hows
BY DEF Firm, HookError, WriterError, Unasked, Unlisted, EntryError, FileError, FileMissing,
   ValueError, ValueMissing, KeyError, CleanError, Conflict, check_archive_exists, Protocol,
   Answers, handle_decision, Decisions, Hows

LEMMA WriterFails ==
    /\ WriterError.silent = "ask" /\ WriterError.alone = "fail"
    /\ \A d \in Decisions : WriterError.answers[d] = "fail"
BY DEF WriterError, Protocol, Answers, Decisions

\* A step that goes on to the next one.
LEMMA MoveOnTyped ==
    ASSUME TypedState, script # <<>>, MoveOn
    PROVE  /\ Plan'
           /\ step.do \notin {"create", "seal"} /\ snapshot' = snapshot => Sealing'
           /\ step.do = "create" => Sealing'
           /\ snapshot' # "Open" => Sealing'
<1>1. /\ script' = Tail(script)
      /\ request' = request /\ agenda' = agenda /\ stage' = stage
  BY DEF MoveOn
<1>2. Plan'  BY <1>1, CurrentTyped DEF TypedState, Plan
<1>3. SealComes' <=> SealComes  BY <1>1 DEF SealComes
<1> QED BY <1>1, <1>2, <1>3, CurrentTyped DEF TypedState, Sealing

\* The end of an operation.
LEMMA StopTyped ==
    ASSUME NEW how, Stop(how)
    PROVE  /\ Plan'
           /\ snapshot' # "Open" => Sealing'
           /\ request' = None /\ agenda' = <<>> /\ script' = <<>> /\ stage' = NoStage
<1>1. request' = None /\ agenda' = <<>> /\ script' = <<>> /\ stage' = NoStage  BY DEF Stop
<1>2. Plan'  BY <1>1, Scripts DEF Plan
<1> QED BY <1>1, <1>2 DEF Sealing, SealComes

LEMMA AbandonTyped ==
    ASSUME TypedState, Abandon
    PROVE  /\ Plan' /\ Sealing'
           /\ request' \in Requests \cup {None}
           /\ Idle' => agenda' = <<>> /\ script' = <<>> /\ stage' = NoStage
           /\ snapshot' \in {"None", "Open", "Partial", "Complete"}
           /\ snapshot' = "Open" => request'.name = "Backup"
<1>1. snapshot' \in {"None", "Partial", "Complete"}
  BY DEF Abandon, TypedState, TypeOK
<1>2. Stop("failure")  BY DEF Abandon
<1> QED BY <1>1, <1>2, StopTyped

\* A step that fails, whatever its protocol says comes next.
LEMMA ResumeTyped ==
    ASSUME TypedState, script # <<>>, NEW how \in Hows, Resume(how),
           stage.phase = "Seal" => how = "fail"
    PROVE  /\ Plan' /\ Sealing'
           /\ request' \in Requests \cup {None}
           /\ Idle' => agenda' = <<>> /\ script' = <<>> /\ stage' = NoStage
           /\ snapshot' \in {"None", "Open", "Partial", "Complete"}
           /\ snapshot' = "Open" => request'.name = "Backup"
<1>1. CASE how # "fail"
  <2>1. UNCHANGED <<request, agenda, stage, snapshot>>  BY <1>1 DEF Resume, Hows
  <2>2. script' \in Seq(StepsIn(stage.phase))
    <3>1. script \in Seq(StepsIn(stage.phase))  BY DEF TypedState, Plan
    <3>2. script[Len(script)] \in StepsIn(stage.phase)  BY <3>1
    <3>3. <<script[Len(script)]>> \in Seq(StepsIn(stage.phase))  BY <3>2, Scripts
    <3> QED BY <1>1, <3>1, <3>3, CurrentTyped, Scripts DEF Resume, Hows
  <2>3. Plan'  BY <2>1, <2>2 DEF TypedState, Plan
  <2>4. SealComes' <=> SealComes  BY <2>1 DEF SealComes
  <2>5. Sealing'  BY <1>1, <2>1, <2>4 DEF TypedState, Sealing
  <2>6. request # None  BY CurrentTyped
  <2> QED BY <2>1, <2>3, <2>5, <2>6 DEF TypedState, TypeOK, Idle
<1>2. CASE how = "fail" /\ stage.phase = "Clean" /\ ErrorAnswers # {} /\ step.do # "clean"
  <2>1. /\ script' = <<Step("clean", <<stage.action, 0>>, CleanError)>>
        /\ UNCHANGED <<request, agenda, stage, snapshot>>
    BY <1>2 DEF Resume
  <2>2. "clean" \in Looks \cup Changes /\ CleanError \in Firm  BY DEF Looks, Firm
  <2>3. <<stage.action, 0>> \in AllSlots  BY <1>2, CurrentTyped, ActionsAreSlots
  <2>4. Step("clean", <<stage.action, 0>>, CleanError) \in StepsIn("Clean")
    BY <2>2, <2>3, StepTyped DEF StepsIn
  <2>5. Plan'  BY <1>2, <2>1, <2>4, Scripts DEF TypedState, Plan
  <2>6. SealComes' <=> SealComes  BY <2>1 DEF SealComes
  <2>7. Sealing'  BY <1>2, <2>1, <2>6 DEF TypedState, Sealing
  <2>8. request # None  BY CurrentTyped
  <2> QED BY <2>1, <2>5, <2>7, <2>8 DEF TypedState, TypeOK, Idle
<1>3. CASE how = "fail" /\ ~(stage.phase = "Clean" /\ ErrorAnswers # {} /\ step.do # "clean")
  <2>1. Abandon  BY <1>3 DEF Resume
  <2> QED BY <2>1, AbandonTyped
<1> QED BY <1>1, <1>2, <1>3

\* What a step makes of the machine and the archive.
LEMMA DataTyped ==
    ASSUME NEW m \in [Slots -> States], NEW a \in [Slots -> Archived], NEW st
    PROVE  MachineAfter(st, m, a) \in [Slots -> States] /\ ArchiveAfter(st, m, a) \in [Slots -> Archived]
<1>1. \A x \in Slots : Restored(x, a) \in States
  BY DEF Restored, States, Archived
<1>2. MachineAfter(st, m, a) \in [Slots -> States]
  BY <1>1 DEF MachineAfter, States
<1>3. \A x \in Slots : Written(x, m) \in Archived
  BY DEF Written, States, Archived
<1>4. ArchiveAfter(st, m, a) \in [Slots -> Archived]
  BY <1>3 DEF ArchiveAfter
<1> QED BY <1>2, <1>4

\* What a step that fails leaves behind: only a put or a drop changes anything,
\* and only where it was at work.
LEMMA WreckageLeaves ==
    ASSUME NEW m \in [Slots -> States], NEW st, NEW n \in Wreckage(st, m)
    PROVE  /\ n \in [Slots -> States]
           /\ n = m \/ \E v \in Partial(st) : n = [m EXCEPT ![st.slot] = v]
           /\ st.do \notin {"put", "drop"} => n = m
<1>1. Partial(st) \subseteq States  BY DEF Partial, States
<1>2. n = m \/ \E v \in Partial(st) : n = [m EXCEPT ![st.slot] = v]  BY DEF Wreckage
<1>3. st.do \notin {"put", "drop"} => Partial(st) = {}  BY DEF Partial
<1> QED BY <1>1, <1>2, <1>3

\* A step that fails, or throws, touches nothing else.
LEMMA Breaking ==
    ASSUME TypedState, FailStep \/ Throw
    PROVE  /\ script # <<>> /\ UNCHANGED <<archive, app>>
           /\ machine' \in Wreckage(step, machine) /\ machine' \in [Slots -> States]
           /\ step.do \notin {"put", "drop"} => machine' = machine
<1>1. script # <<>> /\ UNCHANGED <<archive, app>>  BY DEF FailStep, Throw
<1>2. machine' \in Wreckage(step, machine)
  BY DEF FailStep, Fails, Throw, Wreckage
<1>3. machine \in [Slots -> States]  BY DEF TypedState, TypeOK
<1> QED BY <1>1, <1>2, <1>3, WreckageLeaves

LEMMA MoveOnTypeOK ==
    ASSUME TypedState, script # <<>>, MoveOn,
           machine' \in [Slots -> States], archive' \in [Slots -> Archived],
           app' \in {"up", "down"}, snapshot' \in {"None", "Open", "Partial", "Complete"},
           snapshot' = "Open" => request.name = "Backup",
           passed' \subseteq AllSlots, faults' \in 0..MaxFaults
    PROVE  TypeOK'
<1>1. request # None  BY CurrentTyped
<1>2. UNCHANGED <<request, agenda, stage, skip_all, operations, uses, aborted, silenced, nagged>>
  BY DEF MoveOn
<1> QED BY <1>1, <1>2 DEF TypedState, TypeOK, Idle, AllSlots

LEMMA InitTyped == Init => TypedState
<1> SUFFICES ASSUME Init PROVE TypedState
    OBVIOUS
<1>1. machine \in [Slots -> States]  BY DEF Init, Machines, States
<1>2. archive \in [Slots -> Archived]  BY DEF Init, Archived
<1>3. skip_all \in BOOLEAN /\ aborted \in BOOLEAN /\ silenced \in BOOLEAN  BY DEF Init
<1>4. operations \in 0..MaxOperations /\ uses \in 0..MaxUses /\ faults \in 0..MaxFaults
  BY OrchestratorAssumption DEF Init
<1>5. /\ request = None /\ agenda = <<>> /\ script = <<>> /\ stage = NoStage
      /\ snapshot = "None" /\ app = "up" /\ passed = {} /\ nagged = {}
  BY DEF Init
<1>6. TypeOK  BY <1>1, <1>2, <1>3, <1>4, <1>5 DEF TypeOK
<1>7. Plan  BY <1>5, Scripts DEF Plan
<1>8. Sealing  BY <1>5 DEF Sealing, NoStage, Stage
<1> QED BY <1>6, <1>7, <1>8 DEF TypedState

\* No step breaks the types, the plan or the order of create and seal.
LEMMA NextTyped == TypedState /\ [Next]_vars => TypedState'
<1> SUFFICES ASSUME TypedState, [Next]_vars PROVE TypedState'
    OBVIOUS
<1> USE DEF TypedState, environment, resources, history
<1>1. ASSUME NEW r \in Requests, Begin(r) PROVE TypedState'
  <2>1. r \in AllRequests  BY OrchestratorAssumption
  <2>2. script = <<>> /\ stage = NoStage /\ snapshot # "Open"
    <3>1. request = None  BY <1>1 DEF Begin, Idle
    <3> QED BY <3>1 DEF TypeOK, Idle, None
  <2>3. r # None
    <3>1. r.name # "None"  BY <2>1 DEF AllRequests
    <3> QED BY <3>1 DEF None
  <2>4. /\ request' = r /\ agenda' = Stages(r) /\ operations' = operations - 1
        /\ operations > 0 /\ UNCHANGED <<resources, stage, script, uses, faults>>
    BY <1>1 DEF Begin
  <2>5. skip_all' = FALSE /\ aborted' = FALSE /\ silenced' = FALSE /\ passed' = {} /\ nagged' = {}
    BY <1>1 DEF Begin
  <2>6. TypeOK'
    <3>1. operations' \in 0..MaxOperations  BY <2>4, OrchestratorAssumption DEF TypeOK
    <3>2. skip_all' \in BOOLEAN /\ aborted' \in BOOLEAN /\ silenced' \in BOOLEAN
          /\ passed' \subseteq AllSlots /\ nagged' \subseteq AllSlots
      BY <2>5
    <3> QED BY <2>2, <2>3, <2>4, <3>1, <3>2 DEF TypeOK, Idle, AllSlots
  <2>7. Plan'  BY <2>1, <2>2, <2>4, StagesTyped, Scripts DEF Plan
  <2>8. Sealing'  BY <2>1, <2>2, <2>4, StagesTyped DEF Sealing
  <2> QED BY <2>6, <2>7, <2>8
<1>2. CASE EnterStage
  <2>1. /\ request # None /\ script = <<>> /\ agenda # <<>>
        /\ stage' = Head(agenda) /\ agenda' = Tail(agenda) /\ script' = Steps(Head(agenda))
        /\ UNCHANGED <<resources, request, skip_all, environment, history>>
    BY <1>2 DEF EnterStage, Idle
  <2>2. request \in AllRequests  BY <2>1, OrchestratorAssumption DEF TypeOK
  <2>3. Head(agenda) \in StagesOf(request) /\ Tail(agenda) \in Seq(StagesOf(request))
    BY <2>1 DEF Plan
  <2>4. Steps(Head(agenda)) \in Seq(StepsIn(Head(agenda).phase))
    BY <2>2, <2>3, StepsTyped DEF StagesOf
  <2>5. Plan'  BY <2>1, <2>3, <2>4 DEF Plan
  <2>6. TypeOK'  BY <2>1 DEF TypeOK, Idle
  <2>7. Sealing'
    <3>1. agenda \in Seq(StagesOf(request)) /\ Len(agenda) \in Nat /\ Len(agenda') = Len(agenda) - 1
          /\ \A n \in 1..Len(agenda') : agenda'[n] = agenda[n + 1]
      BY <2>1, HeadTailProperties, LenProperties DEF Plan
    <3>2. Head(agenda) = agenda[1] /\ 1 \in 1..Len(agenda)  BY <2>1, <3>1
    <3>3. ASSUME NEW m \in 1..Len(agenda), NEW n \in (m + 1)..Len(agenda), agenda[n].phase = "Seal"
          PROVE  n - 1 \in m..Len(agenda') /\ n - 1 \in 1..Len(agenda') /\ agenda'[n - 1].phase = "Seal"
      BY <3>1, <3>3
    <3>4. ASSUME NEW m \in 1..Len(agenda'), agenda'[m].phase = "Create"
          PROVE  \E n \in (m + 1)..Len(agenda') : agenda'[n].phase = "Seal"
      <4>1. m + 1 \in 1..Len(agenda) /\ agenda[m + 1].phase = "Create"  BY <3>1, <3>4
      <4>2. PICK n \in (m + 2)..Len(agenda) : agenda[n].phase = "Seal"
        BY <3>1, <4>1 DEF Sealing
      <4>3. n \in ((m + 1) + 1)..Len(agenda)  BY <3>1, <4>2
      <4> QED BY <3>3, <4>1, <4>2, <4>3
    <3>5. SealComes => Head(agenda).phase = "Seal" \/ SealComes'
      <4> SUFFICES ASSUME NEW n \in 1..Len(agenda), agenda[n].phase = "Seal", n # 1
                   PROVE  SealComes'
        BY <3>2 DEF SealComes
      <4>1. n \in (1 + 1)..Len(agenda)  BY <3>1
      <4> QED BY <3>2, <3>3, <4>1 DEF SealComes
    <3>6. Head(agenda).phase = "Create" => SealComes'
      BY <3>2, <3>3 DEF Sealing, SealComes
    <3>7. Head(agenda).phase = "Seal" => script' # <<>>
      BY <2>1 DEF Steps
    <3> QED BY <2>1, <3>4, <3>5, <3>6, <3>7 DEF Sealing
  <2> QED BY <2>5, <2>6, <2>7
<1>3. CASE Succeed
  <2>1. /\ script = <<>> /\ agenda = <<>> /\ Stop("success")
        /\ UNCHANGED <<resources, skip_all, environment, aborted, silenced, passed, nagged>>
    BY <1>3 DEF Succeed
  <2>2. snapshot # "Open"  BY <2>1 DEF Sealing, SealComes
  <2>3. TypeOK'  BY <2>1, <2>2, StopTyped DEF TypeOK
  <2> QED BY <2>1, <2>2, <2>3, StopTyped
<1>4. CASE RunHook
  <2>1. /\ script # <<>> /\ step.do = "hook" /\ MoveOn
        /\ UNCHANGED <<machine, archive, snapshot, faults, passed>>
    BY <1>4 DEF RunHook, Current, Advance
  <2>2. app' \in {"up", "down"}  BY <1>4 DEF RunHook
  <2>3. TypeOK'  BY <2>1, <2>2, MoveOnTypeOK DEF TypeOK, AllSlots
  <2> QED BY <2>1, <2>3, MoveOnTyped
<1>5. CASE CreateArchive
  <2>1. /\ script # <<>> /\ step.do = "create" /\ MoveOn
        /\ archive' = [s \in Slots |-> "Missing"] /\ snapshot' = "Open"
        /\ UNCHANGED <<machine, app, faults, passed>>
    BY <1>5 DEF CreateArchive, Current, Advance
  <2>2. archive' \in [Slots -> Archived]  BY <2>1 DEF Archived
  <2>3. request.name = "Backup"
    BY <2>1, CurrentTyped DEF StagesOf, Phases, AllRequests
  <2>4. TypeOK'  BY <2>1, <2>2, <2>3, MoveOnTypeOK DEF TypeOK, AllSlots
  <2> QED BY <2>1, <2>4, MoveOnTyped
<1>6. CASE SealArchive
  <2>1. /\ script # <<>> /\ step.do = "seal" /\ MoveOn /\ snapshot' = "Complete"
        /\ UNCHANGED <<machine, app, archive, faults, passed>>
    BY <1>6 DEF SealArchive, Current, Advance
  <2>2. TypeOK'  BY <2>1, MoveOnTypeOK DEF TypeOK, AllSlots
  <2> QED BY <2>1, <2>2, MoveOnTyped
<1>7. CASE PerformStep
  <2>1. /\ script # <<>> /\ step.do \notin {"create", "seal"} /\ MoveOn
        /\ machine' = MachineAfter(step, machine, archive)
        /\ archive' = ArchiveAfter(step, machine, archive)
        /\ UNCHANGED <<app, snapshot, faults, passed>>
    BY <1>7 DEF PerformStep, ResourceSteps, Advance
  <2>2. machine' \in [Slots -> States] /\ archive' \in [Slots -> Archived]
    BY <2>1, DataTyped DEF TypeOK
  <2>3. TypeOK'  BY <2>1, <2>2, MoveOnTypeOK DEF TypeOK, AllSlots
  <2> QED BY <2>1, <2>3, MoveOnTyped
<1>8. CASE PassStep
  <2>1. /\ script # <<>> /\ step.do \notin {"create", "seal"} /\ MoveOn
        /\ UNCHANGED <<machine, app, archive, snapshot, faults, passed>>
    BY <1>8 DEF PassStep, Advance
  <2>2. TypeOK'  BY <2>1, MoveOnTypeOK DEF TypeOK, AllSlots
  <2> QED BY <2>1, <2>2, MoveOnTyped
<1>9. CASE OverlookStep
  <2>1. /\ script # <<>> /\ MoveOn /\ passed' = passed \cup {step.slot}
        /\ faults' = faults - 1 /\ faults > 0
        /\ UNCHANGED <<machine, app, snapshot>>
    BY <1>9 DEF OverlookStep
  <2>2. step.do \notin {"create", "seal"}  BY <1>9 DEF OverlookStep, CanOverlook
  <2>3. archive' \in [Slots -> Archived]
    BY <1>9 DEF OverlookStep, Overlooked, TypeOK, Archived, States
  <2>4. passed' \subseteq AllSlots  BY <2>1, CurrentTyped DEF TypeOK, AllSlots
  <2>5. faults' \in 0..MaxFaults  BY <2>1, OrchestratorAssumption DEF TypeOK
  <2>6. TypeOK'  BY <2>1, <2>3, <2>4, <2>5, MoveOnTypeOK DEF TypeOK
  <2> QED BY <2>1, <2>2, <2>6, MoveOnTyped
<1>10. CASE MisreadStep
  <2>1. /\ script # <<>> /\ step.do = "put" /\ MoveOn /\ passed' = passed \cup {step.slot}
        /\ faults' = faults - 1 /\ faults > 0
        /\ machine' = [machine EXCEPT ![step.slot] = Misread(step.slot, machine)]
        /\ UNCHANGED <<app, archive, snapshot>>
    BY <1>10 DEF MisreadStep, Current
  <2>2. \A x \in Slots : Misread(x, machine) \in States
    BY DEF Misread, TypeOK, States
  <2>3. machine' \in [Slots -> States]  BY <2>1, <2>2 DEF TypeOK
  <2>4. passed' \subseteq AllSlots  BY <2>1, CurrentTyped DEF TypeOK, AllSlots
  <2>5. faults' \in 0..MaxFaults  BY <2>1, OrchestratorAssumption DEF TypeOK
  <2>6. TypeOK'  BY <2>1, <2>3, <2>4, <2>5, MoveOnTypeOK DEF TypeOK
  <2> QED BY <2>1, <2>6, MoveOnTyped
<1>11. CASE FailStep
  <2>1. script # <<>> /\ UNCHANGED <<app, archive, operations, uses>> /\ machine' \in [Slots -> States]
    BY <1>11, Breaking DEF FailStep
  <2>2. faults' \in 0..MaxFaults
    <3>1. faults' = faults \/ (faults > 0 /\ faults' = faults - 1)  BY <1>11 DEF FailStep, Fails
    <3> QED BY <3>1, OrchestratorAssumption DEF TypeOK
  <2>3. CASE Unattended
    <3>1. PICK how \in Hows : /\ Resume(how) /\ Survived(how)
                              /\ stage.phase = "Seal" => how = "fail"
      BY <2>1, <2>3, CurrentTyped, ProtocolsTyped, WriterFails DEF Unattended, Silent
    <3>2. UNCHANGED <<skip_all, aborted, silenced, nagged>>  BY <2>3 DEF Unattended
    <3>3. passed' \subseteq AllSlots
      BY <2>1, <3>1, CurrentTyped DEF Survived, TypeOK, AllSlots
    <3> QED BY <2>1, <2>2, <3>1, <3>2, <3>3, ResumeTyped DEF TypeOK, AllSlots
  <2>4. ASSUME NEW d \in Decisions, Ask(d) PROVE TypedState'
    <3>1. DOMAIN step.site.answers # {} /\ Resume(step.site.answers[d])
          /\ Survived(step.site.answers[d])
      BY <2>4 DEF Ask, Asks
    <3>2. PICK how \in Hows : /\ Resume(how) /\ Survived(how)
                              /\ stage.phase = "Seal" => how = "fail"
      BY <2>1, <3>1, CurrentTyped, ProtocolsTyped, WriterFails
    <3>3. skip_all' \in BOOLEAN /\ silenced' \in BOOLEAN /\ aborted' \in BOOLEAN
      BY <2>4 DEF Ask
    <3>4. nagged' \subseteq AllSlots
      BY <2>1, <2>4, CurrentTyped DEF Ask, TypeOK, AllSlots
    <3>5. passed' \subseteq AllSlots
      BY <2>1, <3>2, CurrentTyped DEF Survived, TypeOK, AllSlots
    <3> QED BY <2>1, <2>2, <3>2, <3>3, <3>4, <3>5, ResumeTyped DEF TypeOK, AllSlots
  <2> QED BY <1>11, <2>3, <2>4 DEF FailStep
<1>12. CASE Throw
  <2>1. /\ Abandon /\ faults > 0 /\ faults' = faults - 1
        /\ UNCHANGED <<app, archive, skip_all, operations, uses, aborted, silenced, passed, nagged>>
        /\ machine' \in [Slots -> States]
    BY <1>12, Breaking DEF Throw
  <2>2. faults' \in 0..MaxFaults  BY <2>1, OrchestratorAssumption DEF TypeOK
  <2> QED BY <2>1, <2>2, AbandonTyped DEF TypeOK
<1>13. CASE Use
  <2>1. /\ uses > 0 /\ uses' = uses - 1 /\ machine' \in Machines /\ app' \in {"up", "down"}
        /\ UNCHANGED <<archive, snapshot, request, agenda, stage, script, skip_all,
                       operations, faults, aborted, silenced, passed, nagged>>
    BY <1>13 DEF Use
  <2>2. machine' \in [Slots -> States]  BY <2>1 DEF Machines, States
  <2>3. uses' \in 0..MaxUses  BY <2>1, OrchestratorAssumption DEF TypeOK
  <2>4. TypeOK'  BY <2>1, <2>2, <2>3 DEF TypeOK, Idle
  <2> QED BY <2>1, <2>4 DEF Plan, Sealing, SealComes
<1>14. CASE UNCHANGED vars
  BY <1>14 DEF vars, TypeOK, Idle, Plan, Sealing, SealComes
<1> QED
  BY <1>1, <1>2, <1>3, <1>4, <1>5, <1>6, <1>7, <1>8, <1>9, <1>10, <1>11, <1>12, <1>13, <1>14
  DEF Next, Execute

\* Every variable keeps its type, and only a backup that is under way has its
\* archive open: whatever fails, and whatever is answered, an operation that ends
\* leaves no snapshot file open.
THEOREM TypeCorrect == Spec => []TypeOK
<1>1. TypedState => TypeOK  BY DEF TypedState
<1> QED BY <1>1, InitTyped, NextTyped, PTL DEF Spec
-----------------------------------------------------------------------------
(* What an Abort does.                                                     *)

Stoppable == request.name \in {"Backup", "Clean"}

\* After an Abort a backup or a clean is over, but for the question IAction::clean
\* asks about the failure.
Stopping ==
    aborted =>
        /\ ErrorAnswers # {}
        /\ Stoppable => \E slot \in AllSlots : script = <<Step("clean", slot, CleanError)>>

\* The steps of a backup or a clean fail when the callback answers Abort.
LEMMA FirmSteps ==
    ASSUME TypedState, script # <<>>, Stoppable, DOMAIN step.site.answers # {}
    PROVE  step.site.answers["Abort"] = "fail"
<1>1. stage.phase \in {"Shutdown", "Create", "Backup", "Seal", "Startup", "Clean"}
  BY CurrentTyped DEF StagesOf, Phases, Stoppable
<1>2. step \in StepsIn(stage.phase)  BY CurrentTyped
<1>3. WriterError \in Firm  BY DEF Firm
<1>4. step.site \in Firm  BY <1>1, <1>2, <1>3 DEF StepsIn, StepSet
<1> QED BY <1>4, FirmAbort

\* The only step that is left after an Abort.
LEMMA LastStep ==
    ASSUME TypedState, Stopping, aborted, Stoppable
    PROVE  /\ script # <<>> /\ step.do = "clean"
           /\ step.site.silent = "ask"
           /\ DOMAIN step.site.answers # {} /\ step.site.answers["Abort"] = "fail"
<1>1. PICK slot \in AllSlots : script = <<Step("clean", slot, CleanError)>>  BY DEF Stopping
<1>2. script # <<>> /\ step = Step("clean", slot, CleanError)  BY <1>1 DEF step
<1>3. step.do = "clean" /\ step.site = CleanError  BY <1>2 DEF Step
<1> QED BY <1>2, <1>3 DEF CleanError, ValueError, Protocol, Answers, handle_decision, Decisions

\* After an Abort the last step fails, and with it the operation.
LEMMA AbortEnds ==
    ASSUME TypedState, Stopping, aborted, Stoppable, Execute
    PROVE  request' = None /\ UNCHANGED <<machine, archive, app>>
<1>1. /\ script # <<>> /\ step.do = "clean" /\ step.site.silent = "ask"
      /\ DOMAIN step.site.answers # {} /\ step.site.answers["Abort"] = "fail"
      /\ ErrorAnswers # {}
  BY LastStep DEF Stopping
<1>2. ~EnterStage /\ ~Succeed /\ ~RunHook /\ ~CreateArchive /\ ~SealArchive
  BY <1>1 DEF EnterStage, Succeed, RunHook, CreateArchive, SealArchive, Current
<1>3. ~PerformStep /\ ~PassStep /\ ~OverlookStep /\ ~MisreadStep
  BY <1>1 DEF PerformStep, PassStep, OverlookStep, MisreadStep, ResourceSteps, CanOverlook, Current
<1>4. CASE FailStep
  <2>1. ~Unattended  BY <1>1 DEF Unattended, Silent, Asks
  <2>2. PICK d \in Decisions : Ask(d)  BY <1>4, <2>1 DEF FailStep
  <2>3. d = "Abort"  BY <2>2 DEF Ask, MayAnswer
  <2>4. Resume("fail")  BY <1>1, <2>2, <2>3 DEF Ask
  <2>5. Abandon  BY <1>1, <2>4 DEF Resume
  <2> QED BY <1>1, <1>4, <2>5, Breaking DEF Abandon, Stop
<1>5. CASE Throw
  BY <1>1, <1>5, Breaking DEF Throw, Abandon, Stop
<1> QED BY <1>2, <1>3, <1>4, <1>5 DEF Execute

\* A failure goes on with the same operation, or ends it.
LEMMA FailStays ==
    ASSUME TypedState, FailStep
    PROVE  request' \in {request, None}
<1>1. script # <<>>  BY DEF FailStep
<1>2. \A how \in Hows : Resume(how) => request' \in {request, None}
  BY DEF Resume, Hows, Abandon, Stop
<1>3. CASE Unattended
  BY <1>1, <1>2, <1>3, CurrentTyped, ProtocolsTyped DEF Unattended, Silent
<1>4. ASSUME NEW d \in Decisions, Ask(d) PROVE request' \in {request, None}
  BY <1>1, <1>2, <1>4, CurrentTyped, ProtocolsTyped DEF Ask, Asks
<1> QED BY <1>3, <1>4 DEF FailStep

LEMMA StoppingKept == TypedState /\ Stopping /\ [Next]_vars => Stopping'
<1> SUFFICES ASSUME TypedState, Stopping, [Next]_vars PROVE Stopping'
    OBVIOUS
<1>0. None.name = "None"  BY DEF None
<1>1. CASE \E r \in Requests : Begin(r)
  BY <1>1 DEF Begin, Stopping
<1>2. CASE Execute
  <2>1. CASE aborted /\ Stoppable
    BY <1>0, <1>2, <2>1, AbortEnds DEF Stopping, Stoppable
  <2>2. CASE aborted /\ ~Stoppable
    <3>1. request' \in {request, None}
      BY <1>2, FailStays DEF Execute, EnterStage, Succeed, RunHook, CreateArchive, SealArchive,
         PerformStep, PassStep, OverlookStep, MisreadStep, Throw, Advance, MoveOn, Abandon, Stop
    <3> QED BY <1>0, <2>2, <3>1 DEF Stopping, Stoppable
  <2>3. CASE ~aborted
    <3> SUFFICES ASSUME aborted' PROVE Stopping'
      BY DEF Stopping
    <3>1. FailStep
      BY <1>2, <2>3 DEF Execute, EnterStage, Succeed, RunHook, CreateArchive, SealArchive,
         PerformStep, PassStep, OverlookStep, MisreadStep, Throw, Advance, MoveOn, history
    <3>2. PICK d \in Decisions : Ask(d)  BY <2>3, <3>1 DEF FailStep, Unattended
    <3>3. d = "Abort" /\ ErrorAnswers # {} /\ script # <<>>
      BY <2>3, <3>1, <3>2 DEF Ask, Asks, FailStep
    <3>4. CASE Stoppable
      <4>1. Resume("fail")  BY <3>2, <3>3, <3>4, FirmSteps DEF Ask, Asks
      <4>2. CASE Abandon
        BY <1>0, <3>3, <4>2 DEF Stopping, Stoppable, Abandon, Stop
      <4>3. CASE stage.phase = "Clean" /\ script' = <<Step("clean", <<stage.action, 0>>, CleanError)>>
        <5>1. <<stage.action, 0>> \in AllSlots  BY <3>3, <4>3, CurrentTyped, ActionsAreSlots
        <5> QED BY <3>3, <4>3, <5>1 DEF Stopping
      <4> QED BY <4>1, <4>2, <4>3 DEF Resume
    <3>5. CASE ~Stoppable
      <4>1. request' \in {request, None}  BY <3>1, FailStays
      <4> QED BY <1>0, <3>3, <3>5, <4>1 DEF Stopping, Stoppable
    <3> QED BY <3>4, <3>5
  <2> QED BY <2>1, <2>2, <2>3
<1>3. CASE Use
  BY <1>3 DEF Use, Stopping, Stoppable
<1>4. CASE UNCHANGED vars
  BY <1>4 DEF vars, history, Stopping, Stoppable
<1> QED BY <1>1, <1>2, <1>3, <1>4 DEF Next

\* Once the callback has answered Abort, a backup or a clean touches neither the
\* machine nor the archive nor the application again, whatever the blueprint is
\* and whatever fails: handle_decision, the retry loops and IAction::clean all
\* turn that answer into the FALSE that ends the operation.
THEOREM AbortIsFinal == Spec => AbortStops
<1> DEFINE IInv == TypedState /\ Stopping
<1>1. Init => IInv
  <2>1. Init => Stopping  BY DEF Init, Stopping
  <2> QED BY <2>1, InitTyped
<1>2. IInv /\ [Next]_vars => IInv'  BY NextTyped, StoppingKept
<1>3. IInv /\ [Next]_vars =>
        [aborted /\ request.name \in {"Backup", "Clean"} => UNCHANGED <<machine, archive, app>>]_vars
  <2> SUFFICES ASSUME IInv, [Next]_vars, aborted, Stoppable
               PROVE  UNCHANGED <<machine, archive, app>>
    BY DEF Stoppable
  <2>1. ~Idle  BY DEF Idle, None, Stoppable
  <2>2. CASE Execute  BY <2>2, AbortEnds
  <2>3. CASE UNCHANGED vars  BY <2>3 DEF vars, resources
  <2> QED BY <2>1, <2>2, <2>3 DEF Next, Begin, Use
<1> QED BY <1>1, <1>2, <1>3, PTL DEF Spec, AbortStops
-----------------------------------------------------------------------------
(* What a dry run does.                                                    *)

\* The steps of a dry run: they look, but change nothing.
DrySteps == StepSet(Looks \cup {"open"}, Firm \cup {check_archive_exists})

Dry == request.simulate => script \in Seq(DrySteps)

\* The actions on lists never look at simulate, CopyDirectoryAction's restore only
\* when it comes to the entries: a dry run that meets neither of them.
Heeded ==
    \A r \in Requests : r.simulate => \A i \in Actions :
        Blueprint[i] # "List" /\ (r.name = "Restore" => Blueprint[i] # "Directory")

\* Every other action returns before it changes anything; the clean of a directory
\* has listed it by then.
LEMMA DryStages ==
    ASSUME Heeded, request \in Requests, request.simulate, NEW st \in StagesOf(request)
    PROVE  Steps(st) \in Seq(DrySteps)
<1>1. request.name \in {"Restore", "Clean"}  BY OrchestratorAssumption DEF AllRequests
<1>2. st \in StageSet /\ st.phase \in {"Open", "Clean", "Restore"}
  BY <1>1 DEF StagesOf, Phases
<1>3. CASE st.phase = "Open"
  <2>1. WriterError \in Firm /\ NoSlot \in AllSlots  BY DEF Firm, AllSlots
  <2>2. Step("open", NoSlot, WriterError) \in DrySteps  BY <2>1, StepTyped DEF DrySteps
  <2>3. Steps(st) = <<Step("open", NoSlot, WriterError)>>  BY <1>3 DEF Steps
  <2> QED BY <2>2, <2>3, Scripts
<1>4. ASSUME NEW i \in Actions, NEW m PROVE CleanSteps(i, m, TRUE) \in Seq(DrySteps)
  <2>1. Blueprint[i] \in Kinds \ {"List"}  BY ActionsAreSlots DEF Heeded
  <2>2. <<>> \in Seq(DrySteps)  BY Scripts
  <2>3. CASE Blueprint[i] = "Directory"
    <3>1. "list" \in Looks /\ Unlisted \in Firm /\ <<i, 0>> \in AllSlots
      BY ActionsAreSlots DEF Looks, Firm
    <3>2. Step("list", <<i, 0>>, Unlisted) \in DrySteps  BY <3>1, StepTyped DEF DrySteps
    <3> DEFINE look == <<Step("list", <<i, 0>>, Unlisted)>>
    <3>3. look \in Seq(DrySteps) /\ look \o <<>> \in Seq(DrySteps)  BY <3>2, Scripts
    <3>4. CleanSteps(i, m, TRUE) = IF Gone(i, m) THEN <<>> ELSE look \o <<>>
      BY <2>3 DEF CleanSteps, DirectoryClean, Real
    <3> HIDE DEF look
    <3> QED BY <2>2, <3>3, <3>4
  <2>4. CASE Blueprint[i] # "Directory"
    <3>1. CleanSteps(i, m, TRUE) = <<>>
      BY <2>1, <2>4 DEF Kinds, CleanSteps, FileClean, EnvironmentClean, HostsClean, ServiceClean,
         RegistryClean, Real
    <3> QED BY <2>2, <3>1
  <2> QED BY <2>3, <2>4
<1>5. ASSUME NEW i \in Actions, NEW a, request.name = "Restore"
      PROVE  RestoreSteps(i, a, TRUE) \in Seq(DrySteps)
  <2>1. Blueprint[i] \in Kinds \ {"List", "Directory"}  BY <1>5, ActionsAreSlots DEF Heeded
  <2>2. "lookup" \in Looks /\ <<i, 0>> \in AllSlots  BY ActionsAreSlots DEF Looks
  <2>3. Step("lookup", <<i, 0>>, check_archive_exists) \in DrySteps  BY <2>2, StepTyped DEF DrySteps
  <2>4. Lookup(i) \in Seq(DrySteps) /\ Lookup(i) \o <<>> \in Seq(DrySteps)
    BY <2>3, Scripts DEF Lookup
  <2> QED BY <2>1, <2>4 DEF Kinds, RestoreSteps, FileRestore, EnvironmentRestore, HostsRestore,
             ServiceRestore, RegistryRestore, Real
<1>6. CASE st.phase = "Clean"
  <2>1. st.action \in Actions  BY <1>2, <1>6 DEF StageSet
  <2>2. request.simulate = TRUE  BY OrchestratorAssumption DEF AllRequests
  <2> QED BY <1>4, <1>6, <2>1, <2>2 DEF Steps
<1>7. CASE st.phase = "Restore"
  <2>1. st.action \in Actions  BY <1>2, <1>7 DEF StageSet
  <2>2. request.name = "Restore" /\ request.simulate = TRUE
    BY <1>1, <1>7, OrchestratorAssumption DEF StagesOf, Phases, AllRequests
  <2> QED BY <1>5, <1>7, <2>1, <2>2 DEF Steps
<1> QED BY <1>2, <1>3, <1>6, <1>7

\* A step of a dry run leaves everything as it is.
LEMMA DryExecute ==
    ASSUME TypedState, Dry, request.simulate, request # None, Execute
    PROVE  UNCHANGED resources
<1>1. request \in AllRequests  BY OrchestratorAssumption DEF TypedState, TypeOK
<1>2. snapshot # "Open"  BY <1>1 DEF TypedState, TypeOK, AllRequests
<1>3. script # <<>> => step.do \in Looks \cup {"open"}
  <2>1. SUFFICES ASSUME script # <<>> PROVE step.do \in Looks \cup {"open"}
    OBVIOUS
  <2>2. script \in Seq(DrySteps)  BY DEF Dry
  <2>3. Head(script) \in DrySteps  BY <2>1, <2>2, HeadTailProperties, Zenon
  <2> QED BY <2>3 DEF DrySteps, StepSet, step
<1>4. ~RunHook /\ ~CreateArchive /\ ~SealArchive
  BY <1>3 DEF RunHook, CreateArchive, SealArchive, Current, Looks
<1>5. ~OverlookStep /\ ~MisreadStep
  BY <1>3 DEF OverlookStep, MisreadStep, CanOverlook, Current, Looks
<1>6. CASE PerformStep
  BY <1>3, <1>6 DEF PerformStep, MachineAfter, ArchiveAfter, Looks, resources
<1>7. CASE FailStep
  <2>1. script # <<>> /\ UNCHANGED <<machine, app, archive>>
    BY <1>3, <1>7, Breaking DEF Looks
  <2>2. \A how \in Hows : Resume(how) => snapshot' = snapshot
    BY <1>2 DEF Resume, Hows, Abandon
  <2>3. snapshot' = snapshot
    <3>1. CASE Unattended
      BY <2>1, <2>2, <3>1, CurrentTyped, ProtocolsTyped DEF Unattended, Silent
    <3>2. ASSUME NEW d \in Decisions, Ask(d) PROVE snapshot' = snapshot
      BY <2>1, <2>2, <3>2, CurrentTyped, ProtocolsTyped DEF Ask, Asks
    <3> QED BY <1>7, <3>1, <3>2 DEF FailStep
  <2> QED BY <2>1, <2>3 DEF resources
<1>8. CASE Throw
  BY <1>2, <1>3, <1>8, Breaking DEF Throw, Abandon, Looks, resources
<1>9. CASE EnterStage \/ Succeed \/ PassStep
  BY <1>9 DEF EnterStage, Succeed, PassStep, resources
<1> QED BY <1>4, <1>5, <1>6, <1>7, <1>8, <1>9 DEF Execute

LEMMA DryKept ==
    ASSUME Heeded, TypedState, Dry, [Next]_vars
    PROVE  Dry'
<1>1. ~None.simulate  BY DEF None
<1>2. script \in Seq(DrySteps) /\ script # <<>> => Tail(script) \in Seq(DrySteps)
                                               /\ script[Len(script)] \in DrySteps
  OBVIOUS
<1>3. CASE \E r \in Requests : Begin(r)
  <2>1. script' = <<>>  BY <1>3 DEF Begin, Idle, TypedState, TypeOK
  <2> QED BY <2>1, Scripts DEF Dry
<1>4. CASE EnterStage
  <2>1. /\ request # None /\ agenda # <<>> /\ request' = request /\ script' = Steps(Head(agenda))
    BY <1>4 DEF EnterStage, Idle
  <2>2. request \in Requests  BY <2>1 DEF TypedState, TypeOK
  <2>3. Head(agenda) \in StagesOf(request)  BY <2>1 DEF TypedState, Plan
  <2> QED BY <2>1, <2>2, <2>3, DryStages DEF Dry
<1>5. CASE Succeed \/ Throw
  BY <1>1, <1>5 DEF Succeed, Throw, Abandon, Stop, Dry
<1>6. ASSUME script # <<>>, MoveOn PROVE Dry'
  BY <1>2, <1>6 DEF MoveOn, Dry
<1>7. CASE RunHook \/ CreateArchive \/ SealArchive \/ PerformStep \/ PassStep \/ OverlookStep \/ MisreadStep
  BY <1>6, <1>7 DEF RunHook, CreateArchive, SealArchive, PerformStep, PassStep, OverlookStep,
     MisreadStep, Advance, Current
<1>8. CASE FailStep
  <2>1. script # <<>>  BY <1>8 DEF FailStep
  <2>2. ASSUME NEW how \in Hows, Resume(how) PROVE Dry'
    <3>1. CASE how = "fail" /\ Abandon
      BY <1>1, <3>1 DEF Abandon, Stop, Dry
    <3>2. CASE how = "fail" /\ stage.phase = "Clean"
               /\ script' = <<Step("clean", <<stage.action, 0>>, CleanError)>>
      <4>1. <<stage.action, 0>> \in AllSlots /\ "clean" \in Looks /\ CleanError \in Firm
        BY <2>1, <3>2, CurrentTyped, ActionsAreSlots DEF Looks, Firm
      <4>2. Step("clean", <<stage.action, 0>>, CleanError) \in DrySteps
        BY <4>1, StepTyped DEF DrySteps
      <4> QED BY <3>2, <4>2, Scripts DEF Dry
    <3>3. CASE how # "fail"
      <4>1. request' = request /\ script' \in {Tail(script), script, <<script[Len(script)]>>, <<>>}
        BY <2>2, <3>3 DEF Resume, Hows
      <4> QED BY <1>2, <2>1, <4>1, Scripts DEF Dry
    <3> QED BY <2>2, <3>1, <3>2, <3>3 DEF Resume, Hows
  <2>3. CASE Unattended
    BY <2>1, <2>2, <2>3, CurrentTyped, ProtocolsTyped DEF Unattended, Silent
  <2>4. ASSUME NEW d \in Decisions, Ask(d) PROVE Dry'
    BY <2>1, <2>2, <2>4, CurrentTyped, ProtocolsTyped DEF Ask, Asks
  <2> QED BY <1>8, <2>3, <2>4 DEF FailStep
<1>9. CASE Use
  BY <1>9 DEF Use, Dry
<1>10. CASE UNCHANGED vars
  BY <1>10 DEF vars, Dry
<1> QED BY <1>3, <1>4, <1>5, <1>7, <1>8, <1>9, <1>10 DEF Next, Execute

\* Where no list is met, and no directory by a restore, a dry run changes nothing:
\* not the machine, not the application, not the snapshot, whatever fails and
\* whatever is answered.
THEOREM DryRunsArePure ==
    ASSUME Heeded
    PROVE  Spec => DryRunIsPure
<1> DEFINE IInv == TypedState /\ Dry
<1>1. Init => IInv
  <2>1. Init => Dry  BY DEF Init, Dry, None
  <2> QED BY <2>1, InitTyped
<1>2. IInv /\ [Next]_vars => IInv'  BY NextTyped, DryKept
<1>3. IInv /\ [Next]_vars => [request.simulate => UNCHANGED resources]_vars
  <2> SUFFICES ASSUME IInv, [Next]_vars, request.simulate
               PROVE  UNCHANGED resources
    OBVIOUS
  <2>1. request # None  BY DEF None
  <2>2. CASE Execute  BY <2>1, <2>2, DryExecute
  <2>3. CASE UNCHANGED vars  BY <2>3 DEF vars
  <2> QED BY <2>1, <2>2, <2>3 DEF Next, Begin, Use, Idle
<1> QED BY <1>1, <1>2, <1>3, PTL DEF Spec, DryRunIsPure

-----------------------------------------------------------------------------
(* The order of the stages.                                                *)

Count == Len(Blueprint)

LEMMA CountType == Count \in Nat /\ Actions = 1..Count
BY OrchestratorAssumption DEF Count, Actions

\* The stage of operation r before stage st.
Before(r, st) ==
    CASE st.phase \in {"Shutdown", "Open"} -> NoStage
      [] st.phase = "Create" -> Stage("Shutdown", 0)
      [] st.phase = "Backup" ->
            IF st.action = 1 THEN Stage("Create", 0) ELSE Stage("Backup", st.action - 1)
      [] st.phase = "Seal" -> IF Count = 0 THEN Stage("Create", 0) ELSE Stage("Backup", Count)
      [] st.phase = "Clean" ->
            IF st.action # Count THEN Stage("Clean", st.action + 1)
            ELSE IF r.name = "Restore" THEN Stage("Open", 0)
            ELSE IF r.simulate THEN NoStage ELSE Stage("Shutdown", 0)
      [] st.phase = "Restore" ->
            IF st.action = 1 THEN Stage("Clean", 1) ELSE Stage("Restore", st.action - 1)
      [] st.phase = "Startup" ->
            IF r.name = "Backup" THEN Stage("Seal", 0)
            ELSE IF r.name = "Startup" THEN NoStage
            ELSE IF Count = 0 THEN Stage("Open", 0) ELSE Stage("Restore", Count)

\* The stages in s follow one another, the first of them follows st.
Path(r, st, s) ==
    \A k \in 1..Len(s) : (IF k = 1 THEN st ELSE s[k - 1]) = Before(r, s[k])

Final(st, s) == IF s = <<>> THEN st ELSE s[Len(s)]

LEMMA PathJoins ==
    ASSUME NEW r, NEW S, NEW st, NEW s \in Seq(S), NEW t \in Seq(S),
           Path(r, st, s), Path(r, Final(st, s), t)
    PROVE  Path(r, st, s \o t) /\ Final(st, s \o t) = Final(Final(st, s), t)
<1>1. /\ s \o t \in Seq(S) /\ Len(s \o t) = Len(s) + Len(t) /\ Len(s) \in Nat /\ Len(t) \in Nat
      /\ \A k \in 1..Len(s) : (s \o t)[k] = s[k]
      /\ \A k \in 1..Len(t) : (s \o t)[Len(s) + k] = t[k]
      /\ s = <<>> <=> Len(s) = 0
      /\ t = <<>> <=> Len(t) = 0
  OBVIOUS
<1>2. s \o t = <<>> <=> Len(s) = 0 /\ Len(t) = 0  BY <1>1, EmptySeq
<1> DEFINE u == s \o t
<1>3. ASSUME NEW k \in 1..Len(u)
      PROVE  (IF k = 1 THEN st ELSE u[k - 1]) = Before(r, u[k])
  <2>1. CASE k <= Len(s)
    <3>1. k \in 1..Len(s) /\ (k # 1 => k - 1 \in 1..Len(s))  BY <1>1, <2>1
    <3>2. u[k] = s[k] /\ (k # 1 => u[k - 1] = s[k - 1])  BY <1>1, <3>1
    <3> QED BY <3>1, <3>2 DEF Path
  <2>2. CASE k > Len(s)
    <3>1. PICK j \in 1..Len(t) : k = Len(s) + j
      <4>1. k - Len(s) \in 1..Len(t) /\ k = Len(s) + (k - Len(s))  BY <1>1, <2>2
      <4> QED BY <4>1
    <3>2. u[k] = t[j]  BY <1>1, <3>1
    <3>3. (IF j = 1 THEN Final(st, s) ELSE t[j - 1]) = Before(r, t[j])  BY <3>1 DEF Path
    <3>4. CASE j = 1
      <4>1. k = Len(s) + 1 /\ (k # 1 => k - 1 \in 1..Len(s) /\ s # <<>>)  BY <1>1, <3>1, <3>4
      <4>2. k # 1 => u[k - 1] = s[Len(s)]  BY <1>1, <4>1
      <4>3. k = 1 => s = <<>>  BY <1>1, <4>1
      <4> QED BY <3>2, <3>3, <3>4, <4>1, <4>2, <4>3 DEF Final
    <3>5. CASE j # 1
      <4>1. k # 1 /\ k - 1 = Len(s) + (j - 1) /\ j - 1 \in 1..Len(t)  BY <1>1, <3>1, <3>5
      <4>2. u[k - 1] = t[j - 1]  BY <1>1, <4>1
      <4> QED BY <3>2, <3>3, <3>5, <4>1, <4>2
    <3> QED BY <3>4, <3>5
  <2> QED BY <1>1, <2>1, <2>2
<1>4. Final(st, u) = Final(Final(st, s), t)
  <2>1. CASE Len(t) = 0  BY <1>1, <1>2, <2>1 DEF Final
  <2>2. CASE Len(t) # 0
    <3>1. u # <<>> /\ Len(u) = Len(s) + Len(t) /\ Len(t) \in 1..Len(t)  BY <1>1, <1>2, <2>2
    <3>2. u[Len(u)] = t[Len(t)]  BY <1>1, <3>1
    <3> QED BY <1>1, <2>2, <3>1, <3>2 DEF Final
  <2> QED BY <2>1, <2>2
<1> QED BY <1>3, <1>4 DEF Path

\* One stage more, and a loop over the actions.
LEMMA PathGoesOn ==
    ASSUME NEW r, NEW S, NEW st, NEW s \in Seq(S), NEW one, <<one>> \in Seq(S),
           Path(r, st, s), Final(st, s) = Before(r, one)
    PROVE  /\ s \o <<one>> \in Seq(S) /\ Path(r, st, s \o <<one>>)
           /\ Final(st, s \o <<one>>) = one
<1> DEFINE t == <<one>>
<1>1. t \in Seq(S) /\ Path(r, Final(st, s), t) /\ Final(Final(st, s), t) = one
  BY DEF Path, Final
<1> HIDE DEF t
<1>2. s \o t \in Seq(S) /\ Path(r, st, s \o t) /\ Final(st, s \o t) = one
  BY <1>1, PathJoins, Scripts
<1> QED BY <1>2 DEF t

LEMMA PathOfOne ==
    ASSUME NEW r, NEW st, NEW one, st = Before(r, one)
    PROVE  Path(r, st, <<one>>) /\ Final(st, <<one>>) = one
BY DEF Path, Final

LEMMA LoopsTyped ==
    /\ \A phase \in {"Backup", "Restore"} : Forward(phase) \in Seq(StageSet)
    /\ Backward("Clean") \in Seq(StageSet)
    /\ \A phase \in {"Startup", "Shutdown", "Create", "Seal", "Open"} :
          <<Stage(phase, 0)>> \in Seq(StageSet)
<1>1. \A phase \in {"Backup", "Restore"}, n \in Actions : Stage(phase, n) \in StageSet
  BY DEF Stage, StageSet
<1>2. \A n \in Actions : Stage("Clean", Count + 1 - n) \in StageSet
  BY CountType DEF Stage, StageSet
<1>3. \A phase \in {"Startup", "Shutdown", "Create", "Seal", "Open"} : Stage(phase, 0) \in StageSet
  BY DEF Stage, StageSet
<1>4. \A phase \in {"Backup", "Restore"} : Forward(phase) \in [1..Count -> StageSet]
  BY <1>1, CountType DEF Forward
<1>5. Backward("Clean") \in [1..Count -> StageSet]
  BY <1>2, CountType DEF Backward, Count
<1> HIDE DEF Stage
<1> QED BY <1>3, <1>4, <1>5, CountType, SeqDef, Scripts

LEMMA ForwardPath ==
    ASSUME NEW r, NEW phase \in {"Backup", "Restore"}, NEW st,
           Count # 0 => st = Before(r, Stage(phase, 1))
    PROVE  /\ Path(r, st, Forward(phase))
           /\ Final(st, Forward(phase)) = IF Count = 0 THEN st ELSE Stage(phase, Count)
<1> DEFINE loop == Forward(phase)
<1>1. /\ Len(loop) = Count /\ (loop = <<>> <=> Count = 0)
      /\ \A n \in 1..Count : loop[n] = Stage(phase, n)
  BY CountType, LoopsTyped DEF Forward
<1>2. ASSUME NEW n \in 1..Count
      PROVE  (IF n = 1 THEN st ELSE loop[n - 1]) = Before(r, loop[n])
  <2>1. CASE n = 1  BY <1>1, <2>1, CountType
  <2>2. CASE n # 1
    <3>1. n - 1 \in 1..Count  BY <2>2, CountType
    <3>2. loop[n] = Stage(phase, n) /\ loop[n - 1] = Stage(phase, n - 1)  BY <1>1, <3>1
    <3>3. Before(r, Stage(phase, n)) = Stage(phase, n - 1)  BY <2>2 DEF Before, Stage
    <3> QED BY <2>2, <3>2, <3>3
  <2> QED BY <2>1, <2>2
<1>3. Count # 0 => loop[Count] = Stage(phase, Count)  BY <1>1, CountType
<1> HIDE DEF loop
<1> QED BY <1>1, <1>2, <1>3 DEF Path, Final, loop

LEMMA BackwardPath ==
    ASSUME NEW r, NEW st, Count # 0 => st = Before(r, Stage("Clean", Count))
    PROVE  /\ Path(r, st, Backward("Clean"))
           /\ Final(st, Backward("Clean")) = IF Count = 0 THEN st ELSE Stage("Clean", 1)
<1> DEFINE loop == Backward("Clean")
<1>1. /\ Len(loop) = Count /\ (loop = <<>> <=> Count = 0)
      /\ \A n \in 1..Count : loop[n] = Stage("Clean", Count + 1 - n)
  <2>1. loop = [n \in 1..Count |-> Stage("Clean", Count + 1 - n)]
    BY CountType DEF Backward, Count
  <2> QED BY <2>1, CountType, LoopsTyped
<1>2. ASSUME NEW n \in 1..Count
      PROVE  (IF n = 1 THEN st ELSE loop[n - 1]) = Before(r, loop[n])
  <2>1. CASE n = 1
    <3>1. Count + 1 - 1 = Count /\ Count # 0  BY CountType
    <3>2. loop[1] = Stage("Clean", Count)  BY <1>1, <2>1, <3>1
    <3> QED BY <2>1, <3>1, <3>2
  <2>2. CASE n # 1
    <3>1. n - 1 \in 1..Count /\ Count + 1 - (n - 1) = (Count + 1 - n) + 1 /\ Count + 1 - n # Count
      BY <2>2, CountType
    <3>2. loop[n] = Stage("Clean", Count + 1 - n) /\ loop[n - 1] = Stage("Clean", (Count + 1 - n) + 1)
      BY <1>1, <3>1
    <3>3. Before(r, Stage("Clean", Count + 1 - n)) = Stage("Clean", (Count + 1 - n) + 1)
      BY <3>1 DEF Before, Stage
    <3> QED BY <2>2, <3>2, <3>3
  <2> QED BY <2>1, <2>2
<1>3. Count # 0 => loop[Count] = Stage("Clean", 1)
  <2>1. Count + 1 - Count = 1  BY CountType
  <2> QED BY <1>1, <2>1, CountType
<1> HIDE DEF loop
<1> QED BY <1>1, <1>2, <1>3 DEF Path, Final, loop

\* The last stage of each operation.
Last(r) ==
    CASE r.name \in {"Backup", "Startup"} -> Stage("Startup", 0)
      [] r.name = "Restore" ->
            IF ~r.simulate THEN Stage("Startup", 0)
            ELSE IF Count = 0 THEN Stage("Open", 0) ELSE Stage("Restore", Count)
      [] r.name = "Clean" ->
            IF Count # 0 THEN Stage("Clean", 1)
            ELSE IF r.simulate THEN NoStage ELSE Stage("Shutdown", 0)
      [] r.name = "Shutdown" -> Stage("Shutdown", 0)

\* The stages of every operation follow one another.
LEMMA StagesPath ==
    ASSUME NEW r \in AllRequests
    PROVE  Path(r, NoStage, Stages(r)) /\ Final(NoStage, Stages(r)) = Last(r)
<1> DEFINE shutdown == <<Stage("Shutdown", 0)>>
           startup == <<Stage("Startup", 0)>>
<1> DEFINE J(s, t) == s \o t
<1>1. r.name \in {"Backup", "Restore", "Clean", "Startup", "Shutdown"} /\ r.simulate \in BOOLEAN
  BY DEF AllRequests
<1>2. CASE r.name = "Backup"
  <2> DEFINE s1 == shutdown
             s2 == s1 \o <<Stage("Create", 0)>>
             s3 == s2 \o Forward("Backup")
             s4 == s3 \o <<Stage("Seal", 0)>>
             s5 == s4 \o startup
  <2>1. s1 \in Seq(StageSet) /\ Path(r, NoStage, s1) /\ Final(NoStage, s1) = Stage("Shutdown", 0)
    <3>1. NoStage = Before(r, Stage("Shutdown", 0))  BY DEF Before, Stage
    <3> QED BY <3>1, PathOfOne, LoopsTyped
  <2>2. s2 \in Seq(StageSet) /\ Path(r, NoStage, s2) /\ Final(NoStage, s2) = Stage("Create", 0)
    <3> HIDE DEF s1
    <3>1. Stage("Shutdown", 0) = Before(r, Stage("Create", 0))  BY DEF Before, Stage
    <3>2. <<Stage("Create", 0)>> \in Seq(StageSet)  BY LoopsTyped
    <3> QED BY <2>1, <3>1, <3>2, PathGoesOn
  <2>3. /\ s3 \in Seq(StageSet) /\ Path(r, NoStage, s3)
        /\ Final(NoStage, s3) = IF Count = 0 THEN Stage("Create", 0) ELSE Stage("Backup", Count)
    <3> HIDE DEF s2
    <3>1. Stage("Create", 0) = Before(r, Stage("Backup", 1))  BY DEF Before, Stage
    <3>2. /\ Path(r, Final(NoStage, s2), Forward("Backup"))
          /\ Final(Final(NoStage, s2), Forward("Backup"))
               = IF Count = 0 THEN Stage("Create", 0) ELSE Stage("Backup", Count)
      BY <2>2, <3>1, ForwardPath
    <3> QED BY <2>2, <3>2, PathJoins, LoopsTyped, Scripts
  <2>4. s4 \in Seq(StageSet) /\ Path(r, NoStage, s4) /\ Final(NoStage, s4) = Stage("Seal", 0)
    <3> HIDE DEF s3
    <3>1. Final(NoStage, s3) = Before(r, Stage("Seal", 0))  BY <2>3 DEF Before, Stage
    <3>2. <<Stage("Seal", 0)>> \in Seq(StageSet)  BY LoopsTyped
    <3> QED BY <2>3, <3>1, <3>2, PathGoesOn
  <2>5. Path(r, NoStage, s5) /\ Final(NoStage, s5) = Stage("Startup", 0)
    <3> HIDE DEF s4
    <3>1. Final(NoStage, s4) = Before(r, Stage("Startup", 0))  BY <1>2, <2>4 DEF Before, Stage
    <3>2. startup \in Seq(StageSet)  BY LoopsTyped
    <3> QED BY <2>4, <3>1, <3>2, PathGoesOn
  <2>6. Stages(r) = s5  BY <1>2 DEF Stages
  <2> QED BY <1>2, <2>5, <2>6 DEF Last
<1>3. CASE r.name = "Restore"
  <2> DEFINE s1 == <<Stage("Open", 0)>>
             s2 == s1 \o Backward("Clean")
             s3 == s2 \o Forward("Restore")
  <2>1. s1 \in Seq(StageSet) /\ Path(r, NoStage, s1) /\ Final(NoStage, s1) = Stage("Open", 0)
    <3>1. NoStage = Before(r, Stage("Open", 0))  BY DEF Before, Stage
    <3> QED BY <3>1, PathOfOne, LoopsTyped
  <2>2. /\ s2 \in Seq(StageSet) /\ Path(r, NoStage, s2)
        /\ Final(NoStage, s2) = IF Count = 0 THEN Stage("Open", 0) ELSE Stage("Clean", 1)
    <3> HIDE DEF s1
    <3>1. Stage("Open", 0) = Before(r, Stage("Clean", Count))  BY <1>3 DEF Before, Stage
    <3>2. /\ Path(r, Final(NoStage, s1), Backward("Clean"))
          /\ Final(Final(NoStage, s1), Backward("Clean"))
               = IF Count = 0 THEN Stage("Open", 0) ELSE Stage("Clean", 1)
      BY <2>1, <3>1, BackwardPath
    <3> QED BY <2>1, <3>2, PathJoins, LoopsTyped, Scripts
  <2>3. /\ s3 \in Seq(StageSet) /\ Path(r, NoStage, s3)
        /\ Final(NoStage, s3) = IF Count = 0 THEN Stage("Open", 0) ELSE Stage("Restore", Count)
    <3> HIDE DEF s2
    <3>1. Stage("Clean", 1) = Before(r, Stage("Restore", 1))  BY DEF Before, Stage
    <3>2. /\ Path(r, Final(NoStage, s2), Forward("Restore"))
          /\ Final(Final(NoStage, s2), Forward("Restore"))
               = IF Count = 0 THEN Stage("Open", 0) ELSE Stage("Restore", Count)
      BY <2>2, <3>1, ForwardPath
    <3> QED BY <2>2, <3>2, PathJoins, LoopsTyped, Scripts
  <2> HIDE DEF s3
  <2>4. CASE r.simulate
    <3>1. Stages(r) = s3
      BY <1>3, <2>3, <2>4, ConcatEmptySeq DEF Stages, s3
    <3> QED BY <1>3, <2>3, <2>4, <3>1 DEF Last
  <2>5. CASE ~r.simulate
    <3>1. Final(NoStage, s3) = Before(r, Stage("Startup", 0))  BY <1>3, <2>3 DEF Before, Stage
    <3>2. startup \in Seq(StageSet)  BY LoopsTyped
    <3>3. Stages(r) = s3 \o startup  BY <1>3, <2>5 DEF Stages, s3
    <3> QED BY <1>3, <2>3, <2>5, <3>1, <3>2, <3>3, PathGoesOn DEF Last
  <2> QED BY <2>4, <2>5
<1>4. CASE r.name = "Clean"
  <2> DEFINE s1 == IF r.simulate THEN <<>> ELSE shutdown
  <2>1. /\ s1 \in Seq(StageSet) /\ Path(r, NoStage, s1)
        /\ Final(NoStage, s1) = IF r.simulate THEN NoStage ELSE Stage("Shutdown", 0)
    <3>1. NoStage = Before(r, Stage("Shutdown", 0))  BY DEF Before, Stage
    <3>2. <<>> \in Seq(StageSet) /\ Path(r, NoStage, <<>>) /\ Final(NoStage, <<>>) = NoStage
      BY Scripts DEF Path, Final
    <3> QED BY <3>1, <3>2, PathOfOne, LoopsTyped
  <2> HIDE DEF s1
  <2>2. Final(NoStage, s1) = Before(r, Stage("Clean", Count))  BY <1>4, <2>1 DEF Before, Stage
  <2>3. /\ Path(r, Final(NoStage, s1), Backward("Clean"))
        /\ Final(Final(NoStage, s1), Backward("Clean"))
             = IF Count = 0 THEN Final(NoStage, s1) ELSE Stage("Clean", 1)
    BY <2>2, BackwardPath
  <2>4. Stages(r) = s1 \o Backward("Clean")  BY <1>4 DEF Stages, s1
  <2> QED BY <1>4, <2>1, <2>3, <2>4, PathJoins, LoopsTyped DEF Last
<1>5. CASE r.name \in {"Startup", "Shutdown"}
  <2>1. Stages(r) = <<Last(r)>>  BY <1>5 DEF Stages, Last
  <2>2. NoStage = Before(r, Last(r))  BY <1>5 DEF Before, Last, Stage
  <2> QED BY <2>1, <2>2, PathOfOne
<1> QED BY <1>1, <1>2, <1>3, <1>4, <1>5

Behind == Len(Stages(request)) - Len(agenda)

\* Agenda and stage are where the stages of the operation say.
Course ==
    request # None =>
       /\ Len(agenda) <= Len(Stages(request))
       /\ \A n \in 1..Len(agenda) : agenda[n] = Stages(request)[Behind + n]
       /\ IF Behind = 0 THEN stage = NoStage /\ script = <<>> ELSE stage = Stages(request)[Behind]

\* What lies behind a stage that is entered, and behind an operation that ends.
LEMMA CourseRun ==
    ASSUME TypedState, Course, ~Idle
    PROVE  /\ agenda # <<>> => /\ stage = Before(request, Head(agenda))
                               /\ Head(agenda) \in StagesOf(request)
                               /\ Head(agenda) \in StageSet
           /\ agenda = <<>> => stage = Last(request)
<1>1. request # None /\ request \in AllRequests
  BY OrchestratorAssumption DEF Idle, TypedState, TypeOK
<1> DEFINE all == Stages(request)
<1>2. all \in Seq(StagesOf(request)) /\ Path(request, NoStage, all) /\ Final(NoStage, all) = Last(request)
  BY <1>1, StagesTyped, StagesPath
<1>3. agenda \in Seq(StagesOf(request))  BY DEF TypedState, Plan
<1> HIDE DEF all
<1>4. /\ Behind = Len(all) - Len(agenda) /\ Len(all) \in Nat /\ Len(agenda) \in Nat
      /\ Len(agenda) <= Len(all)
      /\ \A n \in 1..Len(agenda) : agenda[n] = all[Behind + n]
      /\ IF Behind = 0 THEN stage = NoStage ELSE stage = all[Behind]
  BY <1>1, <1>2, <1>3 DEF Course, Behind, all
<1>5. ASSUME agenda # <<>>
      PROVE  stage = Before(request, Head(agenda)) /\ Head(agenda) \in StagesOf(request)
  <2>1. Head(agenda) = agenda[1] /\ 1 \in 1..Len(agenda) /\ Head(agenda) \in StagesOf(request)
    BY <1>3, <1>5, EmptySeq
  <2>2. Behind + 1 \in 1..Len(all) /\ Head(agenda) = all[Behind + 1]  BY <1>4, <2>1
  <2>3. (IF Behind + 1 = 1 THEN NoStage ELSE all[(Behind + 1) - 1]) = Before(request, all[Behind + 1])
    BY <1>2, <2>2 DEF Path
  <2>4. (Behind + 1) - 1 = Behind /\ (Behind + 1 = 1 <=> Behind = 0)  BY <1>4
  <2> QED BY <1>4, <2>1, <2>2, <2>3, <2>4
<1>6. ASSUME agenda = <<>>
      PROVE  stage = Last(request)
  <2>1. Len(agenda) = 0  BY <1>6
  <2>2. Behind = Len(all)  BY <1>4, <2>1
  <2>3. all = <<>> <=> Len(all) = 0  BY <1>2, EmptySeq
  <2> QED BY <1>2, <1>4, <2>2, <2>3 DEF Final
<1> QED BY <1>5, <1>6 DEF StagesOf

\* A step that goes on with the stage, and one that ends the operation.
Stays == /\ UNCHANGED <<request, agenda, stage, operations, uses, observed, outcome>>
         /\ request # None /\ script # <<>> /\ passed \subseteq passed'

Ends == request' = None /\ agenda' = <<>> /\ stage' = NoStage /\ script' = <<>>

Work ==
    \/ RunHook \/ CreateArchive \/ SealArchive \/ PerformStep \/ PassStep
    \/ OverlookStep \/ MisreadStep \/ FailStep

LEMMA FailCases ==
    ASSUME TypedState, FailStep
    PROVE  Stays \/ (Ends /\ Abandon)
<1>1. script # <<>> /\ request # None /\ UNCHANGED <<operations, uses>>
  BY CurrentTyped DEF FailStep
<1>2. ASSUME NEW how \in Hows, Resume(how), Survived(how)
      PROVE  Stays \/ (Ends /\ Abandon)
  <2>1. passed \subseteq passed'  BY <1>2 DEF Survived
  <2>2. CASE Abandon
    BY <2>2 DEF Abandon, Stop, Ends
  <2>3. CASE ~Abandon
    BY <1>1, <1>2, <2>1, <2>3 DEF Resume, Hows, Stays
  <2> QED BY <2>2, <2>3
<1>3. CASE Unattended
  BY <1>1, <1>2, <1>3, CurrentTyped, ProtocolsTyped DEF Unattended, Silent
<1>4. ASSUME NEW d \in Decisions, Ask(d) PROVE Stays \/ (Ends /\ Abandon)
  BY <1>1, <1>2, <1>4, CurrentTyped, ProtocolsTyped DEF Ask, Asks
<1> QED BY <1>3, <1>4 DEF FailStep

\* Every step begins an operation, enters a stage, goes on with it, ends the
\* operation, or happens between operations.
LEMMA Cases ==
    ASSUME TypedState, [Next]_vars
    PROVE  \/ \E r \in Requests : Begin(r)
           \/ EnterStage
           \/ Stays /\ Work
           \/ Ends /\ Succeed /\ UNCHANGED <<resources, passed>>
           \/ request # None /\ Ends /\ Abandon /\ (FailStep \/ Throw)
           \/ Use
           \/ UNCHANGED vars
<1>1. ASSUME RunHook \/ CreateArchive \/ SealArchive \/ PerformStep \/ PassStep
                          \/ OverlookStep \/ MisreadStep
      PROVE  Stays
  <2>1. script # <<>> /\ MoveOn /\ passed \subseteq passed'
    BY <1>1 DEF RunHook, CreateArchive, SealArchive, PerformStep, PassStep, OverlookStep,
       MisreadStep, Advance, Current
  <2>2. request # None  BY <2>1, CurrentTyped
  <2> QED BY <2>1, <2>2 DEF MoveOn, Stays
<1>2. Succeed => Ends /\ UNCHANGED <<resources, passed>>  BY DEF Succeed, Stop, Ends
<1>3. Throw => request # None /\ Ends /\ Abandon
  BY CurrentTyped DEF Throw, Abandon, Stop, Ends
<1>4. FailStep => request # None
  BY CurrentTyped DEF FailStep
<1> QED BY <1>1, <1>2, <1>3, <1>4, FailCases DEF Next, Execute, Work

LEMMA CourseKept ==
    ASSUME TypedState, Course, [Next]_vars
    PROVE  Course'
<1>1. ASSUME NEW r \in Requests, Begin(r) PROVE Course'
  <2>1. request' = r /\ agenda' = Stages(r) /\ stage = NoStage /\ script = <<>>
        /\ UNCHANGED <<stage, script>>
    BY <1>1 DEF Begin, Idle, TypedState, TypeOK
  <2>2. r \in AllRequests  BY OrchestratorAssumption
  <2>3. Len(Stages(r)) \in Nat  BY <2>2, StagesTyped
  <2>4. Behind' = 0  BY <2>1, <2>3 DEF Behind
  <2> QED BY <2>1, <2>3, <2>4 DEF Course
<1>2. CASE EnterStage
  <2>1. /\ request # None /\ request' = request /\ agenda # <<>>
        /\ stage' = Head(agenda) /\ agenda' = Tail(agenda)
    BY <1>2 DEF EnterStage, Idle
  <2>2. request \in AllRequests  BY <2>1, OrchestratorAssumption DEF TypedState, TypeOK
  <2> DEFINE all == Stages(request)
  <2>3. Len(all) \in Nat  BY <2>2, StagesTyped
  <2>4. Behind = Len(all) - Len(agenda) /\ Behind' = Len(all) - Len(agenda')
    BY <2>1 DEF Behind
  <2>5. /\ Len(agenda) <= Len(all)
        /\ \A n \in 1..Len(agenda) : agenda[n] = all[Behind + n]
    BY <2>1 DEF Course
  <2>6. Stages(request)' = all  BY <2>1
  <2>7. agenda \in Seq(StagesOf(request))  BY DEF TypedState, Plan
  <2>8. /\ Len(agenda) \in Nat /\ Len(agenda') = Len(agenda) - 1 /\ Len(agenda) # 0
        /\ Head(agenda) = agenda[1]
        /\ \A n \in 1..Len(agenda') : agenda'[n] = agenda[n + 1]
    BY <2>1, <2>7, EmptySeq, HeadTailProperties
  <2> HIDE DEF all
  <2>9. Behind' = Behind + 1 /\ Behind' # 0  BY <2>3, <2>4, <2>5, <2>8
  <2>10. stage' = all[Behind']  BY <2>1, <2>5, <2>8, <2>9
  <2>11. ASSUME NEW n \in 1..Len(agenda') PROVE agenda'[n] = all[Behind' + n]
    <3>1. n + 1 \in 1..Len(agenda)  BY <2>8
    <3>2. agenda'[n] = all[Behind + (n + 1)]  BY <2>5, <2>8, <3>1
    <3>3. Behind + (n + 1) = Behind' + n  BY <2>3, <2>4, <2>8, <2>9
    <3> QED BY <3>2, <3>3
  <2> QED BY <2>3, <2>5, <2>6, <2>8, <2>9, <2>10, <2>11 DEF Course, all
<1>3. CASE Stays
  <2>1. Behind' = Behind  BY <1>3 DEF Stays, Behind
  <2> QED BY <1>3, <2>1 DEF Stays, Course
<1>4. CASE Ends
  BY <1>4 DEF Ends, Course
<1>5. CASE Use
  BY <1>5 DEF Use, Idle, Course
<1>6. CASE UNCHANGED vars
  BY <1>6 DEF vars, Course, Behind
<1> QED BY <1>1, <1>2, <1>3, <1>4, <1>5, <1>6, Cases

-----------------------------------------------------------------------------
(* The steps that a stage can hold.                                        *)

Of(i) == {s \in Slots : s[1] = i}

Base(s) == s[2] = 0 /\ Blueprint[s[1]] = "Directory"

LEMMA SlotsOf ==
    ASSUME NEW i \in Actions
    PROVE  /\ <<i, 0>> \in Of(i)
           /\ Blueprint[i] # "Directory" => Of(i) = {<<i, 0>>}
           /\ Blueprint[i] = "Directory" =>
                 /\ Entries(i) = 1..DirSize
                 /\ \A k \in 1..DirSize : <<i, k>> \in Of(i) /\ <<i, k>> \in Slots /\ ~Base(<<i, k>>)
                 /\ \A s \in Of(i) : s # <<i, 0>> => \E k \in 1..DirSize : s = <<i, k>>
           /\ \A s \in Of(i) : s \in Slots /\ s \in AllSlots /\ s[1] = i
           /\ NoSlot \notin Of(i)
<1>1. 0 \notin Actions  BY CountType
<1>2. \A k \in 1..DirSize : k # 0  OBVIOUS
<1>3. ASSUME Blueprint[i] = "Directory"
      PROVE  /\ Entries(i) = 1..DirSize
             /\ \A k \in 1..DirSize : <<i, k>> \in Of(i) /\ <<i, k>> \in Slots /\ ~Base(<<i, k>>)
             /\ \A s \in Of(i) : s # <<i, 0>> => \E k \in 1..DirSize : s = <<i, k>>
  <2>1. Entries(i) = 1..DirSize  BY <1>3 DEF Entries
  <2>2. \A k \in 1..DirSize : <<i, k>> \in {i} \X Entries(i)  BY <2>1
  <2>3. \A k \in 1..DirSize : <<i, k>> \in Slots  BY <2>2 DEF Slots
  <2>4. \A k \in 1..DirSize : <<i, k>> \in Of(i) /\ ~Base(<<i, k>>)  BY <1>2, <2>3 DEF Of, Base
  <2>5. \A s \in Of(i) : s # <<i, 0>> => \E k \in 1..DirSize : s = <<i, k>>
    <3> SUFFICES ASSUME NEW s \in Of(i), s # <<i, 0>> PROVE \E k \in 1..DirSize : s = <<i, k>>
      OBVIOUS
    <3>1. PICK j \in Actions : s = <<j, 0>> \/ s \in {j} \X Entries(j)  BY DEF Of, Slots
    <3>2. j = i  BY <3>1 DEF Of
    <3>3. s \in {i} \X (1..DirSize)  BY <2>1, <3>1, <3>2
    <3> QED BY <3>3
  <2> QED BY <2>1, <2>3, <2>4, <2>5
<1> QED BY <1>1, <1>3 DEF Of, Slots, AllSlots, Entries, NoSlot

LEMMA EverySlot ==
    \A s \in Slots : s[1] \in Actions /\ s \in Of(s[1])
BY DEF Of, Slots

\* A backup of action i on machine m.
BackupFits(i, x, m) ==
    /\ x.slot \in Of(i)
    /\ \/ x.do = "exists" /\ x.slot = <<i, 0>>
          /\ x.site = IF Blueprint[i] \in {"File", "Directory"} THEN FileMissing ELSE ValueMissing
       \/ x.do = "list" /\ x.site = Unasked
       \/ /\ x.do = "save" /\ ~Base(x.slot) /\ x.slot \notin Filtered
          /\ Blueprint[i] = "Directory" => m[x.slot] # "Absent"
          /\ x.site \in IF Blueprint[i] = "Directory" THEN {EntryError} ELSE {FileError, ValueError}
       \/ x.do = "pass"

CleanFits(i, x) ==
    /\ x.slot \in Of(i)
    /\ \/ x.do = "list" /\ x.site = Unlisted
       \/ x.do = "drop" /\ x.site \in IF Blueprint[i] = "Directory" THEN {EntryError} ELSE {Unasked, KeyError}
       \/ x.do = "clean" /\ x.slot = <<i, 0>> /\ x.site = CleanError
       \/ x.do = "pass"

\* A restore of action i from archive a.
RestoreFits(i, x, a) ==
    /\ x.slot \in Of(i)
    /\ \/ x.do = "lookup" /\ x.slot = <<i, 0>> /\ x.site = check_archive_exists
       \/ x.do = "conflict" /\ x.slot = <<i, 0>> /\ x.site = Conflict
       \/ x.do = "parent" /\ x.site = FileError /\ Blueprint[i] = "File"
       \/ x.do = "mkdir" /\ x.slot = <<i, 0>> /\ x.site = FileError /\ Blueprint[i] = "Directory"
       \/ /\ x.do = "put" /\ ~Base(x.slot)
          /\ Blueprint[i] = "Directory" => a[x.slot] # "Missing"
          /\ x.site \in IF Blueprint[i] = "Directory" THEN {EntryError} ELSE {FileError, ValueError}
       \/ x.do = "pass"

Fits(st, x) ==
    CASE st.phase \in {"Startup", "Shutdown"} -> x.slot = NoSlot /\ x.site = HookError(st.phase)
      [] st.phase = "Backup" -> BackupFits(st.action, x, machine)
      [] st.phase = "Clean" -> CleanFits(st.action, x)
      [] st.phase = "Restore" -> RestoreFits(st.action, x, archive)
      [] OTHER -> TRUE

FitSet(st) == {x \in StepsIn(st.phase) : Fits(st, x)}

\* The script holds only steps that fit its stage.
Fitting == script \in Seq(FitSet(stage))

\* A sequence of steps holds one that does this to that slot.
Holds(s, do, slot) == \E n \in 1..Len(s) : s[n].do = do /\ s[n].slot = slot

LEMMA HeadOfJoined ==
    ASSUME NEW S, NEW s \in Seq(S), s # <<>>, NEW t \in Seq(S)
    PROVE  s \o t \in Seq(S) /\ s \o t # <<>> /\ Head(s \o t) = s[1]
<1>1. Len(s) \in Nat \ {0} /\ Len(t) \in Nat  BY EmptySeq, LenProperties
<1>2. s \o t \in Seq(S) /\ Len(s \o t) = Len(s) + Len(t) /\ (s \o t)[1] = s[1]
  BY <1>1, ConcatProperties
<1> QED BY <1>1, <1>2, HeadTailProperties

LEMMA HoldsJoined ==
    ASSUME NEW S, NEW s \in Seq(S), NEW t \in Seq(S), NEW do, NEW slot
    PROVE  /\ Holds(s, do, slot) => Holds(s \o t, do, slot)
           /\ Holds(t, do, slot) => Holds(s \o t, do, slot)
<1>1. /\ Len(s \o t) = Len(s) + Len(t) /\ Len(s) \in Nat /\ Len(t) \in Nat
      /\ \A n \in 1..Len(s) : n \in 1..Len(s \o t) /\ (s \o t)[n] = s[n]
      /\ \A n \in 1..Len(t) : Len(s) + n \in 1..Len(s \o t) /\ (s \o t)[Len(s) + n] = t[n]
  OBVIOUS
<1>2. Holds(s, do, slot) => Holds(s \o t, do, slot)  BY <1>1 DEF Holds
<1>3. Holds(t, do, slot) => Holds(s \o t, do, slot)  BY <1>1 DEF Holds
<1> QED BY <1>2, <1>3

LEMMA HoldsOn ==
    ASSUME NEW S, NEW s \in Seq(S), s # <<>>, NEW do, NEW slot, Holds(s, do, slot)
    PROVE  (Head(s).do = do /\ Head(s).slot = slot) \/ Holds(Tail(s), do, slot)
<1>1. /\ Head(s) = s[1] /\ Len(Tail(s)) = Len(s) - 1 /\ Len(s) \in Nat
      /\ \A n \in 1..Len(Tail(s)) : Tail(s)[n] = s[n + 1]
  BY HeadTailProperties, LenProperties
<1>2. PICK n \in 1..Len(s) : s[n].do = do /\ s[n].slot = slot  BY DEF Holds
<1>3. CASE n # 1
  <2>1. n - 1 \in 1..Len(Tail(s)) /\ (n - 1) + 1 = n  BY <1>1, <1>3
  <2>2. Tail(s)[n - 1] = s[n]  BY <1>1, <2>1
  <2> QED BY <1>2, <2>1, <2>2 DEF Holds
<1> QED BY <1>1, <1>2, <1>3

\* The loop over the entries of a directory, with steps of a set S.
LEMMA ForEachFits ==
    ASSUME NEW S, NEW do, NEW i \in Actions, Blueprint[i] = "Directory", NEW p, NEW E,
           \A k \in 1..DirSize : Step(IF k \in E THEN do ELSE "pass", <<i, k>>, p) \in S
    PROVE  /\ ForEach(do, i, E, p) \in Seq(S)
           /\ Len(ForEach(do, i, E, p)) = DirSize
           /\ \A k \in 1..DirSize \cap E : Holds(ForEach(do, i, E, p), do, <<i, k>>)
<1> DEFINE loop == [k \in 1..DirSize |-> Step(IF k \in E THEN do ELSE "pass", <<i, k>>, p)]
<1>1. DirSize \in Nat  BY OrchestratorAssumption
<1>2. loop \in [1..DirSize -> S] /\ DOMAIN loop = 1..DirSize  OBVIOUS
<1>3. loop \in Seq(S) /\ Len(loop) = DirSize  BY <1>1, <1>2, SeqDef
<1>4. \A k \in 1..DirSize \cap E : loop[k].do = do /\ loop[k].slot = <<i, k>>  BY DEF Step
<1> HIDE DEF loop
<1>5. \A k \in 1..DirSize \cap E : Holds(loop, do, <<i, k>>)  BY <1>3, <1>4 DEF Holds
<1> QED BY <1>3, <1>5 DEF ForEach, loop

\* What a backup of action i does to machine m: it saves what it can.
LEMMA BackupScript ==
    ASSUME NEW i \in Actions, NEW m
    PROVE  /\ BackupSteps(i, m) \in Seq({x \in StepsIn("Backup") : BackupFits(i, x, m)})
           /\ \A s \in Of(i) : \/ Base(s) \/ s \in Filtered
                               \/ Blueprint[i] = "Directory" /\ m[s] = "Absent"
                               \/ Holds(BackupSteps(i, m), "save", s)
<1> DEFINE T == {x \in StepsIn("Backup") : BackupFits(i, x, m)}
           base == <<i, 0>>
           kind == Blueprint[i]
<1>1. \A d \in Looks \cup Changes, s \in Of(i), p \in Firm :
         Step(d, s, p) \in StepsIn("Backup") /\ Step(d, s, p).do = d /\ Step(d, s, p).slot = s
         /\ Step(d, s, p).site = p
  BY StepTyped, SlotsOf DEF StepsIn, Step
<1>2. {"exists", "list", "save", "pass"} \subseteq Looks \cup Changes  BY DEF Looks, Changes
<1>3. {FileMissing, FileError, Unasked, EntryError, ValueError, ValueMissing} \subseteq Firm  BY DEF Firm
<1>4. base \in Of(i)  BY SlotsOf
<1>5. Step("exists", base, IF kind \in {"File", "Directory"} THEN FileMissing ELSE ValueMissing) \in T
  BY <1>1, <1>2, <1>3, <1>4 DEF BackupFits
<1>6. CASE kind # "Directory"
  <2>1. Of(i) = {base} /\ ~Base(base)  BY <1>6, SlotsOf DEF Base
  <2>2. CASE base \in Filtered
    BY <2>2, OrchestratorAssumption DEF Filtered
  <2>3. CASE base \notin Filtered
    <3>1. Step("save", base, FileError) \in T /\ Step("save", base, ValueError) \in T
      <4>1. ASSUME NEW p \in {FileError, ValueError} PROVE Step("save", base, p) \in T
        <5> DEFINE y == Step("save", base, p)
        <5>1. y \in StepsIn("Backup") /\ y.do = "save" /\ y.slot = base /\ y.site = p
          BY <1>1, <1>2, <1>3, <1>4, <4>1
        <5> HIDE DEF y
        <5>2. BackupFits(i, y, m)  BY <1>4, <1>6, <2>1, <2>3, <4>1, <5>1 DEF BackupFits
        <5> QED BY <5>1, <5>2 DEF y
      <4> QED BY <4>1
    <3>2. kind = "File" => <<Step("exists", base, FileMissing), Step("save", base, FileError)>> \in Seq(T)
      BY <1>5, <3>1, Scripts
    <3>3. kind \in {"Hosts", "Service", "Registry"} =>
            <<Step("exists", base, ValueMissing), Step("save", base, ValueError)>> \in Seq(T)
      BY <1>5, <3>1, Scripts
    <3>4. <<Step("save", base, ValueError)>> \in Seq(T)  BY <3>1, Scripts
    <3> HIDE DEF T
    <3>5. kind \in Kinds  BY ActionsAreSlots
    <3>6. BackupSteps(i, m) \in Seq(T)
      BY <1>6, <3>2, <3>3, <3>4, <3>5 DEF BackupSteps, FileBackup, ListBackup, EnvironmentBackup,
         HostsBackup, ServiceBackup, RegistryBackup, Kinds
    <3>7. \A a, b : /\ Holds(<<a, Step("save", base, b)>>, "save", base)
                    /\ Holds(<<Step("save", base, b)>>, "save", base)
      <4> SUFFICES ASSUME NEW a, NEW b
                   PROVE  /\ Holds(<<a, Step("save", base, b)>>, "save", base)
                          /\ Holds(<<Step("save", base, b)>>, "save", base)
        OBVIOUS
      <4>1. /\ Len(<<a, Step("save", base, b)>>) = 2 /\ <<a, Step("save", base, b)>>[2].do = "save"
            /\ <<a, Step("save", base, b)>>[2].slot = base
            /\ Len(<<Step("save", base, b)>>) = 1 /\ <<Step("save", base, b)>>[1].do = "save"
            /\ <<Step("save", base, b)>>[1].slot = base
        BY DEF Step
      <4> QED BY <4>1 DEF Holds
    <3>8. Holds(BackupSteps(i, m), "save", base)
      BY <1>6, <3>5, <3>7 DEF BackupSteps, FileBackup, ListBackup, EnvironmentBackup,
         HostsBackup, ServiceBackup, RegistryBackup, Kinds
    <3> QED BY <2>1, <3>6, <3>8 DEF T
  <2> QED BY <2>2, <2>3
<1>7. CASE kind = "Directory"
  <2> DEFINE loop == backup_files(i, m)
             look == <<Step("exists", base, FileMissing), Step("list", base, Unasked)>>
  <2>1. \A k \in 1..DirSize : Step(IF k \in collect_entries(i, m) THEN "save" ELSE "pass", <<i, k>>, EntryError) \in T
    <3> SUFFICES ASSUME NEW k \in 1..DirSize
                 PROVE  Step(IF k \in collect_entries(i, m) THEN "save" ELSE "pass", <<i, k>>, EntryError) \in T
      OBVIOUS
    <3>1. <<i, k>> \in Of(i) /\ ~Base(<<i, k>>)  BY <1>7, SlotsOf
    <3>2. CASE k \in collect_entries(i, m)
      <4>1. <<i, k>> \notin Filtered /\ m[<<i, k>>] # "Absent"
        BY <3>2 DEF collect_entries, Present, Filtered
      <4>2. Step("save", <<i, k>>, EntryError) \in T
        BY <1>1, <1>2, <1>3, <1>7, <3>1, <4>1 DEF BackupFits
      <4> QED BY <3>2, <4>2
    <3>3. Step("pass", <<i, k>>, EntryError) \in T
      BY <1>1, <1>2, <1>3, <3>1 DEF BackupFits
    <3> QED BY <3>2, <3>3
  <2>2. /\ loop \in Seq(T)
        /\ \A k \in 1..DirSize \cap collect_entries(i, m) : Holds(loop, "save", <<i, k>>)
    BY <1>7, <2>1, ForEachFits DEF backup_files
  <2>3. look \in Seq(T)
    <3>1. Step("list", base, Unasked) \in T  BY <1>1, <1>2, <1>3, <1>4 DEF BackupFits
    <3>2. Step("exists", base, FileMissing) \in T  BY <1>5, <1>7
    <3> QED BY <3>1, <3>2, Scripts
  <2>4. BackupSteps(i, m) = look \o loop  BY <1>7 DEF BackupSteps, DirectoryBackup
  <2>5. \A s \in Of(i) : Base(s) \/ \E k \in 1..DirSize : s = <<i, k>>
    <3>1. Base(base)  BY <1>7 DEF Base
    <3> QED BY <1>7, <3>1, SlotsOf
  <2>6. \A k \in 1..DirSize : <<i, k>> \in Filtered \/ m[<<i, k>>] = "Absent" \/ k \in collect_entries(i, m)
    BY <1>7, SlotsOf DEF collect_entries, Present, Filtered
  <2> HIDE DEF T, loop, look
  <2>7. look \o loop \in Seq(T)  BY <2>2, <2>3, Scripts
  <2>8. \A k \in 1..DirSize \cap collect_entries(i, m) : Holds(look \o loop, "save", <<i, k>>)
    BY <2>2, <2>3, HoldsJoined
  <2> QED BY <1>7, <2>4, <2>5, <2>6, <2>7, <2>8 DEF T
<1> QED BY <1>6, <1>7

\* The last step is a drop of the resource of action i itself, or the question
\* of IAction::clean.
EndsIn(s, i) == s # <<>> /\ s[Len(s)].slot = <<i, 0>> /\ s[Len(s)].do \in {"drop", "clean"}

LEMMA EndsInJoined ==
    ASSUME NEW S, NEW s \in Seq(S), NEW t \in Seq(S), NEW i
    PROVE  /\ EndsIn(t, i) => EndsIn(s \o t, i)
           /\ s # <<>> /\ EndsIn(s, i) => EndsIn(<<s[Len(s)]>>, i) /\ (Tail(s) # <<>> => EndsIn(Tail(s), i))
<1>1. ASSUME EndsIn(t, i) PROVE EndsIn(s \o t, i)
  <2>1. t # <<>> /\ Len(t) \in 1..Len(t) /\ Len(s) \in Nat /\ Len(t) \in Nat
    BY <1>1, EmptySeq, LenProperties DEF EndsIn
  <2>2. Len(s \o t) = Len(s) + Len(t) /\ (s \o t)[Len(s) + Len(t)] = t[Len(t)]  BY <2>1
  <2>3. s \o t # <<>>  BY <2>1, <2>2
  <2> QED BY <1>1, <2>2, <2>3 DEF EndsIn
<1>2. ASSUME s # <<>>, EndsIn(s, i)
      PROVE  EndsIn(<<s[Len(s)]>>, i) /\ (Tail(s) # <<>> => EndsIn(Tail(s), i))
  <2>1. /\ Tail(s) \in Seq(S) /\ Len(Tail(s)) = Len(s) - 1 /\ Len(s) \in Nat
        /\ \A n \in 1..Len(Tail(s)) : Tail(s)[n] = s[n + 1]
    BY <1>2, HeadTailProperties, LenProperties
  <2>2. ASSUME Tail(s) # <<>> PROVE Tail(s)[Len(Tail(s))] = s[Len(s)]
    <3>1. Len(Tail(s)) \in 1..Len(Tail(s))  BY <2>1, <2>2, EmptySeq, LenProperties
    <3> QED BY <2>1, <3>1
  <2>3. <<s[Len(s)]>> # <<>> /\ <<s[Len(s)]>>[Len(<<s[Len(s)]>>)] = s[Len(s)]  OBVIOUS
  <2> QED BY <1>2, <2>2, <2>3 DEF EndsIn
<1> QED BY <1>1, <1>2

\* What a clean of action i does on machine m: it drops what is there.
LEMMA CleanScript ==
    ASSUME NEW i \in Actions, NEW m, NEW simulate \in BOOLEAN
    PROVE  /\ CleanSteps(i, m, simulate) \in Seq({x \in StepsIn("Clean") : CleanFits(i, x)})
           /\ \A n \in 1..Len(CleanSteps(i, m, simulate)) : CleanSteps(i, m, simulate)[n].do # "clean"
           /\ WellFormed(m) /\ ~simulate => \/ \A s \in Of(i) : m[s] = "Absent"
                                            \/ EndsIn(CleanSteps(i, m, simulate), i)
<1> DEFINE T == {x \in StepsIn("Clean") : CleanFits(i, x) /\ x.do # "clean"}
           base == <<i, 0>>
           kind == Blueprint[i]
<1>1. \A d \in Looks \cup Changes, s \in Of(i), p \in Firm :
         Step(d, s, p) \in StepsIn("Clean") /\ Step(d, s, p).do = d /\ Step(d, s, p).slot = s
         /\ Step(d, s, p).site = p
  BY StepTyped, SlotsOf DEF StepsIn, Step
<1>2. {"list", "drop", "pass"} \subseteq Looks \cup Changes  BY DEF Looks, Changes
<1>3. {Unasked, Unlisted, EntryError, KeyError} \subseteq Firm  BY DEF Firm
<1>4. base \in Of(i)  BY SlotsOf
<1>5. \A p : EndsIn(<<Step("drop", base, p)>>, i)  BY DEF EndsIn, Step
<1>6. Gone(i, m) \in BOOLEAN /\ (simulate \/ Gone(i, m)) \in BOOLEAN  BY DEF Gone
<1>7. WellFormed(m) /\ Gone(i, m) => \A s \in Of(i) : m[s] = "Absent"
  BY SlotsOf DEF WellFormed, Gone, Entries
<1>8. <<>> \in Seq(T)  BY Scripts
<1>9. ASSUME kind # "Directory"
      PROVE  /\ CleanSteps(i, m, simulate) \in Seq(T)
             /\ WellFormed(m) /\ ~simulate => \/ \A s \in Of(i) : m[s] = "Absent"
                                              \/ EndsIn(CleanSteps(i, m, simulate), i)
  <2>1. Step("drop", base, Unasked) \in T /\ Step("drop", base, KeyError) \in T
    BY <1>1, <1>2, <1>3, <1>4, <1>9 DEF CleanFits
  <2>2. <<Step("drop", base, Unasked)>> \in Seq(T) /\ <<Step("drop", base, KeyError)>> \in Seq(T)
    BY <2>1, Scripts
  <2> HIDE DEF T
  <2>3. kind \in Kinds  BY ActionsAreSlots
  <2>4. \/ CleanSteps(i, m, simulate) = <<>> /\ (simulate \/ Gone(i, m))
        \/ CleanSteps(i, m, simulate) = <<Step("drop", base, Unasked)>>
        \/ CleanSteps(i, m, simulate) = <<Step("drop", base, KeyError)>>
    BY <1>6, <1>9, <2>3 DEF CleanSteps, FileClean, ListClean, EnvironmentClean, HostsClean,
       ServiceClean, RegistryClean, Real, Kinds
  <2> QED BY <1>5, <1>7, <1>8, <2>2, <2>4
<1>10. ASSUME kind = "Directory"
      PROVE  /\ CleanSteps(i, m, simulate) \in Seq(T)
             /\ WellFormed(m) /\ ~simulate => \/ \A s \in Of(i) : m[s] = "Absent"
                                              \/ EndsIn(CleanSteps(i, m, simulate), i)
  <2> DEFINE list == <<Step("list", base, Unlisted)>>
             loop == clean_files(i, m)
             last == clean_directories(i)
  <2>1. \A k \in 1..DirSize : Step(IF k \in Present(i, m) THEN "drop" ELSE "pass", <<i, k>>, EntryError) \in T
    <3> SUFFICES ASSUME NEW k \in 1..DirSize
                 PROVE  Step(IF k \in Present(i, m) THEN "drop" ELSE "pass", <<i, k>>, EntryError) \in T
      OBVIOUS
    <3>1. <<i, k>> \in Of(i)  BY <1>10, SlotsOf
    <3>2. Step("drop", <<i, k>>, EntryError) \in T /\ Step("pass", <<i, k>>, EntryError) \in T
      BY <1>1, <1>2, <1>3, <1>10, <3>1 DEF CleanFits
    <3> QED BY <3>2
  <2>2. loop \in Seq(T)  BY <1>10, <2>1, ForEachFits DEF clean_files
  <2>3. Step("list", base, Unlisted) \in T /\ Step("drop", base, EntryError) \in T
    BY <1>1, <1>2, <1>3, <1>4, <1>10 DEF CleanFits
  <2>4. list \in Seq(T) /\ last \in Seq(T) /\ EndsIn(last, i)
    BY <1>5, <2>3, Scripts DEF clean_directories
  <2>5. CleanSteps(i, m, simulate) =
          IF Gone(i, m) THEN <<>> ELSE list \o (IF simulate THEN <<>> ELSE loop \o last)
    BY <1>10 DEF CleanSteps, DirectoryClean, Real
  <2> HIDE DEF T, list, loop, last
  <2>6. loop \o last \in Seq(T) /\ EndsIn(loop \o last, i)  BY <2>2, <2>4, Scripts, EndsInJoined
  <2>7. /\ list \o (loop \o last) \in Seq(T) /\ EndsIn(list \o (loop \o last), i)
        /\ list \o <<>> \in Seq(T)
    BY <1>8, <2>4, <2>6, Scripts, EndsInJoined
  <2> QED BY <1>7, <1>8, <2>5, <2>7
<1>11. \A s \in Seq(T) : /\ s \in Seq({x \in StepsIn("Clean") : CleanFits(i, x)})
                         /\ \A n \in 1..Len(s) : s[n].do # "clean"
  <2> SUFFICES ASSUME NEW s \in Seq(T)
               PROVE  /\ s \in Seq({x \in StepsIn("Clean") : CleanFits(i, x)})
                      /\ \A n \in 1..Len(s) : s[n].do # "clean"
    OBVIOUS
  <2>1. \A n \in 1..Len(s) : s[n] \in T  BY ElementOfSeq
  <2>2. \A n \in 1..Len(s) : s[n] \in {x \in StepsIn("Clean") : CleanFits(i, x)} /\ s[n].do # "clean"
    BY <2>1
  <2> HIDE DEF T
  <2> QED BY <2>2, SeqDef, LenProperties
<1>12. CleanSteps(i, m, simulate) \in Seq(T)  BY <1>9, <1>10
<1> HIDE DEF T
<1> QED BY <1>9, <1>10, <1>11, <1>12

\* Nothing is put into a directory before it is made.
MountsFirst(s) ==
    \A n \in 1..Len(s) : s[n].do = "put" => \E k \in 1..(n - 1) : s[k].do = "mkdir"

LEMMA MountsJoined ==
    ASSUME NEW S, NEW s \in Seq(S), NEW t \in Seq(S),
           \A n \in 1..Len(s) : s[n].do # "put",
           \E n \in 1..Len(s) : s[n].do = "mkdir"
    PROVE  MountsFirst(s \o t)
<1>1. /\ Len(s \o t) = Len(s) + Len(t) /\ Len(s) \in Nat /\ Len(t) \in Nat
      /\ \A n \in 1..Len(s) : (s \o t)[n] = s[n]
  OBVIOUS
<1>2. PICK k \in 1..Len(s) : s[k].do = "mkdir"  OBVIOUS
<1>3. ASSUME NEW n \in 1..Len(s \o t), (s \o t)[n].do = "put"
      PROVE  k \in 1..(n - 1) /\ (s \o t)[k].do = "mkdir"
  <2>1. n \notin 1..Len(s)  BY <1>1, <1>3
  <2>2. n > Len(s)  BY <1>1, <2>1
  <2> QED BY <1>1, <1>2, <2>2
<1> QED BY <1>3 DEF MountsFirst

LEMMA MountsOn ==
    ASSUME NEW S, NEW s \in Seq(S), s # <<>>, Head(s).do # "mkdir", MountsFirst(s)
    PROVE  MountsFirst(Tail(s)) /\ Head(s).do # "put"
<1>1. /\ Head(s) = s[1] /\ Len(Tail(s)) = Len(s) - 1 /\ Len(s) \in Nat /\ 1 \in 1..Len(s)
      /\ \A n \in 1..Len(Tail(s)) : Tail(s)[n] = s[n + 1]
  BY EmptySeq, HeadTailProperties, LenProperties
<1>2. ASSUME NEW n \in 1..Len(Tail(s)), Tail(s)[n].do = "put"
      PROVE  \E k \in 1..(n - 1) : Tail(s)[k].do = "mkdir"
  <2>1. n + 1 \in 1..Len(s) /\ s[n + 1].do = "put" /\ (n + 1) - 1 = n  BY <1>1, <1>2
  <2>2. PICK k \in 1..n : s[k].do = "mkdir"  BY <2>1 DEF MountsFirst
  <2>3. k # 1  BY <1>1, <2>2
  <2>4. k - 1 \in 1..(n - 1) /\ k - 1 \in 1..Len(Tail(s)) /\ (k - 1) + 1 = k  BY <1>1, <2>3
  <2> QED BY <1>1, <2>2, <2>4
<1>3. Head(s).do # "put"  BY <1>1 DEF MountsFirst
<1> QED BY <1>2, <1>3 DEF MountsFirst

LEMMA MountsLast ==
    ASSUME NEW S, NEW s \in Seq(S)
    PROVE  s = <<>> => MountsFirst(s)
BY DEF MountsFirst

\* The archive of a directory holds its entries, never the directory.
BasesMissing(a) == \A s \in Slots : Base(s) => a[s] = "Missing"

\* What a restore of action i does with archive a: it looks for the action in the
\* archive first, and puts back what is there.
LEMMA RestoreScript ==
    ASSUME NEW i \in Actions, NEW a, NEW simulate \in BOOLEAN
    PROVE  /\ RestoreSteps(i, a, simulate) \in Seq({x \in StepsIn("Restore") : RestoreFits(i, x, a)})
           /\ RestoreSteps(i, a, simulate) # <<>>
           /\ Head(RestoreSteps(i, a, simulate)).do = "lookup"
           /\ Blueprint[i] = "Directory" => MountsFirst(RestoreSteps(i, a, simulate))
           /\ BasesMissing(a) /\ ~simulate =>
                 \A s \in Of(i) : \/ Saved(a)[s] = "Absent"
                                  \/ Holds(RestoreSteps(i, a, simulate), IF Base(s) THEN "mkdir" ELSE "put", s)
<1> DEFINE T == {x \in StepsIn("Restore") : RestoreFits(i, x, a)}
           P == Firm \cup {check_archive_exists}
           base == <<i, 0>>
           kind == Blueprint[i]
<1>1. \A d \in Looks \cup Changes, s \in Of(i), p \in P :
         Step(d, s, p) \in StepsIn("Restore") /\ Step(d, s, p).do = d /\ Step(d, s, p).slot = s
         /\ Step(d, s, p).site = p
  BY StepTyped, SlotsOf DEF StepsIn, Step
<1>2. {"lookup", "conflict", "parent", "mkdir", "put", "pass"} \subseteq Looks \cup Changes
  BY DEF Looks, Changes
<1>3. {FileError, EntryError, ValueError, Conflict, check_archive_exists} \subseteq P  BY DEF Firm
<1>4. base \in Of(i) /\ base \in Slots  BY SlotsOf
<1>5. Step("lookup", base, check_archive_exists) \in T  BY <1>1, <1>2, <1>3, <1>4 DEF RestoreFits
<1>6. Step("conflict", base, Conflict) \in T  BY <1>1, <1>2, <1>3, <1>4 DEF RestoreFits
<1>7. Lookup(i) \in Seq(T) /\ Lookup(i) # <<>> /\ Len(Lookup(i)) = 1
      /\ Lookup(i)[1] = Step("lookup", base, check_archive_exists)
  BY <1>5, Scripts DEF Lookup
<1>8. \A t \in Seq(T) : /\ Lookup(i) \o t \in Seq(T) /\ Lookup(i) \o t # <<>>
                        /\ Head(Lookup(i) \o t).do = "lookup"
  <2> SUFFICES ASSUME NEW t \in Seq(T)
               PROVE  /\ Lookup(i) \o t \in Seq(T) /\ Lookup(i) \o t # <<>>
                      /\ Head(Lookup(i) \o t).do = "lookup"
    OBVIOUS
  <2> DEFINE look == Lookup(i)
  <2>1. Step("lookup", base, check_archive_exists).do = "lookup"  BY DEF Step
  <2>2. look \in Seq(T) /\ look # <<>> /\ look[1].do = "lookup"  BY <1>7, <2>1
  <2> HIDE DEF T, look
  <2>3. look \o t \in Seq(T) /\ look \o t # <<>> /\ Head(look \o t).do = "lookup"
    BY <2>2, HeadOfJoined
  <2> QED BY <2>3 DEF look
<1>9. <<>> \in Seq(T)  BY Scripts
<1>10. CASE kind # "Directory"
  <2>1. Of(i) = {base} /\ ~Base(base)  BY <1>10, SlotsOf DEF Base
  <2>2. Step("put", base, FileError) \in T /\ Step("put", base, ValueError) \in T
    <3>1. ASSUME NEW p \in {FileError, ValueError} PROVE Step("put", base, p) \in T
      <4> DEFINE y == Step("put", base, p)
      <4>1. y \in StepsIn("Restore") /\ y.do = "put" /\ y.slot = base /\ y.site = p
        BY <1>1, <1>2, <1>3, <1>4, <3>1
      <4> HIDE DEF y
      <4>2. RestoreFits(i, y, a)  BY <1>4, <1>10, <2>1, <3>1, <4>1 DEF RestoreFits
      <4> QED BY <4>1, <4>2 DEF y
    <3> QED BY <3>1
  <2>3. kind = "File" => Step("parent", base, FileError) \in T
    BY <1>1, <1>2, <1>3, <1>4 DEF RestoreFits
  <2> DEFINE file == <<Step("conflict", base, Conflict), Step("parent", base, FileError),
                       Step("put", base, FileError)>>
             value == <<Step("put", base, ValueError)>>
  <2>4. (kind = "File" => file \in Seq(T)) /\ value \in Seq(T)  BY <1>6, <2>2, <2>3, Scripts
  <2>5. Holds(file, "put", base) /\ Holds(value, "put", base)
    <3>1. Len(file) = 3 /\ file[3].do = "put" /\ file[3].slot = base  BY DEF Step
    <3>2. Len(value) = 1 /\ value[1].do = "put" /\ value[1].slot = base  BY DEF Step
    <3> HIDE DEF file, value
    <3> QED BY <3>1, <3>2 DEF Holds
  <2>6. a[base] = "Missing" => Saved(a)[base] = "Absent"  BY <1>4, <1>10 DEF Saved
  <2>7. kind \in Kinds  BY ActionsAreSlots
  <2> HIDE DEF T
  <2>8. PICK t \in Seq(T) : /\ RestoreSteps(i, a, simulate) = Lookup(i) \o t
                            /\ ~simulate => a[base] = "Missing" \/ Holds(t, "put", base)
    <3>1. CASE kind = "File"
      <4>1. RestoreSteps(i, a, simulate) = Lookup(i) \o (IF simulate THEN <<>> ELSE file)
        BY <3>1 DEF RestoreSteps, FileRestore, Real
      <4> HIDE DEF file
      <4> QED BY <1>9, <2>4, <2>5, <3>1, <4>1
    <3>2. CASE kind # "File"
      <4>1. \/ RestoreSteps(i, a, simulate) = Lookup(i) \o (IF simulate THEN <<>> ELSE value)
            \/ RestoreSteps(i, a, simulate) = Lookup(i) \o value
            \/ RestoreSteps(i, a, simulate) = Lookup(i) \o (IF simulate \/ a[base] = "Missing" THEN <<>> ELSE value)
        BY <1>10, <2>7, <3>2 DEF RestoreSteps, ListRestore, EnvironmentRestore, HostsRestore,
           ServiceRestore, RegistryRestore, Real, Kinds
      <4> HIDE DEF value
      <4> QED BY <1>9, <2>4, <2>5, <4>1
    <3> QED BY <3>1, <3>2
  <2>9. ~simulate => a[base] = "Missing" \/ Holds(Lookup(i) \o t, "put", base)
    BY <1>7, <2>8, HoldsJoined
  <2> QED BY <1>8, <1>10, <2>1, <2>6, <2>8, <2>9 DEF T
<1>11. CASE kind = "Directory"
  <2> DEFINE make == <<Step("conflict", base, Conflict), Step("mkdir", base, FileError)>>
             loop == restore_files(i, a)
             rest == IF simulate THEN <<>> ELSE loop
             first == Lookup(i) \o make
  <2>1. \A k \in 1..DirSize : Step(IF k \in Stored(i, a) THEN "put" ELSE "pass", <<i, k>>, EntryError) \in T
    <3> SUFFICES ASSUME NEW k \in 1..DirSize
                 PROVE  Step(IF k \in Stored(i, a) THEN "put" ELSE "pass", <<i, k>>, EntryError) \in T
      OBVIOUS
    <3>1. <<i, k>> \in Of(i) /\ ~Base(<<i, k>>)  BY <1>11, SlotsOf
    <3>2. CASE k \in Stored(i, a)
      <4>1. a[<<i, k>>] # "Missing"  BY <3>2 DEF Stored
      <4>2. Step("put", <<i, k>>, EntryError) \in T
        BY <1>1, <1>2, <1>3, <1>11, <3>1, <4>1 DEF RestoreFits
      <4> QED BY <3>2, <4>2
    <3>3. Step("pass", <<i, k>>, EntryError) \in T
      BY <1>1, <1>2, <1>3, <3>1 DEF RestoreFits
    <3> QED BY <3>2, <3>3
  <2>2. /\ loop \in Seq(T)
        /\ \A k \in 1..DirSize \cap Stored(i, a) : Holds(loop, "put", <<i, k>>)
    BY <1>11, <2>1, ForEachFits DEF restore_files
  <2>3. Step("mkdir", base, FileError) \in T
    BY <1>1, <1>2, <1>3, <1>4, <1>11 DEF RestoreFits
  <2>4. make \in Seq(T)  BY <1>6, <2>3, Scripts
  <2>5. RestoreSteps(i, a, simulate) = first \o rest
    BY <1>11 DEF RestoreSteps, DirectoryRestore, Real
  <2>6. /\ Len(first) = 3 /\ first[1].do = "lookup" /\ first[2].do = "conflict"
        /\ first[3].do = "mkdir" /\ first[3].slot = base
    BY DEF Lookup, Step
  <2> HIDE DEF loop, make
  <2>7. first \in Seq(T)  BY <1>8, <2>4
  <2>8. rest \in Seq(T)  BY <1>9, <2>2
  <2> HIDE DEF T, rest, first
  <2>9. /\ first \o rest \in Seq(T) /\ first \o rest # <<>> /\ Head(first \o rest).do = "lookup"
    <3>1. first # <<>>  BY <2>6
    <3> QED BY <2>6, <2>7, <2>8, <3>1, HeadOfJoined
  <2>10. MountsFirst(first \o rest)
    <3>1. \A n \in 1..Len(first) : first[n].do # "put"
      <4>1. \A n \in 1..3 : n = 1 \/ n = 2 \/ n = 3  OBVIOUS
      <4> QED BY <2>6, <4>1
    <3>2. \E n \in 1..Len(first) : first[n].do = "mkdir"  BY <2>6
    <3> QED BY <2>7, <2>8, <3>1, <3>2, MountsJoined
  <2>11. ASSUME BasesMissing(a), ~simulate, NEW s \in Of(i)
         PROVE  \/ Saved(a)[s] = "Absent"
                \/ Holds(first \o rest, IF Base(s) THEN "mkdir" ELSE "put", s)
    <3>1. CASE s = base
      <4>1. Base(s)  BY <1>11, <3>1 DEF Base
      <4>2. Holds(first, "mkdir", base)  BY <2>6 DEF Holds
      <4> QED BY <2>7, <2>8, <3>1, <4>1, <4>2, HoldsJoined
    <3>2. CASE s # base
      <4>1. PICK k \in 1..DirSize : s = <<i, k>>  BY <1>11, <3>2, SlotsOf
      <4>2. ~Base(s) /\ s \in Slots  BY <1>11, <4>1, SlotsOf
      <4>3. CASE k \in Stored(i, a)
        <5>1. Holds(rest, "put", s)  BY <2>2, <2>11, <4>1, <4>3 DEF rest
        <5> QED BY <2>7, <2>8, <4>2, <5>1, HoldsJoined
      <4>4. CASE k \notin Stored(i, a)
        <5>1. a[s] = "Missing"  BY <1>11, <4>1, <4>4, SlotsOf DEF Stored
        <5> QED BY <4>2, <5>1 DEF Saved, Base
      <4> QED BY <4>3, <4>4
    <3> QED BY <3>1, <3>2
  <2> QED BY <1>11, <2>5, <2>9, <2>10, <2>11 DEF T
<1> QED BY <1>10, <1>11

-----------------------------------------------------------------------------
(* What a step of each stage does.                                         *)

\* Nobody is asked, nothing is read wrongly, and what exists is not taken for
\* missing: what an operation does is then known whatever fails.
Careful ==
    /\ ErrorAnswers = {} /\ Faults \cap {"overlook", "corrupt"} = {}
    /\ "error" \in Faults =>
          \A i \in Actions : Blueprint[i] \notin {"Hosts", "Service", "Registry"}

\* Action i has survived a failure that may show in its result.
Excused(i) == ~Careful /\ \E p \in passed : p[1] = i

\* Machine, archive and callback are what the operations leave.
Sane ==
    /\ WellFormed(machine)
    /\ \A s \in Slots : Base(s) => machine[s] \in {"Absent", "Empty"}
    /\ BasesMissing(archive)
    /\ skip_all => ErrorAnswers # {}
    /\ silenced => skip_all
    /\ stage.phase \in {"Create", "Seal", "Open"} => Len(script) <= 1

\* What a protocol can say comes next.
HowsOf(p) == ({p.silent, p.alone} \cup {p.answers[d] : d \in DOMAIN p.answers}) \ {"ask"}

LEMMA Sites ==
    /\ \A l \in {"Startup", "Shutdown"} : HowsOf(HookError(l)) \subseteq {"next", "fail"}
    /\ HowsOf(WriterError) = {"fail"} /\ HowsOf(Unasked) = {"fail"} /\ HowsOf(KeyError) = {"fail"}
    /\ HowsOf(Unlisted) = {"last"} /\ Unlisted.alone = "last"
    /\ HowsOf(EntryError) \subseteq {"next", "again", "fail"} /\ EntryError.alone = "fail"
    /\ HowsOf(FileError) \subseteq {"done", "fail"} /\ FileError.alone = "fail"
    /\ HowsOf(FileMissing) \subseteq {"done", "fail"} /\ FileMissing.alone = "done"
    /\ HowsOf(ValueError) \subseteq {"done", "fail"} /\ ValueError.alone = "fail"
    /\ HowsOf(ValueMissing) \subseteq {"done", "fail"} /\ ValueMissing.alone = "done"
    /\ HowsOf(CleanError) \subseteq {"done", "fail"} /\ CleanError.alone = "fail"
    /\ HowsOf(Conflict) \subseteq {"next", "done", "fail"} /\ Conflict.alone = "next"
    /\ HowsOf(check_archive_exists) \subseteq {"next", "done"} /\ check_archive_exists.alone = "done"
    /\ KeyError.alone = "fail" /\ Unasked.alone = "fail"
BY DEF HowsOf, HookError, WriterError, Unasked, Unlisted, EntryError, FileError, FileMissing,
   ValueError, ValueMissing, KeyError, CleanError, Conflict, check_archive_exists, Protocol,
   Answers, handle_decision, Decisions

\* A step that fails goes on as one of the answers of its protocol says, without
\* a callback as it decides on its own.
LEMMA FailHow ==
    ASSUME TypedState, Sane, FailStep
    PROVE  \E how \in HowsOf(step.site) \cap Hows :
              /\ Resume(how) /\ Survived(how)
              /\ ErrorAnswers = {} => how = step.site.alone
<1>1. CASE Unattended
  <2> DEFINE how == IF Silent THEN step.site.silent ELSE step.site.alone
  <2>1. Resume(how) /\ Survived(how)  BY <1>1 DEF Unattended
  <2>2. script # <<>>  BY DEF FailStep
  <2>3. step.site.alone \in Hows /\ step.site.silent \in Hows \cup {"ask"}
    BY <2>2, CurrentTyped, ProtocolsTyped
  <2>4. how \in Hows /\ how # "ask"  BY <2>3 DEF Silent, Hows
  <2>5. how \in HowsOf(step.site) \cap Hows  BY <2>4 DEF HowsOf
  <2>6. ErrorAnswers = {} => how = step.site.alone  BY DEF Silent, Sane
  <2> QED BY <2>1, <2>5, <2>6
<1>2. ASSUME NEW d \in Decisions, Ask(d)
      PROVE  \E how \in HowsOf(step.site) \cap Hows :
                /\ Resume(how) /\ Survived(how)
                /\ ErrorAnswers = {} => how = step.site.alone
  <2>1. /\ Resume(step.site.answers[d]) /\ Survived(step.site.answers[d]) /\ ErrorAnswers # {}
        /\ DOMAIN step.site.answers # {}
    BY <1>2 DEF Ask, Asks
  <2>2. script # <<>>  BY DEF FailStep
  <2>3. step.site.answers[d] \in Hows  BY <2>1, <2>2, CurrentTyped, ProtocolsTyped
  <2>4. d \in DOMAIN step.site.answers
    <3>1. step.site \in Firm \cup {check_archive_exists}  BY <2>2, CurrentTyped
    <3>2. DOMAIN step.site.answers \in {{}, Decisions}
      BY <3>1 DEF Firm, HookError, WriterError, Unasked, Unlisted, EntryError, FileError, FileMissing,
         ValueError, ValueMissing, KeyError, CleanError, Conflict, check_archive_exists, Protocol,
         Answers, handle_decision
    <3> QED BY <2>1, <3>2
  <2>5. step.site.answers[d] \in HowsOf(step.site) \cap Hows  BY <2>3, <2>4 DEF HowsOf, Hows
  <2> QED BY <2>1, <2>5
<1> QED BY <1>1, <1>2 DEF FailStep

\* The step that is tried next fits its stage.
LEMMA CurrentFits ==
    ASSUME TypedState, Fitting, script # <<>>
    PROVE  /\ step \in StepsIn(stage.phase) /\ Fits(stage, step)
           /\ stage.phase \in {"Backup", "Clean", "Restore"} => stage.action \in Actions
           /\ stage \in StageSet
<1>1. step \in FitSet(stage)  BY HeadTailProperties DEF Fitting, step
<1>2. stage \in StageSet  BY CurrentTyped DEF StagesOf
<1> QED BY <1>1, <1>2 DEF FitSet, StageSet

\* An operation that goes on has not been abandoned.
LEMMA StaysOn ==
    ASSUME Stays, Resume("fail")
    PROVE  /\ stage.phase = "Clean" /\ ErrorAnswers # {}
           /\ script' = <<Step("clean", <<stage.action, 0>>, CleanError)>>
BY DEF Stays, Resume, Abandon, Stop

LEMMA ScriptOn ==
    ASSUME TypedState, Fitting, Sane, Stays, Work
    PROVE  \/ script' \in {Tail(script), script, <<>>, <<script[Len(script)]>>}
           \/ stage.phase = "Clean" /\ script' = <<Step("clean", <<stage.action, 0>>, CleanError)>>
<1>1. CASE FailStep
  <2>1. PICK how \in HowsOf(step.site) \cap Hows : Resume(how)  BY <1>1, FailHow
  <2>2. CASE how = "fail"  BY <2>1, <2>2, StaysOn
  <2> QED BY <2>1, <2>2 DEF Resume, Hows
<1>2. CASE ~FailStep
  BY <1>2 DEF Work, RunHook, CreateArchive, SealArchive, PerformStep, PassStep,
     OverlookStep, MisreadStep, Advance, MoveOn
<1> QED BY <1>1, <1>2

\* A step of a backup reads the machine.
LEMMA BackupStep ==
    ASSUME TypedState, Fitting, Sane, Stays, Work, stage.phase = "Backup"
    PROVE  /\ UNCHANGED <<machine, app, snapshot>>
           /\ \/ /\ Excused(stage.action)'
                 /\ \/ archive' = archive
                    \/ /\ step.do = "save" /\ Blueprint[stage.action] # "Directory"
                       /\ archive' = [archive EXCEPT ![step.slot] = "Absent"]
              \/ archive' = archive /\ script' = Tail(script) /\ step.do # "save"
              \/ /\ archive' = [archive EXCEPT ![step.slot] = Written(step.slot, machine)]
                 /\ script' = Tail(script) /\ step.do = "save"
              \/ /\ archive' = archive /\ script' = <<>>
                 /\ \A s \in Of(stage.action) : machine[s] = "Absent"
<1> DEFINE i == stage.action
<1>1. /\ BackupFits(i, step, machine) /\ i \in Actions /\ script # <<>> /\ stage' = stage
      /\ step.do \in {"exists", "list", "save", "pass"} /\ step.slot[1] = i
  <2>1. script # <<>> /\ stage' = stage  BY DEF Stays
  <2>2. BackupFits(i, step, machine) /\ i \in Actions  BY <2>1, CurrentFits DEF Fits
  <2>3. step.slot[1] = i  BY <2>2, SlotsOf DEF BackupFits
  <2> QED BY <2>1, <2>2, <2>3 DEF BackupFits
<1>2. ~RunHook /\ ~CreateArchive /\ ~SealArchive /\ ~MisreadStep
  BY <1>1 DEF RunHook, CreateArchive, SealArchive, MisreadStep, Current
<1>3. CASE PerformStep
  BY <1>1, <1>3 DEF PerformStep, Advance, MoveOn, MachineAfter, ArchiveAfter
<1>4. CASE PassStep
  BY <1>1, <1>4 DEF PassStep, Advance, MoveOn, resources
<1>5. CASE OverlookStep
  <2>1. step.do = "save"  BY <1>1, <1>5 DEF OverlookStep, CanOverlook
  <2>2. ~Careful /\ step.slot \in passed'  BY <1>5 DEF OverlookStep, Careful
  <2>3. Excused(i)'  BY <1>1, <2>2 DEF Excused
  <2> QED BY <1>1, <1>5, <2>1, <2>3 DEF OverlookStep, Overlooked
<1>6. CASE FailStep
  <2>1. PICK how \in HowsOf(step.site) \cap Hows :
           Resume(how) /\ Survived(how) /\ (ErrorAnswers = {} => how = step.site.alone)
    BY <1>6, FailHow
  <2>2. how # "fail"  BY <2>1, StaysOn
  <2>3. UNCHANGED <<machine, app, archive>>  BY <1>1, <1>6, Breaking
  <2>5. snapshot' = snapshot  BY <2>1, <2>2 DEF Resume, Hows
  <2>6. CASE ~Careful
    <3>1. step.slot \in passed'  BY <1>1, <2>1, <2>2 DEF Survived
    <3>2. Excused(i)'  BY <1>1, <2>6, <3>1 DEF Excused
    <3> QED BY <2>3, <2>5, <3>2
  <2>7. CASE Careful
    <3>1. how = step.site.alone  BY <2>1, <2>7 DEF Careful
    <3>2. step.do # "pass"  BY <1>6 DEF FailStep, Fails, ResourceSteps, FileSteps
    <3>3. step.do = "exists" /\ step.slot = <<i, 0>> /\ how = "done"
      BY <1>1, <2>2, <3>1, <3>2, Sites DEF BackupFits
    <3>4. ~CanFail(step) \/ "error" \notin Faults
      BY <1>1, <2>7, <3>3 DEF CanFail, Careful
    <3>5. MustFail(step, machine, archive)
      BY <1>6, <3>3, <3>4 DEF FailStep, Fails, FileSteps
    <3>6. machine[<<i, 0>>] = "Absent"  BY <3>3, <3>5 DEF MustFail
    <3>7. \A s \in Of(i) : machine[s] = "Absent"
      BY <1>1, <3>6, SlotsOf DEF Sane, WellFormed, Entries
    <3>8. script' = <<>>  BY <2>1, <3>3 DEF Resume
    <3> QED BY <2>3, <2>5, <3>7, <3>8
  <2> QED BY <2>6, <2>7
<1> QED BY <1>2, <1>3, <1>4, <1>5, <1>6 DEF Work

\* A step of a clean only takes things away, the resource of the action last.
LEMMA CleanStep ==
    ASSUME TypedState, Fitting, Sane, Stays, Work, stage.phase = "Clean"
    PROVE  /\ UNCHANGED <<archive, app, snapshot>>
           /\ \/ Excused(stage.action)' /\ machine' \in Wreckage(step, machine)
              \/ machine' = machine /\ script' = Tail(script) /\ step.do \notin {"drop", "clean"}
              \/ /\ machine' = [machine EXCEPT ![step.slot] = "Absent"]
                 /\ script' = Tail(script) /\ step.do = "drop"
                 /\ step.slot[2] = 0 => Present(stage.action, machine) = {}
              \/ /\ machine' \in Wreckage(step, machine) /\ ErrorAnswers # {}
                 /\ script' = <<Step("clean", <<stage.action, 0>>, CleanError)>>
              \/ machine' = machine /\ script' = <<script[Len(script)]>>
<1> DEFINE i == stage.action
<1>1. /\ CleanFits(i, step) /\ i \in Actions /\ script # <<>> /\ stage' = stage
      /\ step.do \in {"list", "drop", "clean", "pass"} /\ step.slot[1] = i
  <2>1. script # <<>> /\ stage' = stage  BY DEF Stays
  <2>2. CleanFits(i, step) /\ i \in Actions  BY <2>1, CurrentFits DEF Fits
  <2>3. step.slot[1] = i  BY <2>2, SlotsOf DEF CleanFits
  <2> QED BY <2>1, <2>2, <2>3 DEF CleanFits
<1>2. ~RunHook /\ ~CreateArchive /\ ~SealArchive /\ ~MisreadStep
  BY <1>1 DEF RunHook, CreateArchive, SealArchive, MisreadStep, Current
<1>3. CASE PerformStep
  <2>1. step.do = "drop" => (step.slot[2] = 0 => Present(i, machine) = {})
    BY <1>1, <1>3 DEF PerformStep, MustFail
  <2>2. step.do # "clean"  BY <1>3 DEF PerformStep, ResourceSteps
  <2> QED BY <1>1, <1>3, <2>1, <2>2 DEF PerformStep, Advance, MoveOn, MachineAfter, ArchiveAfter
<1>4. CASE PassStep
  BY <1>1, <1>4 DEF PassStep, Advance, MoveOn, resources
<1>5. CASE OverlookStep
  <2>1. ~Careful /\ step.slot \in passed'  BY <1>5 DEF OverlookStep, Careful
  <2>2. Excused(i)'  BY <1>1, <2>1 DEF Excused
  <2>3. step.do # "save"  BY <1>1
  <2> QED BY <1>5, <2>2, <2>3 DEF OverlookStep, Overlooked, Wreckage
<1>6. CASE FailStep
  <2>1. PICK how \in HowsOf(step.site) \cap Hows :
           Resume(how) /\ Survived(how) /\ (ErrorAnswers = {} => how = step.site.alone)
    BY <1>6, FailHow
  <2>2. UNCHANGED <<app, archive>> /\ machine' \in Wreckage(step, machine)
        /\ (step.do # "drop" => machine' = machine)
    BY <1>1, <1>6, Breaking
  <2>4. CASE how = "fail"
    <3>1. script' = <<Step("clean", <<i, 0>>, CleanError)>> /\ ErrorAnswers # {}
      BY <2>1, <2>4, StaysOn
    <3>2. snapshot' = snapshot
      BY <2>1, <2>4 DEF Resume, Abandon, Stop, Stays
    <3> QED BY <2>2, <3>1, <3>2
  <2>5. CASE how # "fail" /\ ~Careful
    <3>1. step.slot \in passed'  BY <1>1, <2>1, <2>5 DEF Survived
    <3>2. Excused(i)'  BY <1>1, <2>5, <3>1 DEF Excused
    <3>3. snapshot' = snapshot  BY <2>1, <2>5 DEF Resume, Hows
    <3> QED BY <2>2, <3>2, <3>3
  <2>6. CASE how # "fail" /\ Careful
    <3>1. how = step.site.alone  BY <2>1, <2>6 DEF Careful
    <3>2. step.do # "pass"  BY <1>6 DEF FailStep, Fails, ResourceSteps, FileSteps
    <3>3. how = "last" /\ step.do # "drop"
      BY <1>1, <2>6, <3>1, <3>2, Sites DEF CleanFits
    <3> QED BY <2>1, <2>2, <3>3 DEF Resume
  <2> QED BY <2>4, <2>5, <2>6
<1> QED BY <1>2, <1>3, <1>4, <1>5, <1>6 DEF Work

\* The archive has nothing for action i.
Nothing(i) == archive[<<i, 0>>] = "Missing" /\ Stored(i, archive) = {}

\* A step of a restore puts back what the archive has.
LEMMA RestoreStep ==
    ASSUME TypedState, Fitting, Sane, Stays, Work, stage.phase = "Restore"
    PROVE  /\ UNCHANGED <<archive, app, snapshot>>
           /\ \/ /\ Excused(stage.action)'
                 /\ \/ machine' \in Wreckage(step, machine)
                    \/ /\ Blueprint[stage.action] # "Directory"
                       /\ machine' = [machine EXCEPT ![step.slot] = Misread(step.slot, machine)]
              \/ /\ machine' = machine /\ script' = Tail(script)
                 /\ step.do \in {"lookup", "conflict", "parent", "pass"}
                 /\ step.do = "lookup" => ~Nothing(stage.action)
              \/ /\ machine' = [machine EXCEPT ![step.slot] = IF @ = "Absent" THEN "Empty" ELSE @]
                 /\ script' = Tail(script) /\ step.do = "mkdir"
              \/ /\ machine' = [machine EXCEPT ![step.slot] = Restored(step.slot, archive)]
                 /\ script' = Tail(script) /\ step.do = "put"
              \/ /\ machine' = machine /\ script' = <<>>
                 /\ step.do = "lookup" /\ Nothing(stage.action)
           /\ \/ script' \in {script, <<>>}
              \/ script' = Tail(script) /\ (step.do = "mkdir" => machine'[<<stage.action, 0>>] # "Absent")
<1> DEFINE i == stage.action
<1>1. /\ RestoreFits(i, step, archive) /\ i \in Actions /\ script # <<>> /\ stage' = stage
      /\ step.do \in {"lookup", "conflict", "parent", "mkdir", "put", "pass"}
      /\ step.slot[1] = i /\ step.slot \in Slots
  <2>1. script # <<>> /\ stage' = stage  BY DEF Stays
  <2>2. RestoreFits(i, step, archive) /\ i \in Actions  BY <2>1, CurrentFits DEF Fits
  <2>3. step.slot[1] = i /\ step.slot \in Slots  BY <2>2, SlotsOf DEF RestoreFits
  <2> QED BY <2>1, <2>2, <2>3 DEF RestoreFits
<1>2. ~RunHook /\ ~CreateArchive /\ ~SealArchive
  BY <1>1 DEF RunHook, CreateArchive, SealArchive, Current
<1>3. CASE PerformStep
  <2>1. step.do = "lookup" => ~Nothing(i)
    BY <1>1, <1>3 DEF PerformStep, MustFail, Nothing, RestoreFits
  <2>2. step.do = "mkdir" => machine'[<<i, 0>>] # "Absent"
    <3> SUFFICES ASSUME step.do = "mkdir" PROVE machine'[<<i, 0>>] # "Absent"
      OBVIOUS
    <3>1. step.slot = <<i, 0>> /\ <<i, 0>> \in Slots  BY <1>1, SlotsOf DEF RestoreFits
    <3>2. machine \in [Slots -> States]  BY DEF TypedState, TypeOK
    <3> QED BY <1>3, <3>1, <3>2 DEF PerformStep, MachineAfter
  <2> QED BY <1>1, <1>3, <2>1, <2>2 DEF PerformStep, Advance, MoveOn, MachineAfter, ArchiveAfter
<1>4. CASE PassStep
  BY <1>1, <1>4 DEF PassStep, Advance, MoveOn, resources
<1>5. CASE OverlookStep
  <2>1. ~Careful /\ step.slot \in passed'  BY <1>5 DEF OverlookStep, Careful
  <2>2. Excused(i)'  BY <1>1, <2>1 DEF Excused
  <2>3. step.do = "put"  BY <1>1, <1>5 DEF OverlookStep, CanOverlook
  <2> QED BY <1>5, <2>2, <2>3 DEF OverlookStep, Overlooked, MoveOn, Wreckage
<1>6. CASE MisreadStep
  <2>1. ~Careful /\ step.slot \in passed'  BY <1>6 DEF MisreadStep, Careful
  <2>2. Excused(i)'  BY <1>1, <2>1 DEF Excused
  <2>3. step.do = "put"  BY <1>6 DEF MisreadStep, Current
  <2> QED BY <1>1, <1>6, <2>2, <2>3 DEF MisreadStep, MoveOn
<1>7. CASE FailStep
  <2>1. PICK how \in HowsOf(step.site) \cap Hows :
           Resume(how) /\ Survived(how) /\ (ErrorAnswers = {} => how = step.site.alone)
    BY <1>7, FailHow
  <2>2. UNCHANGED <<app, archive>> /\ machine' \in Wreckage(step, machine)
        /\ (step.do # "put" => machine' = machine)
    BY <1>1, <1>7, Breaking
  <2>3. how # "fail"  BY <2>1, StaysOn
  <2>4. snapshot' = snapshot  BY <2>1, <2>3 DEF Resume, Hows
  <2>5. step.do # "pass"  BY <1>7 DEF FailStep, Fails, ResourceSteps, FileSteps
  <2>6. how # "last" /\ (step.do = "mkdir" => how = "done")
    BY <1>1, <2>1, <2>3, <2>5, Sites DEF RestoreFits
  <2>7. \/ script' \in {script, <<>>}
        \/ script' = Tail(script) /\ step.do # "mkdir"
    BY <2>1, <2>3, <2>6 DEF Resume, Hows
  <2>8. CASE step.do = "conflict" /\ how = "next"
    BY <2>1, <2>2, <2>4, <2>8 DEF Resume
  <2>9. CASE ~(step.do = "conflict" /\ how = "next") /\ ~Careful
    <3>1. step.slot \in passed'  BY <2>1, <2>3, <2>9 DEF Survived
    <3>2. Excused(i)'  BY <1>1, <2>9, <3>1 DEF Excused
    <3> QED BY <2>2, <2>4, <2>7, <3>2
  <2>10. CASE ~(step.do = "conflict" /\ how = "next") /\ Careful
    <3>1. how = step.site.alone  BY <2>1, <2>10 DEF Careful
    <3>2. step.do = "lookup" /\ how = "done"
      BY <1>1, <2>3, <2>5, <2>10, <3>1, Sites DEF RestoreFits
    <3>3. ~CanFail(step)  BY <3>2 DEF CanFail
    <3>4. MustFail(step, machine, archive)
      BY <1>7, <3>2, <3>3 DEF FailStep, Fails, FileSteps
    <3>5. Nothing(i)  BY <1>1, <3>2, <3>4 DEF MustFail, Nothing, RestoreFits
    <3>6. script' = <<>>  BY <2>1, <3>2 DEF Resume
    <3> QED BY <2>2, <2>4, <3>2, <3>5, <3>6
  <2> QED BY <2>7, <2>8, <2>9, <2>10
<1> QED BY <1>2, <1>3, <1>4, <1>5, <1>6, <1>7 DEF Work

\* A step of a list of hooks changes the application, if anything.
LEMMA HookStep ==
    ASSUME TypedState, Fitting, Sane, Stays, Work, stage.phase \in {"Startup", "Shutdown"}
    PROVE  /\ UNCHANGED <<machine, archive, snapshot>>
           /\ \/ NoSlot \in passed' /\ app' = app
              \/ /\ app' = IF stage.phase = "Shutdown" THEN "down" ELSE "up"
                 /\ script' = Tail(script) /\ step.do = "hook"
              \/ app' = app /\ script' = Tail(script) /\ step.do # "hook"
<1>1. /\ script # <<>> /\ stage' = stage /\ step.do \in {"hook", "pass"}
      /\ step.slot = NoSlot /\ step.site = HookError(stage.phase)
  <2>1. script # <<>> /\ stage' = stage  BY DEF Stays
  <2>2. Fits(stage, step) /\ step \in StepsIn(stage.phase)  BY <2>1, CurrentFits
  <2>3. step.slot = NoSlot /\ step.site = HookError(stage.phase)  BY <2>2 DEF Fits
  <2> QED BY <2>1, <2>2, <2>3 DEF StepsIn, StepSet
<1>2. ~CreateArchive /\ ~SealArchive /\ ~MisreadStep /\ ~OverlookStep /\ ~PerformStep
  BY <1>1 DEF CreateArchive, SealArchive, MisreadStep, OverlookStep, PerformStep, Current,
     CanOverlook, ResourceSteps
<1>3. CASE RunHook
  BY <1>3 DEF RunHook, Current, Advance, MoveOn
<1>4. CASE PassStep
  BY <1>1, <1>4 DEF PassStep, Advance, MoveOn, resources
<1>5. CASE FailStep
  <2>1. PICK how \in HowsOf(step.site) \cap Hows : Resume(how) /\ Survived(how)
    BY <1>5, FailHow
  <2>2. how # "fail"  BY <2>1, StaysOn
  <2>3. step.slot \in passed'  BY <1>1, <2>1, <2>2 DEF Survived
  <2>4. snapshot' = snapshot  BY <2>1, <2>2 DEF Resume, Hows
  <2>5. UNCHANGED <<machine, archive, app>>  BY <1>1, <1>5, Breaking
  <2> QED BY <2>3, <2>4, <2>5, <1>1
<1> QED BY <1>2, <1>3, <1>4, <1>5 DEF Work

LEMMA TailOfOne ==
    ASSUME NEW S, NEW s \in Seq(S), s # <<>>, Len(s) <= 1
    PROVE  Tail(s) = <<>>
<1>1. Tail(s) \in Seq(S) /\ Len(Tail(s)) = Len(s) - 1  BY HeadTailProperties
<1>2. Len(s) \in Nat /\ Len(s) # 0  BY EmptySeq, LenProperties
<1>3. Len(Tail(s)) = 0  BY <1>1, <1>2
<1> QED BY <1>1, <1>3, EmptySeq

\* A step of the snapshot file is the only one of its stage.
LEMMA FileStep ==
    ASSUME TypedState, Fitting, Sane, Stays, Work, stage.phase \in {"Create", "Seal", "Open"}
    PROVE  /\ UNCHANGED <<machine, app>> /\ script' = <<>>
           /\ stage.phase = "Create" => archive' = [s \in Slots |-> "Missing"] /\ snapshot' = "Open"
           /\ stage.phase = "Seal" => archive' = archive /\ snapshot' = "Complete"
           /\ stage.phase = "Open" => archive' = archive /\ snapshot' = snapshot
<1>1. /\ script # <<>> /\ stage' = stage
      /\ step.do = CASE stage.phase = "Create" -> "create"
                     [] stage.phase = "Seal" -> "seal"
                     [] stage.phase = "Open" -> "open"
      /\ step.site = WriterError
  <2>1. script # <<>> /\ stage' = stage  BY DEF Stays
  <2>2. step \in StepsIn(stage.phase)  BY <2>1, CurrentFits
  <2> QED BY <2>1, <2>2 DEF StepsIn, StepSet
<1>2. Tail(script) = <<>>
  <2>1. script \in Seq(FitSet(stage)) /\ Len(script) <= 1  BY DEF Fitting, Sane
  <2> QED BY <1>1, <2>1, TailOfOne
<1>3. ~RunHook /\ ~MisreadStep /\ ~OverlookStep /\ ~PerformStep
  BY <1>1 DEF RunHook, MisreadStep, OverlookStep, PerformStep, Current, CanOverlook, ResourceSteps
<1>4. ~FailStep
  <2> SUFFICES ASSUME FailStep PROVE FALSE
    OBVIOUS
  <2>1. PICK how \in HowsOf(step.site) \cap Hows : Resume(how)  BY FailHow
  <2>2. how # "fail"  BY <2>1, StaysOn
  <2> QED BY <1>1, <2>1, <2>2, Sites
<1> QED BY <1>1, <1>2, <1>3, <1>4 DEF Work, CreateArchive, SealArchive, PassStep, Current, Advance,
        MoveOn, resources

-----------------------------------------------------------------------------
(* The invariant of the scripts.                                           *)

\* The base of a directory that is restored is there, or made first.
Mounted ==
    stage.phase = "Restore" /\ Blueprint[stage.action] = "Directory"
          /\ machine[<<stage.action, 0>>] = "Absent"
       => MountsFirst(script)

Ordered == Course /\ Fitting /\ Sane /\ Mounted

\* A stage that is entered holds steps that fit it.
LEMMA StageFits ==
    ASSUME TypedState, NEW st \in StagesOf(request), request \in AllRequests
    PROVE  /\ Steps(st) \in Seq(FitSet(st))
           /\ st.phase \in {"Create", "Seal", "Open"} => Len(Steps(st)) <= 1
           /\ st.phase = "Restore" /\ Blueprint[st.action] = "Directory" => MountsFirst(Steps(st))
<1>1. st \in StageSet /\ request.simulate \in BOOLEAN  BY DEF StagesOf, AllRequests
<1>2. CASE st.phase \in {"Startup", "Shutdown"}
  <2> DEFINE hooks == HookSteps(st.phase, request.force)
  <2>1. hooks \in Seq(StepsIn(st.phase))  BY <1>1, <1>2, StepsTyped DEF Steps
  <2>2. \A n \in 1..Len(Hooks[st.phase]) : hooks[n].slot = NoSlot /\ hooks[n].site = HookError(st.phase)
    BY DEF HookSteps, Step
  <2>3. Len(hooks) = Len(Hooks[st.phase])
    BY <1>2, OrchestratorAssumption DEF HookSteps
  <2> HIDE DEF hooks
  <2>4. \A n \in 1..Len(hooks) : hooks[n] \in FitSet(st)
    BY <1>2, <2>1, <2>2, <2>3, ElementOfSeq DEF FitSet, Fits
  <2>5. hooks \in Seq(FitSet(st))  BY <2>1, <2>4, SeqDef, LenProperties
  <2> QED BY <1>2, <2>5 DEF Steps, hooks
<1>3. CASE st.phase \in {"Create", "Seal", "Open"}
  <2>1. Steps(st) \in Seq(StepsIn(st.phase))  BY <1>1, StepsTyped
  <2>2. FitSet(st) = StepsIn(st.phase)  BY <1>3 DEF FitSet, Fits
  <2>3. Len(Steps(st)) <= 1  BY <1>3 DEF Steps
  <2> QED BY <1>3, <2>1, <2>2, <2>3
<1>4. CASE st.phase = "Backup"
  <2>1. st.action \in Actions  BY <1>1, <1>4 DEF StageSet
  <2>2. FitSet(st) = {x \in StepsIn("Backup") : BackupFits(st.action, x, machine)}
    BY <1>4 DEF FitSet, Fits
  <2> QED BY <1>4, <2>1, <2>2, BackupScript DEF Steps
<1>5. CASE st.phase = "Clean"
  <2>1. st.action \in Actions  BY <1>1, <1>5 DEF StageSet
  <2>2. FitSet(st) = {x \in StepsIn("Clean") : CleanFits(st.action, x)}
    BY <1>5 DEF FitSet, Fits
  <2> QED BY <1>1, <1>5, <2>1, <2>2, CleanScript DEF Steps
<1>6. CASE st.phase = "Restore"
  <2>1. st.action \in Actions  BY <1>1, <1>6 DEF StageSet
  <2>2. FitSet(st) = {x \in StepsIn("Restore") : RestoreFits(st.action, x, archive)}
    BY <1>6 DEF FitSet, Fits
  <2> QED BY <1>1, <1>6, <2>1, <2>2, RestoreScript DEF Steps
<1> QED BY <1>1, <1>2, <1>3, <1>4, <1>5, <1>6 DEF StageSet

LEMMA EnterStageRun ==
    ASSUME TypedState, Course, EnterStage
    PROVE  /\ request # None /\ request \in AllRequests /\ script = <<>>
           /\ stage = Before(request, stage') /\ stage' \in StagesOf(request) /\ stage' \in StageSet
           /\ script' = Steps(stage')
           /\ UNCHANGED <<resources, request, skip_all, environment, history>>
<1>1. ~Idle /\ agenda # <<>> /\ stage' = Head(agenda) /\ script = <<>>
      /\ script' = Steps(Head(agenda)) /\ UNCHANGED <<resources, request, skip_all, environment, history>>
  BY DEF EnterStage
<1>2. request # None /\ request \in AllRequests
  BY <1>1, OrchestratorAssumption DEF Idle, TypedState, TypeOK
<1>3. Steps(Head(agenda)) = Steps(stage')  BY <1>1
<1> QED BY <1>1, <1>2, <1>3, CourseRun

\* The stage an operation is in.
LEMMA StaysTyped ==
    ASSUME TypedState, Stays
    PROVE  /\ stage \in StageSet /\ request \in AllRequests /\ stage' = stage /\ script # <<>>
           /\ stage.phase \in {"Backup", "Clean", "Restore"} => stage.action \in Actions
           /\ stage.phase \in {"Startup", "Shutdown", "Create", "Seal", "Open", "Backup", "Clean", "Restore"}
BY CurrentTyped DEF Stays, StagesOf, StageSet

LEMMA FittingKept ==
    ASSUME TypedState, Ordered, [Next]_vars
    PROVE  Fitting'
<1> USE DEF Ordered
<1>0. \A S : <<>> \in Seq(S)  BY Scripts
<1>1. ASSUME NEW r \in Requests, Begin(r) PROVE Fitting'
  <2>1. script' = <<>>  BY <1>1 DEF Begin, Idle, TypedState, TypeOK
  <2> QED BY <1>0, <2>1 DEF Fitting
<1>2. CASE EnterStage
  <2>1. /\ request \in AllRequests /\ stage' \in StagesOf(request) /\ script' = Steps(stage')
        /\ UNCHANGED <<machine, archive>>
    BY <1>2, EnterStageRun DEF resources
  <2>2. PICK st \in StagesOf(request) : st = stage'  BY <2>1
  <2>3. script' \in Seq(FitSet(st))  BY <2>1, <2>2, StageFits
  <2>4. FitSet(stage)' = FitSet(st)  BY <2>1, <2>2 DEF FitSet, Fits
  <2> QED BY <2>3, <2>4 DEF Fitting
<1>3. CASE Stays /\ Work
  <2>1. stage' = stage /\ script # <<>> /\ script \in Seq(FitSet(stage))
    BY <1>3, StaysTyped DEF Fitting
  <2>2. stage.phase = "Backup" => machine' = machine  BY <1>3, BackupStep
  <2>3. stage.phase = "Restore" => archive' = archive  BY <1>3, RestoreStep
  <2>4. FitSet(stage)' = FitSet(stage)
    <3>1. CASE stage.phase = "Backup"  BY <2>1, <2>2, <3>1 DEF FitSet, Fits
    <3>2. CASE stage.phase = "Restore"  BY <2>1, <2>3, <3>2 DEF FitSet, Fits
    <3>3. CASE stage.phase \notin {"Backup", "Restore"}  BY <2>1, <3>3 DEF FitSet, Fits
    <3> QED BY <3>1, <3>2, <3>3
  <2>5. CASE script' \in {Tail(script), script, <<>>, <<script[Len(script)]>>}
    <3>1. script[Len(script)] \in FitSet(stage) /\ Tail(script) \in Seq(FitSet(stage))
      BY <2>1
    <3> QED BY <1>0, <2>1, <2>4, <2>5, <3>1, Scripts DEF Fitting
  <2>6. CASE stage.phase = "Clean" /\ script' = <<Step("clean", <<stage.action, 0>>, CleanError)>>
    <3>1. stage.action \in Actions  BY <1>3, <2>6, StaysTyped
    <3>2. <<stage.action, 0>> \in Of(stage.action) /\ <<stage.action, 0>> \in AllSlots
      BY <3>1, SlotsOf
    <3>3. "clean" \in Looks /\ CleanError \in Firm  BY DEF Looks, Firm
    <3> DEFINE c == Step("clean", <<stage.action, 0>>, CleanError)
    <3>4. c \in StepsIn("Clean")  BY <3>2, <3>3, StepTyped DEF StepsIn
    <3>5. CleanFits(stage.action, c)  BY <3>2 DEF CleanFits, Step
    <3>6. c \in FitSet(stage)  BY <2>6, <3>4, <3>5 DEF FitSet, Fits
    <3> HIDE DEF c
    <3>7. <<c>> \in Seq(FitSet(stage))  BY <3>6, Scripts
    <3> QED BY <2>4, <2>6, <3>7 DEF Fitting, c
  <2> QED BY <1>3, <2>5, <2>6, ScriptOn
<1>4. CASE Ends
  BY <1>0, <1>4 DEF Ends, Fitting
<1>5. CASE Use
  <2>1. script' = <<>>  BY <1>5 DEF Use, Idle, TypedState, TypeOK
  <2> QED BY <1>0, <2>1 DEF Fitting
<1>6. CASE UNCHANGED vars
  <2>1. FitSet(stage)' = FitSet(stage) /\ script' = script  BY <1>6 DEF vars, resources, FitSet, Fits
  <2> QED BY <2>1 DEF Fitting
<1> QED BY <1>1, <1>2, <1>3, <1>4, <1>5, <1>6, Cases

\* What is put at a slot keeps the machine well formed.
LEMMA WellFormedOn ==
    ASSUME NEW m \in [Slots -> States], WellFormed(m), NEW s \in Slots, NEW v,
           Base(s) => v # "Absent" \/ Present(s[1], m) = {},
           Blueprint[s[1]] = "Directory" /\ ~Base(s) => v = "Absent" \/ m[<<s[1], 0>>] # "Absent"
    PROVE  WellFormed([m EXCEPT ![s] = v])
<1> DEFINE n == [m EXCEPT ![s] = v]
<1> SUFFICES ASSUME NEW i \in Actions, n[<<i, 0>>] = "Absent", NEW k \in Entries(i)
             PROVE  n[<<i, k>>] = "Absent"
  BY DEF WellFormed
<1>1. Blueprint[i] = "Directory" /\ k \in 1..DirSize  BY DEF Entries
<1>2. <<i, 0>> \in Slots /\ <<i, k>> \in Slots /\ <<i, 0>> # <<i, k>>
  BY <1>1, SlotsOf
<1>3. Base(<<i, 0>>) /\ ~Base(<<i, k>>)  BY <1>1, SlotsOf DEF Base
<1>4. CASE s = <<i, 0>>
  <2>1. v = "Absent" /\ Present(i, m) = {}  BY <1>2, <1>3, <1>4
  <2>2. m[<<i, k>>] = "Absent"  BY <2>1 DEF Present
  <2> QED BY <1>2, <1>4, <2>2
<1>5. CASE s # <<i, 0>>
  <2>1. m[<<i, 0>>] = "Absent"  BY <1>2, <1>5
  <2>2. m[<<i, k>>] = "Absent"  BY <2>1 DEF WellFormed
  <2>3. s = <<i, k>> => v = "Absent"  BY <1>1, <1>3, <2>1
  <2> QED BY <1>2, <2>2, <2>3
<1> QED BY <1>4, <1>5

\* What a step of a restore puts back is there, or is not put into a directory.
LEMMA PutFits ==
    ASSUME TypedState, Ordered, script # <<>>, stage.phase = "Restore"
    PROVE  /\ step.do = "put" => /\ step.slot \in Slots /\ step.slot[1] = stage.action /\ ~Base(step.slot)
                                 /\ Blueprint[stage.action] = "Directory" =>
                                       archive[step.slot] # "Missing" /\ machine[<<stage.action, 0>>] # "Absent"
           /\ step.do = "mkdir" => step.slot = <<stage.action, 0>> /\ Blueprint[stage.action] = "Directory"
           /\ step.slot \in Of(stage.action)
           /\ script # <<>> /\ script \in Seq(FitSet(stage))
<1>1. /\ RestoreFits(stage.action, step, archive) /\ stage.action \in Actions /\ script # <<>>
      /\ script \in Seq(FitSet(stage))
  BY CurrentFits DEF Ordered, Fits, Fitting
<1>2. step.slot \in Of(stage.action) /\ step.slot \in Slots /\ step.slot[1] = stage.action
  BY <1>1, SlotsOf DEF RestoreFits
<1>3. step.do = "mkdir" => step.slot = <<stage.action, 0>> /\ Blueprint[stage.action] = "Directory"
  BY <1>1 DEF RestoreFits
<1>4. step.do = "put" => ~Base(step.slot)
         /\ (Blueprint[stage.action] = "Directory" => archive[step.slot] # "Missing")
  BY <1>1 DEF RestoreFits
<1>5. ASSUME step.do = "put", Blueprint[stage.action] = "Directory", machine[<<stage.action, 0>>] = "Absent"
      PROVE  FALSE
  <2>1. MountsFirst(script)  BY <1>5 DEF Ordered, Mounted
  <2>2. step.do # "put"  BY <1>1, <1>5, <2>1, MountsOn DEF step
  <2> QED BY <1>5, <2>2
<1> QED BY <1>1, <1>2, <1>3, <1>4, <1>5

\* What a failing step wrecks: a slot of its action, never the base of a directory,
\* and an entry only of a directory that is there.
LEMMA Wrecked ==
    ASSUME TypedState, Ordered, script # <<>>, NEW m \in Wreckage(step, machine), m # machine
    PROVE  /\ stage.phase \in {"Clean", "Restore"} /\ stage.action \in Actions
           /\ step.do = IF stage.phase = "Clean" THEN "drop" ELSE "put"
           /\ step.slot \in Of(stage.action) /\ step.slot \in Slots /\ step.slot[1] = stage.action
           /\ ~Base(step.slot)
           /\ Blueprint[stage.action] = "Directory" => machine[<<stage.action, 0>>] # "Absent"
           /\ \E v \in Partial(step) : m = [machine EXCEPT ![step.slot] = v]
<1>1. machine \in [Slots -> States]  BY DEF TypedState, TypeOK
<1>2. step.do \in {"put", "drop"} /\ \E v \in Partial(step) : m = [machine EXCEPT ![step.slot] = v]
  BY <1>1, WreckageLeaves
<1>3. Fits(stage, step) /\ step \in StepsIn(stage.phase) /\ stage \in StageSet
  BY CurrentFits DEF Ordered
<1>4. stage.phase \in {"Backup", "Clean", "Restore"}
  BY <1>2, <1>3 DEF StageSet, StepsIn, StepSet
<1>5. stage.action \in Actions  BY <1>3, <1>4, CurrentFits DEF Ordered
<1>6. stage.phase # "Backup"  BY <1>2, <1>3 DEF Fits, BackupFits
<1>7. CASE stage.phase = "Clean"
  <2>1. CleanFits(stage.action, step)  BY <1>3, <1>7 DEF Fits
  <2>2. step.do = "drop" /\ step.slot \in Of(stage.action)  BY <1>2, <2>1 DEF CleanFits
  <2>3. step.slot \in Slots /\ step.slot[1] = stage.action  BY <1>5, <2>2, SlotsOf
  <2>4. Blueprint[stage.action] # "Directory"  BY <1>2, <2>2, <2>3 DEF Partial
  <2> QED BY <1>2, <1>5, <1>7, <2>2, <2>3, <2>4 DEF Base
<1>8. CASE stage.phase = "Restore"
  <2>1. RestoreFits(stage.action, step, archive)  BY <1>3, <1>8 DEF Fits
  <2>2. step.do = "put" /\ step.slot \in Of(stage.action)  BY <1>2, <2>1 DEF RestoreFits
  <2>3. step.slot \in Slots /\ step.slot[1] = stage.action  BY <1>5, <2>2, SlotsOf
  <2> QED BY <1>2, <1>5, <1>8, <2>2, <2>3, PutFits
<1> QED BY <1>4, <1>6, <1>7, <1>8

LEMMA MountedKept ==
    ASSUME TypedState, Ordered, [Next]_vars
    PROVE  Mounted'
<1>1. ASSUME NEW r \in Requests, Begin(r) PROVE Mounted'
  <2>1. stage' = NoStage  BY <1>1 DEF Begin, Idle, TypedState, TypeOK
  <2> QED BY <2>1 DEF Mounted, NoStage, Stage
<1>2. CASE EnterStage
  <2>1. request \in AllRequests /\ stage' \in StagesOf(request) /\ script' = Steps(stage')
    BY <1>2, EnterStageRun DEF Ordered
  <2>2. PICK st \in StagesOf(request) : st = stage'  BY <2>1
  <2> QED BY <2>1, <2>2, StageFits DEF Mounted
<1>3. CASE Stays /\ Work
  <2>1. stage' = stage /\ script # <<>>  BY <1>3, StaysTyped
  <2> SUFFICES ASSUME stage.phase = "Restore", Blueprint[stage.action] = "Directory",
                      machine'[<<stage.action, 0>>] = "Absent"
               PROVE  MountsFirst(script')
    BY <2>1 DEF Mounted
  <2>2. Fitting /\ Sane /\ machine \in [Slots -> States]  BY DEF Ordered, TypedState, TypeOK
  <2>3. stage.action \in Actions  BY <1>3, StaysTyped
  <2>4. machine[<<stage.action, 0>>] = "Absent"
    <3>1. <<stage.action, 0>> \in Slots /\ Base(<<stage.action, 0>>)  BY <2>3, SlotsOf DEF Base
    <3>2. step.do = "put" => step.slot # <<stage.action, 0>>  BY <2>1, <3>1, PutFits
    <3>3. step.do = "mkdir" => step.slot = <<stage.action, 0>>  BY <2>1, PutFits
    <3>4. \/ machine' \in Wreckage(step, machine)
          \/ machine' = [machine EXCEPT ![step.slot] = IF @ = "Absent" THEN "Empty" ELSE @] /\ step.do = "mkdir"
          \/ machine' = [machine EXCEPT ![step.slot] = Restored(step.slot, archive)] /\ step.do = "put"
      BY <1>3, <2>2, RestoreStep DEF Wreckage
    <3>5. ASSUME machine' \in Wreckage(step, machine), machine' # machine
          PROVE  \E v : machine' = [machine EXCEPT ![step.slot] = v] /\ step.slot # <<stage.action, 0>>
      BY <2>1, <3>1, <3>5, Wrecked
    <3> QED BY <2>2, <3>1, <3>2, <3>3, <3>4, <3>5
  <2>5. MountsFirst(script)  BY <2>4 DEF Ordered, Mounted
  <2>6. script \in Seq(FitSet(stage))  BY <2>2 DEF Fitting
  <2>7. \/ script' \in {script, <<>>}
        \/ script' = Tail(script) /\ step.do # "mkdir"
    BY <1>3, <2>2, RestoreStep
  <2>8. CASE script' = Tail(script) /\ step.do # "mkdir"
    BY <2>1, <2>5, <2>6, <2>8, MountsOn DEF step
  <2>9. CASE script' = <<>>  BY <2>9 DEF MountsFirst
  <2> QED BY <2>5, <2>7, <2>8, <2>9
<1>4. CASE Ends
  BY <1>4 DEF Ends, Mounted, NoStage, Stage
<1>5. CASE Use
  <2>1. stage' = NoStage  BY <1>5 DEF Use, Idle, TypedState, TypeOK
  <2> QED BY <2>1 DEF Mounted, NoStage, Stage
<1>6. CASE UNCHANGED vars
  BY <1>6 DEF vars, resources, Ordered, Mounted
<1> QED BY <1>1, <1>2, <1>3, <1>4, <1>5, <1>6, Cases

\* Nobody has answered SkipAll where there is nobody to ask.
LEMMA FlagsKept ==
    ASSUME TypedState, Sane, [Next]_vars
    PROVE  (skip_all' => ErrorAnswers # {}) /\ (silenced' => skip_all')
<1>1. ASSUME NEW r \in Requests, Begin(r) PROVE ~skip_all' /\ ~silenced'
  BY <1>1 DEF Begin
<1>2. CASE FailStep
  <2>1. CASE Unattended  BY <2>1 DEF Unattended, Sane
  <2>2. ASSUME NEW d \in Decisions, Ask(d)
        PROVE  (skip_all' => ErrorAnswers # {}) /\ (silenced' => skip_all')
    BY <2>2 DEF Ask, Asks, Sane
  <2> QED BY <1>2, <2>1, <2>2 DEF FailStep
<1>3. CASE Execute /\ ~FailStep
  <2>1. UNCHANGED <<skip_all, silenced>>
    BY <1>3 DEF Execute, EnterStage, Succeed, RunHook, CreateArchive, SealArchive, PerformStep,
       PassStep, OverlookStep, MisreadStep, Throw, Advance, MoveOn, history
  <2> QED BY <2>1 DEF Sane
<1>4. CASE Use  BY <1>4 DEF Use, Sane
<1>5. CASE UNCHANGED vars  BY <1>5 DEF vars, history, Sane
<1> QED BY <1>1, <1>2, <1>3, <1>4, <1>5 DEF Next

\* The machine as every operation, and every use, leaves it.
Orderly(m) == WellFormed(m) /\ \A s \in Slots : Base(s) => m[s] \in {"Absent", "Empty"}

LEMMA OrderlyKept ==
    ASSUME TypedState, Ordered, [Next]_vars
    PROVE  Orderly(machine')
<1>1. machine \in [Slots -> States] /\ Orderly(machine) /\ Sane /\ Fitting
  BY DEF TypedState, TypeOK, Ordered, Sane, Orderly
<1>2. ASSUME script # <<>>, machine' \in Wreckage(step, machine) PROVE Orderly(machine')
  <2>1. CASE machine' = machine  BY <1>1, <2>1
  <2>2. CASE machine' # machine
    <3>1. /\ step.slot \in Slots /\ step.slot[1] = stage.action /\ ~Base(step.slot)
          /\ Blueprint[stage.action] = "Directory" => machine[<<stage.action, 0>>] # "Absent"
      BY <1>2, <2>2, Wrecked
    <3>2. PICK v \in Partial(step) : machine' = [machine EXCEPT ![step.slot] = v]
      BY <1>2, <2>2, Wrecked
    <3>3. WellFormed([machine EXCEPT ![step.slot] = v])
      BY <1>1, <3>1, WellFormedOn DEF Orderly
    <3>4. \A s \in Slots : Base(s) => machine'[s] = machine[s]  BY <1>1, <3>1, <3>2
    <3> QED BY <1>1, <3>2, <3>3, <3>4 DEF Orderly
  <2> QED BY <2>1, <2>2
<1>3. ASSUME Stays, Work PROVE Orderly(machine')
  <2>1. stage \in StageSet /\ script # <<>>  BY <1>3, StaysTyped
  <2>2. CASE stage.phase = "Clean"
    <3>1. CleanFits(stage.action, step) /\ stage.action \in Actions
      BY <1>1, <2>1, <2>2, CurrentFits DEF Fits
    <3>2. step.slot \in Slots /\ step.slot[1] = stage.action  BY <3>1, SlotsOf DEF CleanFits
    <3>3. \/ machine' \in Wreckage(step, machine)
          \/ /\ machine' = [machine EXCEPT ![step.slot] = "Absent"]
             /\ step.slot[2] = 0 => Present(stage.action, machine) = {}
      BY <1>1, <1>3, <2>2, CleanStep DEF Wreckage
    <3>4. CASE /\ machine' = [machine EXCEPT ![step.slot] = "Absent"]
               /\ step.slot[2] = 0 => Present(stage.action, machine) = {}
      <4>1. WellFormed([machine EXCEPT ![step.slot] = "Absent"])
        BY <1>1, <3>2, <3>4, WellFormedOn DEF Orderly, Base
      <4>2. \A s \in Slots : machine'[s] \in {machine[s], "Absent"}  BY <1>1, <3>2, <3>4
      <4> QED BY <1>1, <3>4, <4>1, <4>2 DEF Orderly
    <3> QED BY <1>2, <2>1, <3>3, <3>4
  <2>3. CASE stage.phase = "Restore"
    <3> DEFINE x == step.slot
    <3>1. x \in Slots /\ x[1] = stage.action /\ stage.action \in Actions
      BY <1>3, <2>1, <2>3, PutFits, SlotsOf, StaysTyped
    <3>2. \/ machine' \in Wreckage(step, machine)
          \/ Blueprint[stage.action] # "Directory" /\ machine' = [machine EXCEPT ![x] = Misread(x, machine)]
          \/ machine' = [machine EXCEPT ![x] = IF @ = "Absent" THEN "Empty" ELSE @] /\ step.do = "mkdir"
          \/ machine' = [machine EXCEPT ![x] = Restored(x, archive)] /\ step.do = "put"
      BY <1>1, <1>3, <2>3, RestoreStep DEF Wreckage
    <3>3. ASSUME NEW v, machine' = [machine EXCEPT ![x] = v], ~Base(x),
                 Blueprint[stage.action] = "Directory" => machine[<<stage.action, 0>>] # "Absent"
          PROVE  Orderly(machine')
      <4>1. WellFormed([machine EXCEPT ![x] = v])
        BY <1>1, <3>1, <3>3, WellFormedOn DEF Orderly
      <4>2. \A s \in Slots : Base(s) => machine'[s] = machine[s]  BY <1>1, <3>1, <3>3
      <4> QED BY <1>1, <3>3, <4>1, <4>2 DEF Orderly
    <3>4. CASE Blueprint[stage.action] # "Directory" /\ machine' = [machine EXCEPT ![x] = Misread(x, machine)]
      <4>1. ~Base(x)  BY <3>1, <3>4 DEF Base
      <4> QED BY <3>3, <3>4, <4>1
    <3>5. CASE machine' = [machine EXCEPT ![x] = Restored(x, archive)] /\ step.do = "put"
      BY <1>3, <2>1, <2>3, <3>3, <3>5, PutFits
    <3>6. CASE machine' = [machine EXCEPT ![x] = IF @ = "Absent" THEN "Empty" ELSE @] /\ step.do = "mkdir"
      <4>1. Base(x)  BY <2>1, <2>3, <3>1, <3>6, PutFits DEF Base
      <4> DEFINE v == IF machine[x] = "Absent" THEN "Empty" ELSE machine[x]
      <4>2. machine' = [machine EXCEPT ![x] = v]  BY <3>6
      <4>3. v # "Absent" /\ v \in {"Absent", "Empty"}  BY <1>1, <3>1, <4>1 DEF Orderly
      <4> HIDE DEF v
      <4>4. WellFormed([machine EXCEPT ![x] = v])
        BY <1>1, <3>1, <4>1, <4>3, WellFormedOn DEF Orderly
      <4>5. \A s \in Slots : machine'[s] = machine[s] \/ machine'[s] = v  BY <1>1, <3>1, <4>2
      <4> QED BY <1>1, <4>2, <4>3, <4>4, <4>5 DEF Orderly
    <3> QED BY <1>2, <2>1, <3>2, <3>4, <3>5, <3>6
  <2>4. CASE stage.phase = "Backup"  BY <1>1, <1>3, <2>4, BackupStep
  <2>5. CASE stage.phase \in {"Startup", "Shutdown"}  BY <1>1, <1>3, <2>5, HookStep
  <2>6. CASE stage.phase \in {"Create", "Seal", "Open"}  BY <1>1, <1>3, <2>6, FileStep
  <2> QED BY <2>1, <2>2, <2>3, <2>4, <2>5, <2>6 DEF StageSet
<1>4. CASE machine' = machine  BY <1>1, <1>4
<1>5. CASE Use
  <2>1. machine' \in Machines  BY <1>5 DEF Use
  <2> QED BY <2>1 DEF Machines, Natural, Orderly, Base
<1>6. CASE FailStep \/ Throw
  BY <1>2, <1>6, Breaking
<1>7. \/ machine' = machine
      \/ Use
      \/ Stays /\ Work
      \/ FailStep \/ Throw
  BY Cases DEF Begin, EnterStage, resources, vars
<1> QED BY <1>3, <1>4, <1>5, <1>7, <1>6

LEMMA BasesKept ==
    ASSUME TypedState, Ordered, [Next]_vars
    PROVE  BasesMissing(archive')
<1>1. archive \in [Slots -> Archived] /\ BasesMissing(archive) /\ Sane /\ Fitting
  BY DEF TypedState, TypeOK, Ordered, Sane
<1>2. ASSUME Stays, Work PROVE BasesMissing(archive')
  <2>1. stage \in StageSet /\ script # <<>>  BY <1>2, StaysTyped
  <2>2. CASE stage.phase = "Backup"
    <3>1. BackupFits(stage.action, step, machine) /\ stage.action \in Actions
      BY <1>1, <2>1, <2>2, CurrentFits DEF Fits
    <3>2. step.do = "save" => ~Base(step.slot)  BY <3>1 DEF BackupFits
    <3>3. archive' = archive \/ (step.do = "save" /\ \E v : archive' = [archive EXCEPT ![step.slot] = v])
      BY <1>1, <1>2, <2>2, BackupStep
    <3> QED BY <1>1, <3>2, <3>3 DEF BasesMissing
  <2>3. CASE stage.phase \in {"Create", "Seal", "Open"}
    <3>1. archive' = archive \/ archive' = [s \in Slots |-> "Missing"]  BY <1>1, <1>2, <2>3, FileStep
    <3> QED BY <1>1, <3>1 DEF BasesMissing
  <2>4. CASE stage.phase = "Clean"  BY <1>1, <1>2, <2>4, CleanStep
  <2>5. CASE stage.phase = "Restore"  BY <1>1, <1>2, <2>5, RestoreStep
  <2>6. CASE stage.phase \in {"Startup", "Shutdown"}  BY <1>1, <1>2, <2>6, HookStep
  <2> QED BY <2>1, <2>2, <2>3, <2>4, <2>5, <2>6 DEF StageSet
<1>3. archive' = archive \/ (Stays /\ Work)
  BY Cases, Breaking DEF Begin, EnterStage, resources, vars, Use
<1> QED BY <1>1, <1>2, <1>3

LEMMA SaneKept ==
    ASSUME TypedState, Ordered, [Next]_vars
    PROVE  Sane'
<1>1. Orderly(machine') /\ BasesMissing(archive')  BY OrderlyKept, BasesKept
<1>2. (skip_all' => ErrorAnswers # {}) /\ (silenced' => skip_all')  BY FlagsKept DEF Ordered
<1>3. stage'.phase \in {"Create", "Seal", "Open"} => Len(script') <= 1
  <2>1. CASE EnterStage
    <3>1. request \in AllRequests /\ stage' \in StagesOf(request) /\ script' = Steps(stage')
      BY <2>1, EnterStageRun DEF Ordered
    <3>2. PICK st \in StagesOf(request) : st = stage'  BY <3>1
    <3> QED BY <3>1, <3>2, StageFits
  <2>2. CASE Stays /\ Work
    <3>1. stage' = stage  BY <2>2, StaysTyped
    <3>2. stage.phase \in {"Create", "Seal", "Open"} => script' = <<>>
      BY <2>2, FileStep DEF Ordered
    <3> QED BY <3>1, <3>2
  <2>3. CASE UNCHANGED vars  BY <2>3 DEF vars, Ordered, Sane
  <2>4. CASE (\E r \in Requests : Begin(r)) \/ Ends \/ Use
    <3>1. script' = <<>>  BY <2>4 DEF Begin, Ends, Use, Idle, TypedState, TypeOK
    <3> QED BY <3>1
  <2> QED BY <2>1, <2>2, <2>3, <2>4, Cases
<1> QED BY <1>1, <1>2, <1>3 DEF Sane, Orderly, BasesMissing

LEMMA OrderedKept == TypedState /\ Ordered /\ [Next]_vars => Ordered'
BY CourseKept, FittingKept, SaneKept, MountedKept DEF Ordered

LEMMA InitOrdered == Init => Ordered
<1> SUFFICES ASSUME Init PROVE Ordered
  OBVIOUS
<1>1. /\ request = None /\ stage = NoStage /\ script = <<>> /\ ~skip_all /\ ~silenced
      /\ machine \in Machines /\ archive = [s \in Slots |-> "Missing"]
  BY DEF Init
<1>2. Course  BY <1>1 DEF Course
<1>3. Fitting  BY <1>1, Scripts DEF Fitting
<1>4. Sane  BY <1>1 DEF Sane, Machines, Natural, BasesMissing, Base, NoStage, Stage
<1>5. Mounted  BY <1>1 DEF Mounted, NoStage, Stage
<1> QED BY <1>2, <1>3, <1>4, <1>5 DEF Ordered
=============================================================================
