------------------------------- MODULE Actions -------------------------------
(***************************************************************************)
(* The resource actions of a blueprint (shared/src/actions): what backup,  *)
(* restore and clean of each kind of action do, step by step, and what     *)
(* becomes of the action when a step fails and somebody, or nobody, is     *)
(* asked about it.                                                         *)
(*                                                                         *)
(* A slot is one thing an action manages.  <<i, 0>> is the resource of     *)
(* action i itself (for a directory, its base) and <<i, k>> the k-th entry *)
(* in the directory of action i.  The recursion into subdirectories is     *)
(* flattened: an entry is a file or an empty directory below the base.     *)
(***************************************************************************)
EXTENDS Naturals, Sequences

CONSTANTS
    Blueprint,  \* the kinds of the actions, in document order
    DirSize,    \* how many entries a directory can have
    Excluded,   \* the entries the filters of a directory action leave out
    Contents    \* what a file, a value, a key or a service can be

Kinds == {"File", "Directory", "List", "Environment", "Hosts", "Service", "Registry"}

Actions == 1..Len(Blueprint)

Entries(i) == IF Blueprint[i] = "Directory" THEN 1..DirSize ELSE {}

Slots == {<<i, 0>> : i \in Actions} \cup UNION {{i} \X Entries(i) : i \in Actions}

\* What a backup of a directory leaves out: an entry the filters exclude, or a
\* file called blueprint.xml.
Filtered == {s \in Slots : s[2] \in Excluded}

\* "Empty" is a file of no bytes, a variable set to nothing, or the base of a
\* directory that exists; "Torn" is a part of what was to be written; "Absent" is
\* nothing at all.  In the archive, "Absent" is the recorded absence of a value
\* and "Missing" no archive entry.
States == Contents \cup {"Empty", "Torn", "Absent"}

Archived == States \cup {"Missing"}

\* A file needs its directory.
WellFormed(m) ==
    \A i \in Actions : m[<<i, 0>>] = "Absent" => \A k \in Entries(i) : m[<<i, k>>] = "Absent"

-----------------------------------------------------------------------------
(* Failing: what the rest of the action does after a step has failed.      *)
(*   "next"   the failing item is left and the action goes on              *)
(*   "again"  the same step is tried again                                 *)
(*   "last"   of the action, only its last step is left                    *)
(*   "done"   the action returns true                                      *)
(*   "fail"   the action returns false                                     *)

Decisions == {"Continue", "Retry", "Skip", "SkipAll", "Abort"}

Answers(go_on, retry, abort) ==
    [d \in Decisions |-> IF d = "Retry" THEN retry ELSE IF d = "Abort" THEN abort ELSE go_on]

\* Where a step fails the code looks at skip_all, then asks, and without a
\* callback decides on its own.  "ask" in silent: skip_all is not looked at.
Protocol(silent, answers, alone) == [silent |-> silent, answers |-> answers, alone |-> alone]

\* A switch whose Abort falls through to the others.
Bug_handle_decision == Answers("done", "fail", "done")

\* IAction::handle_decision, whose result most actions return at once.
handle_decision == Answers("done", "fail", "fail")

\* The step fails the action without asking anybody.
Unasked == Protocol("fail", [d \in {} |-> "fail"], "fail")

\* Retry loops: one that does not look at skip_all, and one that shrugs when
\* there is no callback.
Bug_EntryNags == Protocol("ask", Answers("next", "again", "fail"), "fail")

Bug_EntryShrugs == Protocol("next", Answers("next", "again", "fail"), "next")

\* A directory that cannot be listed is cleaned as if nothing were in it.
Unlisted == Protocol("last", [d \in {} |-> "last"], "last")

\* The retry loop around each entry of a directory.
EntryError == Protocol("next", Answers("next", "again", "fail"), "fail")

\* A file, or the base of a directory: one question for the whole action.
FileError == Protocol("done", handle_decision, "fail")

FileMissing == Protocol("done", handle_decision, "done")

\* The other actions never look at skip_all.
ValueError == Protocol("ask", handle_decision, "fail")

ValueMissing == Protocol("ask", handle_decision, "done")

\* check_archive_exists, whose FALSE, "to abort", makes every restore return
\* true: after an Abort the restore goes on with the next action, and after a
\* Skip it restores what the archive does not have.
check_archive_exists == Protocol("done", Answers("next", "done", "done"), "done")

\* RegistryAction::do_clean returns false whatever the answer is.
KeyError == Protocol("fail", Answers("fail", "fail", "fail"), "fail")

\* IAction::clean asks about the failure of do_clean, again if do_clean has
\* asked already, and does not look at skip_all.
CleanError == ValueError

\* A conflict that is asked about until the file is gone.
Bug_Conflict == Protocol("ask", Answers("again", "again", "again"), "next")

\* on_file_conflict is not about an error: any answer but Skip and Abort goes on.
Conflict ==
    Protocol("ask", [d \in Decisions |-> IF d = "Skip" THEN "done" ELSE IF d = "Abort" THEN "fail" ELSE "next"], "next")

-----------------------------------------------------------------------------
(* The steps of an action.  A step that cannot be tried is left out.       *)

Step(do, slot, site) == [do |-> do, slot |-> slot, site |-> site]

\* A step for each entry of action i in E; the loop has nothing to do at others.
ForEach(do, i, E, site) ==
    [k \in 1..DirSize |-> Step(IF k \in E THEN do ELSE "pass", <<i, k>>, site)]

\* An action that does not look at simulate.
Bug_Real(idle, steps) == steps

\* Most actions return before they change anything when they simulate, or when
\* there is nothing to do.
Real(idle, steps) == IF idle THEN <<>> ELSE steps

Present(i, m) == {k \in Entries(i) : m[<<i, k>>] # "Absent"}

Stored(i, a) == {k \in Entries(i) : a[<<i, k>>] # "Missing"}

\* The entries a backup of a directory finds and its filters let through.
collect_entries(i, m) == Present(i, m) \ Excluded

backup_files(i, m) == ForEach("save", i, collect_entries(i, m), EntryError)

restore_files(i, a) == ForEach("put", i, Stored(i, a), EntryError)

clean_files(i, m) == ForEach("drop", i, Present(i, m), EntryError)

clean_directories(i) == <<Step("drop", <<i, 0>>, EntryError)>>

\* What each class does in backup.  A list entry or an environment variable
\* that does not exist is recorded as such; anything else has to exist.
FileBackup(i) ==
    <<Step("exists", <<i, 0>>, FileMissing), Step("save", <<i, 0>>, FileError)>>

DirectoryBackup(i, m) ==
    <<Step("exists", <<i, 0>>, FileMissing), Step("list", <<i, 0>>, Unasked)>> \o backup_files(i, m)

ListBackup(i) == <<Step("save", <<i, 0>>, ValueError)>>

EnvironmentBackup(i) == <<Step("save", <<i, 0>>, ValueError)>>

HostsBackup(i) ==
    <<Step("exists", <<i, 0>>, ValueMissing), Step("save", <<i, 0>>, ValueError)>>

ServiceBackup(i) ==
    <<Step("exists", <<i, 0>>, ValueMissing), Step("save", <<i, 0>>, ValueError)>>

RegistryBackup(i) ==
    <<Step("exists", <<i, 0>>, ValueMissing), Step("save", <<i, 0>>, ValueError)>>

BackupSteps(i, m) ==
    CASE Blueprint[i] = "File" -> FileBackup(i)
      [] Blueprint[i] = "Directory" -> DirectoryBackup(i, m)
      [] Blueprint[i] = "List" -> ListBackup(i)
      [] Blueprint[i] = "Environment" -> EnvironmentBackup(i)
      [] Blueprint[i] = "Hosts" -> HostsBackup(i)
      [] Blueprint[i] = "Service" -> ServiceBackup(i)
      [] Blueprint[i] = "Registry" -> RegistryBackup(i)

\* What each class does in restore.  CopyDirectoryAction looks at simulate only
\* when it comes to the entries, the actions on lists never.  An empty service
\* or key in the snapshot is only a warning.
Lookup(i) == <<Step("lookup", <<i, 0>>, check_archive_exists)>>

FileRestore(i, simulate) ==
    Lookup(i) \o Real(simulate,
        <<Step("conflict", <<i, 0>>, Conflict), Step("parent", <<i, 0>>, FileError),
          Step("put", <<i, 0>>, FileError)>>)

DirectoryRestore(i, a, simulate) ==
    Lookup(i)
      \o <<Step("conflict", <<i, 0>>, Conflict), Step("mkdir", <<i, 0>>, FileError)>>
      \o Real(simulate, restore_files(i, a))

ListRestore(i) == Lookup(i) \o <<Step("put", <<i, 0>>, ValueError)>>

EnvironmentRestore(i, simulate) ==
    Lookup(i) \o Real(simulate, <<Step("put", <<i, 0>>, ValueError)>>)

HostsRestore(i, simulate) ==
    Lookup(i) \o Real(simulate, <<Step("put", <<i, 0>>, ValueError)>>)

ServiceRestore(i, a, simulate) ==
    Lookup(i) \o Real(simulate \/ a[<<i, 0>>] = "Missing", <<Step("put", <<i, 0>>, ValueError)>>)

RegistryRestore(i, a, simulate) ==
    Lookup(i) \o Real(simulate \/ a[<<i, 0>>] = "Missing", <<Step("put", <<i, 0>>, ValueError)>>)

RestoreSteps(i, a, simulate) ==
    CASE Blueprint[i] = "File" -> FileRestore(i, simulate)
      [] Blueprint[i] = "Directory" -> DirectoryRestore(i, a, simulate)
      [] Blueprint[i] = "List" -> ListRestore(i)
      [] Blueprint[i] = "Environment" -> EnvironmentRestore(i, simulate)
      [] Blueprint[i] = "Hosts" -> HostsRestore(i, simulate)
      [] Blueprint[i] = "Service" -> ServiceRestore(i, a, simulate)
      [] Blueprint[i] = "Registry" -> RegistryRestore(i, a, simulate)

\* What each class does in do_clean.  A directory loses everything in it,
\* filtered or not, and then itself; a dry run still lists it.  The actions on lists
\* do not look at simulate.
Gone(i, m) == m[<<i, 0>>] = "Absent"

FileClean(i, m, simulate) ==
    Real(simulate \/ Gone(i, m), <<Step("drop", <<i, 0>>, Unasked)>>)

DirectoryClean(i, m, simulate) ==
    Real(Gone(i, m),
        <<Step("list", <<i, 0>>, Unlisted)>>
          \o Real(simulate, clean_files(i, m) \o clean_directories(i)))

ListClean(i) == <<Step("drop", <<i, 0>>, Unasked)>>

EnvironmentClean(i, simulate) == Real(simulate, <<Step("drop", <<i, 0>>, Unasked)>>)

HostsClean(i, simulate) == Real(simulate, <<Step("drop", <<i, 0>>, Unasked)>>)

ServiceClean(i, simulate) == Real(simulate, <<Step("drop", <<i, 0>>, Unasked)>>)

RegistryClean(i, m, simulate) ==
    Real(simulate \/ Gone(i, m), <<Step("drop", <<i, 0>>, KeyError)>>)

CleanSteps(i, m, simulate) ==
    CASE Blueprint[i] = "File" -> FileClean(i, m, simulate)
      [] Blueprint[i] = "Directory" -> DirectoryClean(i, m, simulate)
      [] Blueprint[i] = "List" -> ListClean(i)
      [] Blueprint[i] = "Environment" -> EnvironmentClean(i, simulate)
      [] Blueprint[i] = "Hosts" -> HostsClean(i, simulate)
      [] Blueprint[i] = "Service" -> ServiceClean(i, simulate)
      [] Blueprint[i] = "Registry" -> RegistryClean(i, m, simulate)

-----------------------------------------------------------------------------
(* What a step does, and when it cannot but fail.  That a conflict "fails" *)
(* means that the target exists and the callback, if any, is asked.        *)

\* What a restore of archive a would bring back: a directory comes with the
\* first of its entries.
Saved(a) ==
    [s \in Slots |->
        IF s[2] = 0 /\ Blueprint[s[1]] = "Directory"
        THEN IF Stored(s[1], a) = {} THEN "Absent" ELSE "Empty"
        ELSE IF a[s] = "Missing" THEN "Absent" ELSE a[s]]

\* What a backup writes of a slot: an empty variable reads like one that is not set.
Written(slot, m) ==
    IF m[slot] = "Empty" /\ Blueprint[slot[1]] = "Environment" THEN "Absent" ELSE m[slot]

\* The part of machine m that can be saved: what the filters leave out cannot,
\* and neither can a directory of which nothing is left.
Saveable(m) ==
    [s \in Slots |->
        IF s \in Filtered \/ (Blueprint[s[1]] = "Directory" /\ Present(s[1], m) \ Excluded = {})
        THEN "Absent" ELSE Written(s, m)]

\* A Windows call the environment can make fail.
CanFail(step) ==
    CASE step.do \in {"save", "put", "drop", "list", "parent", "mkdir"} -> TRUE
      [] step.do = "exists" -> Blueprint[step.slot[1]] \in {"Hosts", "Service", "Registry"}
      [] OTHER -> FALSE

MustFail(step, m, a) ==
    LET i == step.slot[1]
    IN CASE step.do = "exists" -> m[step.slot] = "Absent"
         [] step.do = "lookup" -> a[step.slot] = "Missing" /\ Stored(i, a) = {}
         [] step.do = "conflict" -> m[step.slot] # "Absent"
         [] step.do = "drop" -> step.slot[2] = 0 /\ Present(i, m) # {}
         [] OTHER -> FALSE

\* std::filesystem calls without an error_code: the increments of an iteration,
\* and those of extract_to_file.
CanThrow(step) ==
    \/ step.do = "list"
    \/ step.do = "put" /\ Blueprint[step.slot[1]] = "Directory"

\* read_binary and read_text of an entry that is not there return nothing: a
\* file is then written empty, a value deleted.
Restored(slot, a) ==
    IF a[slot] # "Missing" THEN a[slot]
    ELSE IF Blueprint[slot[1]] = "File" THEN "Empty" ELSE "Absent"

\* Values that are read as absent when their key, or the hosts file, cannot be
\* opened: the step then succeeds and does nothing, or records the absence.  An
\* entry whose relative path cannot be computed is logged and left out.
CanOverlook(step, a) ==
    LET kind == Blueprint[step.slot[1]]
    IN \/ step.do = "save" /\ kind \in {"List", "Environment", "Directory"}
       \/ step.do = "drop" /\ kind \in {"List", "Environment", "Hosts", "Registry"}
       \/ /\ step.do = "put" /\ kind \in {"List", "Environment", "Hosts"}
          /\ Restored(step.slot, a) = "Absent"

\* Nor do they return anything for an entry that cannot be extracted; a service
\* or a key is then left as it is.
Misread(slot, m) ==
    IF Blueprint[slot[1]] \in {"Service", "Registry"} THEN m[slot]
    ELSE IF Blueprint[slot[1]] = "File" THEN "Empty" ELSE "Absent"

\* The archive after a step whose failure was overlooked.
Overlooked(step, a) ==
    IF step.do = "save" /\ Blueprint[step.slot[1]] # "Directory"
    THEN [a EXCEPT ![step.slot] = "Absent"] ELSE a

\* What a write may leave that fails half-way: a file that has been truncated, or
\* holds a part of its contents or the wrong ones; a hosts file without the
\* entry, or with a part of it; a key with a part of its values.  Any other
\* write is a single call, which fails or does not.
Partial(step) ==
    LET kind == Blueprint[step.slot[1]]
    IN CASE step.do = "put" /\ kind \in {"File", "Directory"} -> {"Empty", "Torn"}
         [] step.do \in {"put", "drop"} /\ kind = "Hosts" -> {"Absent", "Torn"}
         [] step.do \in {"put", "drop"} /\ kind = "Registry" -> {"Torn"}
         [] OTHER -> {}

\* The machine after the step has failed.
Wreckage(step, m) == {m} \cup {[m EXCEPT ![step.slot] = v] : v \in Partial(step)}

\* The machine and the archive after the step has succeeded.
MachineAfter(step, m, a) ==
    CASE step.do = "put" -> [m EXCEPT ![step.slot] = Restored(step.slot, a)]
      [] step.do = "mkdir" -> [m EXCEPT ![step.slot] = IF @ = "Absent" THEN "Empty" ELSE @]
      [] step.do = "drop" -> [m EXCEPT ![step.slot] = "Absent"]
      [] OTHER -> m

ArchiveAfter(step, m, a) ==
    IF step.do = "save" THEN [a EXCEPT ![step.slot] = Written(step.slot, m)] ELSE a
=============================================================================
