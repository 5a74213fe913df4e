-------------------------- MODULE InstallRegistry --------------------------
(***************************************************************************)
(* The snapshots on disk, the install status kept for them in the cache    *)
(* (SQLite, shared by every process) and in the registries in memory       *)
(* (snapshot_registry.cpp, blueprint_cache.cpp), and what an operation of  *)
(* the orchestrator does to the three.                                     *)
(*                                                                         *)
(* A client is a thread that scans and operates: the command line tool, or *)
(* the worker thread of the GUI.  A name is a spelling of a path: the scan *)
(* spells a path in one way, a user may spell it in another, and the cache *)
(* and the lists compare spellings.  The XML of an instance is its         *)
(* project, and the names that occur in it as name="...".                  *)
(***************************************************************************)
EXTENDS Naturals, Sequences, FiniteSets

CONSTANTS
    Clients,        \* threads that scan and operate
    Registries,     \* SnapshotRegistry objects
    Projects,
    Files,
    Names,          \* spellings of the paths of files
    FileOf,         \* the file a name denotes
    ScanOrder,      \* the names in the order a scan of the roots meets them
    Mentions,       \* Mentions[x]: the names that the XML of an instance of x contains
    None

ASSUME RegistryAssumption ==
    /\ FileOf \in [Names -> Files]
    /\ ScanOrder \in Seq(Names)
    /\ Mentions \in [Projects -> SUBSET Projects]
    /\ None \notin Registries \cup Names \cup Projects
    /\ {"Absent", "Broken"} \cap Projects = {}

VARIABLES
    files,          \* Absent, Broken (no blueprint.xml in it), or an instance of a project
    rows,           \* the table "blueprints": a row per name
    lists,          \* m_instances of each registry
    work,           \* what each client is doing
    stale           \* history: registry and project of which it missed a change of status

disk == <<files, rows>>
registryVars == <<files, rows, lists, work, stale>>

Statuses == {"Unknown", "NotInstalled", "Installed"}
Operations == {"scan", "backup", "restore", "clean"}

Row == [of : Projects, fresh : BOOLEAN, status : Statuses]
Entry == [name : Names, of : Projects, status : Statuses]

\* pc: what comes next; todo: names still to look at; assumed: the default
\* status; loaded: the instance read from its archive; origin: the snapshot
\* that a re-backup replaces.
Work == [pc : {"looking", "storing", "ready", "executing", "crediting", "done"},
         op : Operations, name : Names \cup {None}, of : Projects \cup {None},
         reg : Registries, origin : Names \cup {None},
         todo : Seq(Names), assumed : Statuses, loaded : Entry \cup {None}, ok : BOOLEAN]

ASSUME NoneAssumption == None \notin Row \cup Entry \cup Work

\* The statuses, lists and archives are of the kinds the code has, and a client
\* is in the middle of an archive exactly while it has loaded one.
TypeOK ==
    /\ files \in [Files -> Projects \cup {"Absent", "Broken"}]
    /\ rows \in [Names -> Row \cup {None}]
    /\ lists \in [Registries -> Seq(Entry)]
    /\ work \in [Clients -> Work \cup {None}]
    /\ \A c \in Clients : work[c] # None => (work[c].pc = "storing" <=> work[c].loaded # None)
    /\ stale \subseteq Registries \X Projects

Init ==
    /\ files = [f \in Files |-> "Absent"]
    /\ rows = [n \in Names |-> None]
    /\ lists = [r \in Registries |-> <<>>]
    /\ work = [c \in Clients |-> None]
    /\ stale = {}

-----------------------------------------------------------------------------
(* Helpers.                                                                *)

At(c, pc) == work[c] # None /\ work[c].pc = pc

Continue(c, w) == work' = [work EXCEPT ![c] = w]

Content(n) == files[FileOf[n]]

\* A file that is written has another time and size than its rows say.
Outdate(f) ==
    rows' = [n \in Names |->
               IF rows[n] # None /\ FileOf[n] = f THEN [rows[n] EXCEPT !.fresh = FALSE]
                                                  ELSE rows[n]]

Holds(list, x) == \E i \in DOMAIN list : list[i].of = x

\* Another registry than r does not hear of a change that r makes for x.
Missed(r, x) == stale \cup {<<s, x>> : s \in {t \in Registries \ {r} : Holds(lists[t], x)}}

Untold(r, x) == stale' = Missed(r, x)

\* The first entry of a list for a name (find_instance_for_path).
Positions(list, n) == {i \in DOMAIN list : list[i].name = n}
FirstFor(list, n) == CHOOSE i \in Positions(list, n) : \A j \in Positions(list, n) : i <= j

SomeInstalled(list, x) ==
    \E i \in DOMAIN list : list[i].of = x /\ list[i].status = "Installed"

Unmarked(list, x) ==
    [i \in DOMAIN list |->
        IF list[i].of = x THEN [list[i] EXCEPT !.status = "NotInstalled"] ELSE list[i]]

Marked(list, n) ==
    IF Positions(list, n) = {} THEN list
    ELSE [list EXCEPT ![FirstFor(list, n)].status = "Installed"]

\* mark_all_instances_not_installed looks for name="x" in the XML of each row.
MarkAllNotInstalled(x) ==
    [n \in Names |->
        IF rows[n] # None /\ x \in Mentions[rows[n].of]
        THEN [rows[n] EXCEPT !.status = "NotInstalled"] ELSE rows[n]]

-----------------------------------------------------------------------------
(* SnapshotRegistry::initialize, one name at a time: the cache is read, the *)
(* archive is opened unless the row is fresh, and the row is written.       *)

\* A registry before its scan, and after its last use.
Empty(rs) ==
    /\ lists' = [r \in Registries |-> IF r \in rs THEN <<>> ELSE lists[r]]
    /\ stale' = {s \in stale : s[1] \notin rs}

ScanWith(c, w) ==
    /\ Continue(c, [w EXCEPT !.pc = "looking", !.todo = ScanOrder, !.assumed = "Unknown"])
    /\ Empty({w.reg})

\* A cache entry whose archive has changed is treated as no entry at all.
Bug_StatusFor(n, assumed) ==
    IF rows[n] = None \/ ~rows[n].fresh THEN assumed ELSE rows[n].status

\* BlueprintCache::get sets the status even if the row is out of date.
StatusFor(n, assumed) == IF rows[n] = None THEN assumed ELSE rows[n].status

Fresh(n) == Content(n) # "Absent" /\ rows[n] # None /\ rows[n].fresh

Looks(c) == At(c, "looking") /\ work[c].todo # <<>>

Admit(c, entry) == lists' = [lists EXCEPT ![work[c].reg] = Append(@, entry)]

LookupHit(c) ==
    /\ Looks(c)
    /\ LET w == work[c]
           n == Head(w.todo) IN
       /\ Fresh(n)
       /\ Admit(c, [name |-> n, of |-> rows[n].of, status |-> rows[n].status])
       /\ Continue(c, [w EXCEPT !.todo = Tail(@)])
    /\ UNCHANGED <<disk, stale>>

LookupLoads(c) ==
    /\ Looks(c)
    /\ LET w == work[c]
           n == Head(w.todo) IN
       /\ ~Fresh(n) /\ Content(n) \in Projects
       /\ Continue(c, [w EXCEPT !.pc = "storing",
                                !.loaded = [name |-> n, of |-> Content(n),
                                            status |-> StatusFor(n, w.assumed)]])
    /\ UNCHANGED <<disk, lists, stale>>

LookupNothing(c) ==
    /\ Looks(c)
    /\ ~Fresh(Head(work[c].todo)) /\ Content(Head(work[c].todo)) \notin Projects
    /\ Continue(c, [work[c] EXCEPT !.todo = Tail(@)])
    /\ UNCHANGED <<disk, lists, stale>>

\* The archive that was loaded is kept.
Bug_Store(c) ==
    /\ At(c, "storing")
    /\ LET w == work[c]
           e == w.loaded IN
       /\ rows' = [rows EXCEPT ![e.name] =
                     [of |-> e.of, fresh |-> Content(e.name) = e.of, status |-> e.status]]
       /\ Admit(c, e)
       /\ Continue(c, [w EXCEPT !.pc = "looking", !.todo = Tail(@)])
       /\ IF StatusFor(e.name, "Unknown") = e.status THEN UNCHANGED stale ELSE Untold(w.reg, e.of)
    /\ UNCHANGED files

\* BlueprintCache::put, with the time and size the file had when it was met.
Store(c) ==
    /\ At(c, "storing")
    /\ LET w == work[c]
           e == w.loaded IN
       /\ rows' = [rows EXCEPT ![e.name] =
                     [of |-> e.of, fresh |-> Content(e.name) = e.of, status |-> e.status]]
       /\ Admit(c, e)
       /\ Continue(c, [w EXCEPT !.pc = "looking", !.loaded = None, !.todo = Tail(@)])
       /\ IF StatusFor(e.name, "Unknown") = e.status THEN UNCHANGED stale ELSE Untold(w.reg, e.of)
    /\ UNCHANGED files

\* Every name is looked at: either that was all, or the operation is next.
LookupEnds(c) ==
    /\ At(c, "looking") /\ work[c].todo = <<>>
    /\ Continue(c, [work[c] EXCEPT !.pc = IF work[c].ok THEN "done" ELSE "ready"])
    /\ UNCHANGED <<disk, lists, stale>>

Scans(c) ==
    LookupHit(c) \/ LookupLoads(c) \/ LookupNothing(c) \/ Store(c) \/ LookupEnds(c)

-----------------------------------------------------------------------------
(* The operations of the orchestrator, as the registry sees them.          *)

Starts(c, op) == At(c, "ready") /\ work[c].op = op
Executes(c, op) == At(c, "executing") /\ work[c].op = op

Ends(c, ok) == Continue(c, [work[c] EXCEPT !.pc = "done", !.ok = ok])

\* Hooks, or opening the archive, fail before anything is changed.
FailEarly(c) ==
    /\ At(c, "ready")
    /\ Ends(c, FALSE)
    /\ UNCHANGED <<disk, lists, stale>>

\* ZipSnapshotWriter::create replaces what the path held by an archive without
\* a blueprint.xml.
BeginBackup(c) ==
    /\ Starts(c, "backup")
    /\ files' = [files EXCEPT ![FileOf[work[c].name]] = "Broken"]
    /\ Outdate(FileOf[work[c].name])
    /\ Continue(c, [work[c] EXCEPT !.pc = "executing"])
    /\ UNCHANGED <<lists, stale>>

WriteArchive(c) ==
    /\ files' = [files EXCEPT ![FileOf[work[c].name]] = work[c].of]
    /\ Outdate(FileOf[work[c].name])

\* An action fails, or the archive cannot be finished; or it is finished and
\* the startup hooks fail.
FailBackup(c) ==
    /\ Executes(c, "backup")
    /\ WriteArchive(c) \/ UNCHANGED disk
    /\ Ends(c, FALSE)
    /\ UNCHANGED <<lists, stale>>

\* on_backup_complete: a new entry, marked unless another one is, or with the
\* status that the cache has for its path.
Bug_FinishBackup(c) ==
    /\ Executes(c, "backup")
    /\ WriteArchive(c)
    /\ Continue(c, [work[c] EXCEPT !.pc = "looking", !.ok = TRUE, !.todo = <<work[c].name>>,
                                   !.assumed = "Installed"])
    /\ UNCHANGED <<lists, stale>>

FinishBackup(c) ==
    /\ Executes(c, "backup")
    /\ WriteArchive(c)
    /\ Continue(c, [work[c] EXCEPT !.pc = "looking", !.ok = TRUE, !.todo = <<work[c].name>>,
                      !.assumed = IF SomeInstalled(lists[work[c].reg], work[c].of)
                                  THEN "NotInstalled" ELSE "Installed"])
    /\ UNCHANGED <<lists, stale>>

\* A restore, which cleans first, and a clean change the machine step by step.
BeginChange(c) ==
    /\ Starts(c, "restore") \/ Starts(c, "clean")
    /\ work[c].op = "restore" => Content(work[c].name) \in Projects
    /\ Continue(c, [work[c] EXCEPT !.pc = "executing"])
    /\ UNCHANGED <<disk, lists, stale>>

\* What fails on the way is not told to the registry.
FailChange(c) ==
    /\ Executes(c, "restore") \/ Executes(c, "clean")
    /\ Ends(c, FALSE)
    /\ UNCHANGED <<disk, lists, stale>>

\* The notifications change the list in memory, and leave the cache to the next scan.
Bug_UnmarkAll(c) ==
    LET x == work[c].of IN
    /\ lists' = [lists EXCEPT ![work[c].reg] = Unmarked(@, x)]
    /\ stale' = Missed(work[c].reg, x) \ {<<work[c].reg, x>>}
    /\ UNCHANGED rows

\* What both notifications begin with: nothing of the project is installed.
UnmarkAll(c) ==
    LET x == work[c].of IN
    /\ rows' = MarkAllNotInstalled(x)
    /\ lists' = [lists EXCEPT ![work[c].reg] = Unmarked(@, x)]
    /\ stale' = Missed(work[c].reg, x) \ {<<work[c].reg, x>>}

FinishRestore(c) ==
    /\ Executes(c, "restore")
    /\ UnmarkAll(c)
    /\ Continue(c, [work[c] EXCEPT !.pc = "crediting"])
    /\ UNCHANGED files

\* The instance is marked in the list alone.
Bug_Credit(c) ==
    /\ At(c, "crediting")
    /\ LET w == work[c] IN
       /\ lists' = [lists EXCEPT ![w.reg] = Marked(@, w.name)]
       /\ Untold(w.reg, w.of)
    /\ Ends(c, TRUE)
    /\ UNCHANGED <<files, rows>>

\* The rest of on_restore_complete: the restored instance, if the registry has
\* one under this name, is marked in the list and in the cache.
Credit(c) ==
    /\ At(c, "crediting")
    /\ LET w == work[c] IN
       /\ lists' = [lists EXCEPT ![w.reg] = Marked(@, w.name)]
       /\ rows' = IF Positions(lists[w.reg], w.name) # {} /\ rows[w.name] # None
                  THEN [rows EXCEPT ![w.name].status = "Installed"] ELSE rows
       /\ Untold(w.reg, w.of)
    /\ Ends(c, TRUE)
    /\ UNCHANGED files

FinishClean(c) ==
    /\ Executes(c, "clean")
    /\ UnmarkAll(c)
    /\ Ends(c, TRUE)
    /\ UNCHANGED files

Operates(c) ==
    \/ FailEarly(c)
    \/ BeginBackup(c) \/ FailBackup(c) \/ FinishBackup(c)
    \/ BeginChange(c) \/ FailChange(c) \/ FinishRestore(c) \/ Credit(c) \/ FinishClean(c)

ClientStep(c) == Scans(c) \/ Operates(c)

-----------------------------------------------------------------------------
(* The world: somebody deletes a snapshot, or copies one into the roots.   *)

DeleteFile(f) ==
    /\ files[f] # "Absent"
    /\ files' = [files EXCEPT ![f] = "Absent"]
    /\ UNCHANGED <<rows, lists, work, stale>>

ImportFile(f, x) ==
    /\ files' = [files EXCEPT ![f] = x]
    /\ Outdate(f)
    /\ UNCHANGED <<lists, work, stale>>
=============================================================================
