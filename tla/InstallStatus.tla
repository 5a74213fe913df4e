--------------------------- MODULE InstallStatus ---------------------------
(***************************************************************************)
(* What the marks of CommandLine mean.  History variables record what the  *)
(* machine was made from, so that the properties can say what a mark       *)
(* promises the user ("* = installed", insti/main.cpp), and what a command *)
(* may do to the snapshots.                                                *)
(***************************************************************************)
EXTENDS CommandLine

VARIABLES
    matches,        \* per project, the snapshots the machine was last made from or saved to
    damaged,        \* projects of which a restore or a clean has begun and not succeeded
    foreign,        \* files that somebody else has put there
    reused,         \* names that were marked for what they no longer hold
    risked          \* projects whose snapshot the user wants overwritten or deleted

statusVars == <<commandVars, matches, damaged, foreign, reused, risked>>

StatusInit ==
    /\ CommandInit
    /\ matches = [x \in Projects |-> {}]
    /\ damaged = {} /\ foreign = {} /\ reused = {} /\ risked = {}

Installed(n) == rows[n] # None /\ rows[n].status = "Installed"

-----------------------------------------------------------------------------
(* The history of a command, read off its step.                            *)

Moves(op, from, to) ==
    /\ work[Cli] # None /\ work'[Cli] # None
    /\ work[Cli].op = op /\ work[Cli].pc = from /\ work'[Cli].pc = to

Of(x) == work[Cli].of = x
Target == FileOf[work[Cli].name]

Begins(x) == (Moves("restore", "ready", "executing") \/ Moves("clean", "ready", "executing")) /\ Of(x)
Restored(x) == Moves("restore", "executing", "crediting") /\ Of(x)
Cleaned(x) == Moves("clean", "executing", "done") /\ Of(x) /\ work'[Cli].ok

TracksMatches ==
    matches' = [x \in Projects |->
        IF Begins(x) THEN {}
        ELSE IF Restored(x) THEN {f \in {Target} : files[f] = x}
        ELSE {f \in Files : \/ f \in matches[x] /\ files'[f] = files[f]
                            \/ files[f] = "Broken" /\ files'[f] = x}]

TracksDamage ==
    damaged' = {x \in Projects : Begins(x) \/ (x \in damaged /\ ~Restored(x) /\ ~Cleaned(x))}

TracksReuse ==
    /\ foreign' = {f \in foreign : files'[f] = files[f]}
    /\ reused' = reused \cup
         {n \in Names : /\ Moves("backup", "ready", "executing") /\ FileOf[n] = Target
                        /\ Installed(n) /\ ~Of(files[Target])}

TracksWish ==
    risked' = IF work'[Cli] = None THEN {}
              ELSE IF work[Cli] = None /\ work'[Cli].op = "backup"
              THEN {files[FileOf[work'[Cli].name]]} \cap Projects
              ELSE risked

Observed == TracksMatches /\ TracksDamage /\ TracksReuse /\ TracksWish

\* Somebody else's deletions and copies, while no command runs.
Lost(f) ==
    /\ matches' = [x \in Projects |-> matches[x] \ {f}]
    /\ risked' = {files[f]} \cap Projects
    /\ UNCHANGED damaged

Deletes(f) ==
    /\ Delete(f) /\ Lost(f)
    /\ foreign' = foreign \ {f}
    /\ UNCHANGED reused

Imports(f, x) ==
    /\ Import(f, x) /\ Lost(f)
    /\ foreign' = foreign \cup {f}
    /\ reused' = reused \cup {n \in Names : FileOf[n] = f /\ Installed(n) /\ files[f] # x}

StatusNext ==
    \/ CommandStep /\ Observed
    \/ /\ work[Cli] = None
       /\ \E f \in Files : Deletes(f) \/ \E x \in Projects : Imports(f, x)

StatusSpec == StatusInit /\ [][StatusNext]_statusVars

-----------------------------------------------------------------------------

\* What a scan would show: the names it meets whose archive can be read.
Listed == {n \in Names : Content(n) \in Projects /\ \E i \in DOMAIN ScanOrder : ScanOrder[i] = n}

\* "* = installed": a listed snapshot that is marked is one the machine was last
\* made from, or saved to.  Excepted are projects with an operation that failed
\* half-way, which the registry is not told of, and files that somebody else has
\* put in the place of a marked one.
MarkIsHonest ==
    \A n \in Listed : Installed(n) =>
        \/ FileOf[n] \in matches[Content(n)]
        \/ Content(n) \in damaged
        \/ FileOf[n] \in foreign

\* At most one listed snapshot of a project is marked.  Excepted are names that
\* held a marked snapshot, lost it, and hold another one now: the cache never
\* forgets a row, and its status overrides the one on_backup_complete computes.
OneInstalled ==
    \A m, n \in Listed :
        (m # n /\ Content(m) = Content(n) /\ Installed(m) /\ Installed(n)) =>
            m \in reused \/ n \in reused

\* Only what an operation tells the registry changes the status of a snapshot, and
\* only an operation on its project, or on one that its XML mentions.  A scan keeps
\* it, also for an archive that has changed since.
Notifying(x) == work[Cli] # None /\ work[Cli].pc \in {"executing", "crediting"} /\ work[Cli].of = x

ScansKeepStatus ==
    [][\A n \in Names :
          (rows[n] # None /\ rows'[n] # rows[n] /\ rows'[n].status # rows[n].status) =>
              \E x \in {rows[n].of} \cup Mentions[rows[n].of] : Notifying(x)]_statusVars

\* The last snapshot of a project is lost only by an explicit wish: a deletion or a
\* copy over it, or a command that was to write to its path.  In particular a
\* re-backup, which removes its original ("will replace original after success"),
\* leaves a complete snapshot, whatever fails and whenever the process is killed.
SnapshotsSurvive ==
    [][\A x \in Projects \ (risked \cup risked') :
          (\E f \in Files : files[f] = x) => (\E f \in Files : files'[f] = x)]_statusVars
=============================================================================
