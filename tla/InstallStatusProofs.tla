------------------------ MODULE InstallStatusProofs ------------------------
(***************************************************************************)
(* Proofs about the command line tool, the cache and the snapshots: the    *)
(* commands of InstallStatus, one after the other, for any number of       *)
(* projects, snapshots and spellings, and any bounds.  The first half is   *)
(* about types, snapshots and what may change a status; the second about   *)
(* the marks.                                                              *)
(***************************************************************************)
EXTENDS InstallStatus, CommandLineProofs

-----------------------------------------------------------------------------
(* Types.                                                                  *)

Inv == CommandTypeOK /\ Shaped

LEMMA InvInit == StatusInit => Inv
<1> SUFFICES ASSUME StatusInit PROVE Inv
  OBVIOUS
<1>1. Init /\ commands = 0 /\ changes = 0
  BY DEF StatusInit, CommandInit
<1>2. lists \in [Registries -> Seq(Entry)]
  BY <1>1 DEF Init
<1>3. work \in [Clients -> Work \cup {None}] /\ \A c \in Clients : work[c] = None
  BY <1>1 DEF Init
<1>4. TypeOK
  BY <1>1, <1>2, <1>3 DEF Init, TypeOK
<1> QED BY <1>1, <1>3, <1>4, CommandLineAssumption DEF Inv, CommandTypeOK, Shaped

LEMMA InvNext == Inv /\ [StatusNext]_statusVars => Inv'
<1> SUFFICES ASSUME Inv, [StatusNext]_statusVars PROVE Inv'
  OBVIOUS
<1>0. TypeOK /\ Shaped /\ commands \in 0 .. MaxCommands /\ changes \in 0 .. MaxChanges
  BY DEF Inv, CommandTypeOK
<1> USE CommandLineAssumption
<1>1. CASE Commands
  <2>1. TypeOK' /\ Shaped'
    BY <1>0, <1>1, CommandsTyped
  <2>2. commands < MaxCommands /\ commands' = commands + 1 /\ UNCHANGED changes
    BY <1>0, <1>1, CommandsBegin, CommandOpens
  <2> QED BY <1>0, <2>1, <2>2 DEF Inv, CommandTypeOK
<1>2. CASE EndCommand \/ Kill
  <2>1. Exit /\ files' \in [Files -> Projects \cup {"Absent", "Broken"}]
    BY <1>0, <1>2 DEF EndCommand, Kill, TypeOK
  <2>2. UNCHANGED <<commands, changes>>
    BY <2>1 DEF Exit
  <2> QED BY <1>0, <2>1, <2>2, ExitTyped DEF Inv, CommandTypeOK
<1>3. CASE ClientStep(Cli) /\ UNCHANGED <<commands, changes>>
  BY <1>0, <1>3, ClientTyped DEF Inv, CommandTypeOK
<1>4. ASSUME NEW f \in Files, Deletes(f) PROVE Inv'
  <2>1. DeleteFile(f) /\ changes < MaxChanges /\ changes' = changes + 1 /\ UNCHANGED commands
    BY <1>4 DEF Deletes, Delete, SomebodyElse
  <2>2. TypeOK' /\ Shaped'
    <3>1. files' \in [Files -> Projects \cup {"Absent", "Broken"}]
      BY <1>0, <2>1 DEF TypeOK, DeleteFile
    <3> QED BY <1>0, <2>1, <3>1 DEF TypeOK, Shaped, Shape, DeleteFile
  <2> QED BY <1>0, <2>1, <2>2 DEF Inv, CommandTypeOK
<1>5. ASSUME NEW f \in Files, NEW x \in Projects, Imports(f, x) PROVE Inv'
  <2>1. ImportFile(f, x) /\ changes < MaxChanges /\ changes' = changes + 1 /\ UNCHANGED commands
    BY <1>5 DEF Imports, Import, SomebodyElse
  <2> QED BY <1>0, <2>1, WorldTyped DEF Inv, CommandTypeOK
<1>6. CASE UNCHANGED statusVars
  BY <1>0, <1>6 DEF statusVars, commandVars, Inv, CommandTypeOK, TypeOK, Shaped, Shape
<1> QED
  BY <1>1, <1>2, <1>3, <1>4, <1>5, <1>6 DEF StatusNext, CommandStep, CommandRuns

\* Type correctness of the registry, the cache and the commands.
THEOREM CommandsAreTyped == StatusSpec => []CommandTypeOK
<1>1. StatusSpec => []Inv
  BY InvInit, InvNext, PTL DEF StatusSpec
<1>2. Inv => CommandTypeOK
  BY DEF Inv
<1> QED BY <1>1, <1>2, PTL

-----------------------------------------------------------------------------
(* Snapshots survive.                                                      *)

\* The file that a backup writes, and the one that a re-backup removes.
TargetOf(w) == FileOf[w.name]
OriginOf(w) == FileOf[w.origin]

\* The original of a re-backup is intact, or it is what the user wants overwritten.
OriginSafe(w) ==
    w.origin # None => IF OriginOf(w) = TargetOf(w) THEN w.of \in risked
                                                    ELSE files[OriginOf(w)] = w.of

\* Before a backup writes, what it will overwrite is at risk; then its target is
\* broken; and once it has succeeded its target is a snapshot of the project.
Safe(w) ==
    /\ (w.pc \in {"looking", "storing", "ready"} /\ ~w.ok) =>
           /\ files[TargetOf(w)] \in Projects => files[TargetOf(w)] \in risked
           /\ w.origin # None => files[OriginOf(w)] = w.of
    /\ w.pc = "executing" => files[TargetOf(w)] = "Broken" /\ ~w.ok /\ OriginSafe(w)
    /\ w.ok => /\ w.pc \in {"looking", "storing", "done"}
               /\ files[TargetOf(w)] = w.of /\ OriginSafe(w)

BackupIsSafe == (work[Cli] # None /\ work[Cli].op = "backup") => Safe(work[Cli])

Survives ==
    \A x \in Projects \ (risked \cup risked') :
        (\E f \in Files : files[f] = x) => (\E f \in Files : files'[f] = x)

\* What a command is about does not change while it runs.
SameCommand(w, v) ==
    v.op = w.op /\ v.name = w.name /\ v.of = w.of /\ v.origin = w.origin

\* What is left to look at is no part of what a backup promises.
LEMMA FieldsTodo ==
  ASSUME NEW w \in Work, NEW v, v = [w EXCEPT !.todo = Tail(@)]
  PROVE  /\ v.op = w.op /\ v.name = w.name /\ v.of = w.of /\ v.origin = w.origin
         /\ v.ok = w.ok /\ v.pc = w.pc
BY DEF Work

\* The steps of a client, as far as a backup is concerned.
LEMMA StepOfBackup ==
  ASSUME TypeOK, Shaped, NEW c \in Clients, ClientStep(c), work[c].op = "backup"
  PROVE  LET w == work[c]
             v == work'[c]
             t == FileOf[w.name] IN
         /\ w # None /\ SameCommand(w, v)
         /\ \/ /\ UNCHANGED files /\ w.pc \in {"looking", "storing"} /\ v.ok = w.ok
               /\ v.pc \in {"looking", "storing"} \/ v.pc = IF w.ok THEN "done" ELSE "ready"
            \/ UNCHANGED files /\ v.pc = "done" /\ ~v.ok
            \/ /\ w.pc = "ready" /\ v.pc = "executing" /\ v.ok = w.ok
               /\ files' = [files EXCEPT ![t] = "Broken"]
            \/ /\ w.pc = "executing" /\ v.pc = "done" /\ ~v.ok
               /\ files' = [files EXCEPT ![t] = w.of]
            \/ /\ w.pc = "executing" /\ v.pc = "looking" /\ v.ok
               /\ files' = [files EXCEPT ![t] = w.of]
<1> DEFINE w == work[c]
           v == work'[c]
           t == FileOf[w.name]
           A == /\ UNCHANGED files /\ w.pc \in {"looking", "storing"} /\ v.ok = w.ok
                /\ v.pc \in {"looking", "storing"} \/ v.pc = IF w.ok THEN "done" ELSE "ready"
           B == UNCHANGED files /\ v.pc = "done" /\ ~v.ok
           C == /\ w.pc = "ready" /\ v.pc = "executing" /\ v.ok = w.ok
                /\ files' = [files EXCEPT ![t] = "Broken"]
           D == /\ w.pc = "executing" /\ v.pc = "done" /\ ~v.ok
                /\ files' = [files EXCEPT ![t] = w.of]
           E == /\ w.pc = "executing" /\ v.pc = "looking" /\ v.ok
                /\ files' = [files EXCEPT ![t] = w.of]
<1> HIDE DEF w, v, t, A, B, C, D, E
<1>1. w # None
  BY DEF w, ClientStep, Scans, Operates, LookupHit, LookupLoads, LookupNothing, Looks, Store,
         LookupEnds, FailEarly, BeginBackup, FailBackup, FinishBackup, BeginChange, FailChange,
         FinishRestore, Credit, FinishClean, Starts, Executes, At
<1>2. w \in Work
  BY <1>1, WorkTyped DEF TypeOK, w
<1>3. \A u : Continue(c, u) => v = u
  BY WorkTyped DEF Continue, TypeOK, v
<1>5. ASSUME LookupHit(c) PROVE SameCommand(w, v) /\ A
  <2>1. v = [w EXCEPT !.todo = Tail(@)] /\ w.pc = "looking" /\ UNCHANGED files
    BY <1>5, <1>3 DEF LookupHit, Looks, At, disk, w
  <2>2. SameCommand(w, v) /\ v.ok = w.ok /\ v.pc = "looking"
    BY <2>1, <1>2, FieldsTodo DEF SameCommand
  <2> QED BY <2>1, <2>2 DEF A
<1>6. ASSUME LookupLoads(c) PROVE SameCommand(w, v) /\ A
  <2>1. PICK e : v = [w EXCEPT !.pc = "storing", !.loaded = e]
    BY <1>6, <1>3 DEF LookupLoads, w
  <2>2. w.pc = "looking" /\ UNCHANGED files
    BY <1>6 DEF LookupLoads, Looks, At, disk, w
  <2>3. SameCommand(w, v) /\ v.ok = w.ok /\ v.pc = "storing"
    BY <2>1, <1>2 DEF Work, SameCommand
  <2> QED BY <2>2, <2>3 DEF A
<1>7. ASSUME LookupNothing(c) PROVE SameCommand(w, v) /\ A
  <2>1. v = [w EXCEPT !.todo = Tail(@)] /\ w.pc = "looking" /\ UNCHANGED files
    BY <1>7, <1>3 DEF LookupNothing, Looks, At, disk, w
  <2>2. SameCommand(w, v) /\ v.ok = w.ok /\ v.pc = "looking"
    BY <2>1, <1>2, FieldsTodo DEF SameCommand
  <2> QED BY <2>1, <2>2 DEF A
<1>8. ASSUME Store(c) PROVE SameCommand(w, v) /\ A
  <2>1. PICK q : v = [w EXCEPT !.pc = "looking", !.loaded = None, !.todo = q]
    BY <1>8, <1>3 DEF Store, w
  <2>2. w.pc = "storing" /\ UNCHANGED files
    BY <1>8 DEF Store, At, w
  <2>3. SameCommand(w, v) /\ v.ok = w.ok /\ v.pc = "looking"
    BY <2>1, <1>2 DEF Work, SameCommand
  <2> QED BY <2>2, <2>3 DEF A
<1>9. ASSUME LookupEnds(c) PROVE SameCommand(w, v) /\ A
  <2>1. PICK pc : v = [w EXCEPT !.pc = pc] /\ pc = IF w.ok THEN "done" ELSE "ready"
    BY <1>9, <1>3 DEF LookupEnds, w
  <2>2. w.pc = "looking" /\ UNCHANGED files
    BY <1>9 DEF LookupEnds, At, disk, w
  <2>3. SameCommand(w, v) /\ v.ok = w.ok /\ v.pc = pc
    BY <2>1, <1>2 DEF Work, SameCommand
  <2> QED BY <2>1, <2>2, <2>3 DEF A
<1>10. ASSUME FailEarly(c) PROVE SameCommand(w, v) /\ B
  <2>1. v = [w EXCEPT !.pc = "done", !.ok = FALSE] /\ UNCHANGED files
    BY <1>10, <1>3 DEF FailEarly, Ends, disk, w
  <2>2. SameCommand(w, v) /\ ~v.ok /\ v.pc = "done"
    BY <2>1, <1>2 DEF Work, SameCommand
  <2> QED BY <2>1, <2>2 DEF B
<1>11. ASSUME BeginBackup(c) PROVE SameCommand(w, v) /\ C
  <2>1. v = [w EXCEPT !.pc = "executing"] /\ w.pc = "ready"
    BY <1>11, <1>3 DEF BeginBackup, Starts, At, w
  <2>2. files' = [files EXCEPT ![t] = "Broken"]
    BY <1>11 DEF BeginBackup, w, t
  <2>3. SameCommand(w, v) /\ v.ok = w.ok /\ v.pc = "executing"
    BY <2>1, <1>2 DEF Work, SameCommand
  <2> QED BY <2>1, <2>2, <2>3 DEF C
<1>12. ASSUME FailBackup(c) PROVE SameCommand(w, v) /\ (B \/ D)
  <2>1. v = [w EXCEPT !.pc = "done", !.ok = FALSE] /\ w.pc = "executing"
    BY <1>12, <1>3 DEF FailBackup, Ends, Executes, At, w
  <2>2. SameCommand(w, v) /\ ~v.ok /\ v.pc = "done"
    BY <2>1, <1>2 DEF Work, SameCommand
  <2>3. files' = [files EXCEPT ![t] = w.of] \/ UNCHANGED files
    BY <1>12 DEF FailBackup, WriteArchive, disk, w, t
  <2> QED BY <2>1, <2>2, <2>3 DEF B, D
<1>13. ASSUME FinishBackup(c) PROVE SameCommand(w, v) /\ E
  <2>1. PICK q, s : v = [w EXCEPT !.pc = "looking", !.ok = TRUE, !.todo = q, !.assumed = s]
    BY <1>13, <1>3 DEF FinishBackup, w
  <2>2. w.pc = "executing" /\ files' = [files EXCEPT ![t] = w.of]
    BY <1>13 DEF FinishBackup, Executes, At, WriteArchive, w, t
  <2>3. SameCommand(w, v) /\ v.ok /\ v.pc = "looking"
    BY <2>1, <1>2 DEF Work, SameCommand
  <2> QED BY <2>2, <2>3 DEF E
<1>14. ~BeginChange(c) /\ ~FailChange(c) /\ ~FinishRestore(c) /\ ~FinishClean(c)
  BY DEF BeginChange, FailChange, FinishRestore, FinishClean, Starts, Executes
<1>15. ~Credit(c)
  BY <1>1 DEF Credit, At, Shaped, Shape, w
<1>16. SameCommand(w, v) /\ (A \/ B \/ C \/ D \/ E)
  BY <1>5, <1>6, <1>7, <1>8, <1>9, <1>10, <1>11, <1>12, <1>13, <1>14, <1>15
     DEF ClientStep, Scans, Operates
<1> QED BY <1>1, <1>16 DEF w, v, t, A, B, C, D, E

\* What is no backup does not become one, and leaves the snapshots alone.
LEMMA OtherSteps ==
  ASSUME TypeOK, Shaped, NEW c \in Clients, ClientStep(c), work[c].op # "backup"
  PROVE  UNCHANGED files /\ work'[c].op # "backup"
<1> DEFINE w == work[c]
           v == work'[c]
<1> HIDE DEF w, v
<1> SUFFICES UNCHANGED files /\ v.op = w.op
  BY DEF w, v
<1>1. w # None
  BY DEF w, ClientStep, Scans, Operates, LookupHit, LookupLoads, LookupNothing, Looks, Store,
         LookupEnds, FailEarly, BeginBackup, FailBackup, FinishBackup, BeginChange, FailChange,
         FinishRestore, Credit, FinishClean, Starts, Executes, At
<1>2. w \in Work
  BY <1>1, WorkTyped DEF TypeOK, w
<1>3. \A u : Continue(c, u) => v = u
  BY WorkTyped DEF Continue, TypeOK, v
<1>4. ~BeginBackup(c) /\ ~FailBackup(c) /\ ~FinishBackup(c)
  BY DEF BeginBackup, FailBackup, FinishBackup, Starts, Executes
<1>5. UNCHANGED files
  BY <1>4 DEF ClientStep, Scans, Operates, LookupHit, LookupLoads, LookupNothing, Store,
         LookupEnds, FailEarly, BeginChange, FailChange, FinishRestore, Credit, FinishClean, disk
<1>6. ASSUME LookupHit(c) \/ LookupNothing(c) PROVE v.op = w.op
  <2>1. v = [w EXCEPT !.todo = Tail(@)]
    BY <1>6, <1>3 DEF LookupHit, LookupNothing, w
  <2> QED BY <2>1, <1>2, FieldsTodo
<1>7. ASSUME LookupLoads(c) PROVE v.op = w.op
  <2>1. PICK e : v = [w EXCEPT !.pc = "storing", !.loaded = e]
    BY <1>7, <1>3 DEF LookupLoads, w
  <2> QED BY <2>1, <1>2 DEF Work
<1>8. ASSUME Store(c) PROVE v.op = w.op
  <2>1. PICK q : v = [w EXCEPT !.pc = "looking", !.loaded = None, !.todo = q]
    BY <1>8, <1>3 DEF Store, w
  <2> QED BY <2>1, <1>2 DEF Work
<1>9. ASSUME LookupEnds(c) \/ BeginChange(c) \/ FinishRestore(c) PROVE v.op = w.op
  <2>1. PICK pc : v = [w EXCEPT !.pc = pc]
    BY <1>9, <1>3 DEF LookupEnds, BeginChange, FinishRestore, w
  <2> QED BY <2>1, <1>2 DEF Work
<1>10. ASSUME FailEarly(c) \/ FailChange(c) \/ Credit(c) \/ FinishClean(c) PROVE v.op = w.op
  <2>1. PICK ok : v = [w EXCEPT !.pc = "done", !.ok = ok]
    BY <1>10, <1>3 DEF FailEarly, FailChange, Credit, FinishClean, Ends, w
  <2> QED BY <2>1, <1>2 DEF Work
<1> QED BY <1>4, <1>5, <1>6, <1>7, <1>8, <1>9, <1>10 DEF ClientStep, Scans, Operates

\* A backup begins with what it will overwrite at risk.
LEMMA BackupStartsSafe ==
  ASSUME TypeOK, Commands, TracksWish
  PROVE  BackupIsSafe' /\ UNCHANGED files
<1> USE CommandLineAssumption
<1>1. PICK op \in Operations, n \in Names \cup {None}, x \in Projects \cup {None},
           origin \in Names \cup {None} :
            /\ Command(op, n, x, origin)
            /\ op # "scan" => x \in Projects
            /\ op \in {"backup", "restore"} => n \in Names
            /\ op = "backup" /\ origin # None => x = Content(origin)
  BY CommandsBegin
<1>2. PICK v : v = work'[Cli]
  OBVIOUS
<1>3. work[Cli] = None /\ UNCHANGED files /\ v = Opening(op, n, x, origin)
  BY <1>1, <1>2, CommandOpens DEF Continue, TypeOK, disk
<1>4. /\ v.pc = "looking" /\ v.op = op /\ v.name = n /\ v.of = x /\ v.origin = origin
      /\ v.ok = (op = "scan")
  BY <1>1, <1>3, OpeningTyped
<1>5. ASSUME v # None, op = "backup" PROVE Safe(v)'
  <2>1. risked' = {files[FileOf[n]]} \cap Projects
    BY <1>2, <1>3, <1>4, <1>5 DEF TracksWish
  <2> QED BY <1>1, <1>3, <1>4, <1>5, <2>1 DEF Safe, TargetOf, OriginOf, Content
<1> QED BY <1>2, <1>3, <1>4, <1>5 DEF BackupIsSafe, Safe, OriginSafe, TargetOf, OriginOf

\* Every step of a backup keeps it safe, and overwrites what is at risk or broken.
LEMMA BackupStaysSafe ==
  ASSUME TypeOK, Shaped, BackupIsSafe, ClientStep(Cli), TracksWish
  PROVE  BackupIsSafe' /\ Survives
<1> DEFINE w == work[Cli]
           t == TargetOf(w)
<1>0. PICK v : v = work'[Cli]
  OBVIOUS
<1> USE CommandLineAssumption
<1>1. CASE w.op # "backup"
  BY <1>1, <1>0, OtherSteps DEF BackupIsSafe, Survives
<1>2. CASE w.op = "backup"
  <2>1. w # None /\ SameCommand(w, v)
    BY <1>0, <1>2, StepOfBackup
  <2>2. Safe(w)
    BY <1>2, <2>1 DEF BackupIsSafe
  <2>3. t \in Files /\ w.of \in Projects /\ t = FileOf[w.name]
    BY <1>2, <2>1, RegistryAssumption DEF Shaped, Shape, TargetOf
  <2>4. v # None => risked' = risked
    BY <1>0, <2>1 DEF TracksWish
  <2>5. \A f \in Files : files[f] \in Projects => files[f] # "Broken" /\ files[f] # "Absent"
    BY RegistryAssumption
  <2>6. OriginOf(v) = OriginOf(w) /\ TargetOf(v) = t
    BY <2>1 DEF OriginOf, TargetOf, SameCommand
  <2>7. files \in [Files -> Projects \cup {"Absent", "Broken"}]
    BY DEF TypeOK
  <2>8. w.origin # None => OriginOf(w) \in Files
    <3>1. w.origin \in Names \cup {None}
      BY <2>1, WorkTyped
    <3> QED BY <3>1, RegistryAssumption DEF OriginOf
  <2> DEFINE A == /\ UNCHANGED files /\ w.pc \in {"looking", "storing"} /\ v.ok = w.ok
                  /\ v.pc \in {"looking", "storing"} \/ v.pc = IF w.ok THEN "done" ELSE "ready"
             B == UNCHANGED files /\ v.pc = "done" /\ ~v.ok
             C == /\ w.pc = "ready" /\ v.pc = "executing" /\ v.ok = w.ok
                  /\ files' = [files EXCEPT ![t] = "Broken"]
             D == /\ w.pc = "executing" /\ v.pc = "done" /\ ~v.ok
                  /\ files' = [files EXCEPT ![t] = w.of]
             E == /\ w.pc = "executing" /\ v.pc = "looking" /\ v.ok
                  /\ files' = [files EXCEPT ![t] = w.of]
  <2>9. A \/ B \/ C \/ D \/ E
    BY <1>0, <1>2, <2>3, StepOfBackup
  <2> HIDE DEF w, t
  <2>10. ASSUME A PROVE (v # None => Safe(v)') /\ Survives
    BY <2>1, <2>2, <2>4, <2>6, <2>10 DEF Safe, OriginSafe, SameCommand, Survives, TargetOf, OriginOf
  <2>11. ASSUME B PROVE (v # None => Safe(v)') /\ Survives
    BY <2>11 DEF Safe, Survives
  <2>12. ASSUME C PROVE (v # None => Safe(v)') /\ Survives
    <3>1. ~w.ok /\ (files[t] \in Projects => files[t] \in risked)
      BY <2>2, <2>12 DEF Safe, t
    <3>2. Survives
      BY <2>3, <2>7, <2>12, <3>1 DEF Survives
    <3>3. files'[t] = "Broken"
      BY <2>3, <2>7, <2>12
    <3>4. w.origin # None =>
            IF OriginOf(w) = t THEN w.of \in risked ELSE files'[OriginOf(w)] = w.of
      BY <2>2, <2>3, <2>7, <2>8, <2>12, <3>1 DEF Safe
    <3>5. v # None => Safe(v)'
      BY <2>1, <2>4, <2>12, <3>1, <3>3, <3>4, <2>6 DEF Safe, OriginSafe, SameCommand, TargetOf, OriginOf
    <3> QED BY <3>2, <3>5
  <2>13. ASSUME D PROVE (v # None => Safe(v)') /\ Survives
    <3>1. files[t] = "Broken"
      BY <2>2, <2>13 DEF Safe, t
    <3> QED BY <2>3, <2>5, <2>7, <2>13, <3>1 DEF Safe, Survives
  <2>14. ASSUME E PROVE (v # None => Safe(v)') /\ Survives
    <3>1. files[t] = "Broken" /\ OriginSafe(w)
      BY <2>2, <2>14 DEF Safe, t
    <3>2. Survives
      BY <2>3, <2>5, <2>7, <2>14, <3>1 DEF Survives
    <3>3. files'[t] = w.of
      BY <2>3, <2>7, <2>14
    <3>4. w.origin # None =>
            IF OriginOf(w) = t THEN w.of \in risked ELSE files'[OriginOf(w)] = w.of
      BY <2>3, <2>7, <2>8, <2>14, <3>1 DEF OriginSafe, t
    <3>5. v # None => Safe(v)'
      BY <2>1, <2>4, <2>14, <3>3, <3>4, <2>6 DEF Safe, OriginSafe, SameCommand, TargetOf, OriginOf
    <3> QED BY <3>2, <3>5
  <2>15. (v # None => Safe(v)') /\ Survives
    BY <2>9, <2>10, <2>11, <2>12, <2>13, <2>14
  <2> QED BY <1>0, <2>15 DEF BackupIsSafe, Safe, OriginSafe, TargetOf, OriginOf
<1> QED BY <1>1, <1>2

\* The end of a command removes at most the original, and not before its project
\* has the snapshot of the re-backup.
LEMMA EndSurvives ==
  ASSUME TypeOK, Shaped, BackupIsSafe, EndCommand \/ Kill
  PROVE  BackupIsSafe' /\ Survives
<1> USE CommandLineAssumption
<1>1. work'[Cli] = None
  BY DEF EndCommand, Kill, Exit, TypeOK
<1>2. BackupIsSafe'
  BY <1>1 DEF BackupIsSafe
<1>3. CASE UNCHANGED files
  BY <1>2, <1>3 DEF Survives
<1> DEFINE w == work[Cli]
           o == OriginOf(w)
           t == TargetOf(w)
<1>4. CASE /\ At(Cli, "done") /\ Removes(w)
           /\ files' = [files EXCEPT ![o] = "Absent"]
  <2>1. w # None /\ w.op = "backup" /\ w.ok /\ w.origin # None
    BY <1>4 DEF At, Removes
  <2>2. files[t] = w.of /\ OriginSafe(w)
    BY <2>1 DEF BackupIsSafe, Safe
  <2>3. t \in Files /\ o \in Files
    <3>1. w.name \in Names
      BY <2>1 DEF Shaped, Shape
    <3>2. w.origin \in Names
      BY <2>1, WorkTyped
    <3> QED BY <3>1, <3>2, RegistryAssumption DEF TargetOf, OriginOf
  <2>4. IF o = t THEN w.of \in risked ELSE files[o] = w.of
    BY <2>1, <2>2 DEF OriginSafe
  <2>5. files \in [Files -> Projects \cup {"Absent", "Broken"}]
    BY DEF TypeOK
  <2> HIDE DEF w, o, t
  <2>6. Survives
    BY <1>4, <2>2, <2>3, <2>4, <2>5 DEF Survives
  <2> QED BY <1>2, <2>6
<1> QED BY <1>3, <1>4 DEF EndCommand, Kill, OriginOf

\* What somebody else deletes or replaces is meant to go.
LEMMA WorldSurvives ==
  ASSUME TypeOK, work[Cli] = None, UNCHANGED work, NEW f \in Files, NEW content, Lost(f),
         files' = [files EXCEPT ![f] = content]
  PROVE  BackupIsSafe' /\ Survives
BY DEF TypeOK, Lost, BackupIsSafe, Survives

LEMMA SafeNext ==
  ASSUME Inv, BackupIsSafe, [StatusNext]_statusVars
  PROVE  BackupIsSafe' /\ Survives
<1>0. TypeOK /\ Shaped
  BY DEF Inv, CommandTypeOK
<1>1. ASSUME CommandStep, Observed PROVE BackupIsSafe' /\ Survives
  <2>1. CASE Commands
    BY <1>0, <1>1, <2>1, BackupStartsSafe DEF Observed, Survives
  <2>2. CASE ClientStep(Cli)
    BY <1>0, <1>1, <2>2, BackupStaysSafe DEF Observed
  <2>3. CASE EndCommand \/ Kill
    BY <1>0, <2>3, EndSurvives
  <2> QED BY <1>1, <2>1, <2>2, <2>3 DEF CommandStep, CommandRuns
<1>2. ASSUME work[Cli] = None, NEW f \in Files, Deletes(f) PROVE BackupIsSafe' /\ Survives
  BY <1>0, <1>2, WorldSurvives DEF Deletes, Delete, DeleteFile
<1>3. ASSUME work[Cli] = None, NEW f \in Files, NEW x \in Projects, Imports(f, x)
      PROVE  BackupIsSafe' /\ Survives
  BY <1>0, <1>3, WorldSurvives DEF Imports, Import, ImportFile
<1>4. CASE UNCHANGED statusVars
  BY <1>4 DEF statusVars, commandVars, BackupIsSafe, Safe, OriginSafe, TargetOf, OriginOf, Survives
<1> QED BY <1>1, <1>2, <1>3, <1>4 DEF StatusNext

\* Whatever fails, and whenever a command is killed: the last snapshot of a project
\* goes only by a wish of the user.
THEOREM TheLastSnapshotSurvives == StatusSpec => SnapshotsSurvive
<1>1. StatusInit => Inv /\ BackupIsSafe
  BY InvInit, CommandLineAssumption DEF StatusInit, CommandInit, Init, BackupIsSafe
<1>2. Inv /\ BackupIsSafe /\ [StatusNext]_statusVars => (Inv /\ BackupIsSafe)'
  BY InvNext, SafeNext
<1>3. Inv /\ BackupIsSafe /\ [StatusNext]_statusVars =>
        [\A x \in Projects \ (risked \cup risked') :
            (\E f \in Files : files[f] = x) => (\E f \in Files : files'[f] = x)]_statusVars
  BY SafeNext DEF Survives
<1> QED BY <1>1, <1>2, <1>3, PTL DEF StatusSpec, SnapshotsSurvive

-----------------------------------------------------------------------------
(* A scan changes no status.  What makes it so is that a scan writes back  *)
(* the status it has read, and that nothing of the command comes between.  *)
(* That a restore marks a snapshot of its own project needs more: that a   *)
(* row which counts as fresh describes the archive under its name, and     *)
(* that the list a command has scanned describes the archives it has met.  *)

\* A row that would be believed describes what is in the archive.
FreshTells ==
    \A n \in Names : (rows[n] # None /\ rows[n].fresh /\ Content(n) # "Absent")
                        => rows[n].of = Content(n)

Describes(n) == rows[n] # None /\ rows[n].of = Content(n)

\* What has been loaded is still what the archive holds, and has the status of its row.
LoadedTells(e) ==
    /\ e.of = Content(e.name)
    /\ rows[e.name] # None => rows[e.name].status = e.status

\* The snapshot that is restored is one of the project, and every snapshot in the
\* list of the command has a row that describes it.
RestoreTells(w) ==
    /\ Content(w.name) = w.of
    /\ \A n \in Names : Positions(lists[CliRegistry], n) # {} => Describes(n)

Knows(w) ==
    /\ w.reg = CliRegistry
    /\ w.loaded # None => LoadedTells(w.loaded)
    /\ w.op = "restore" => RestoreTells(w)

Known == FreshTells /\ (work[Cli] # None => Knows(work[Cli]))

\* What ScansKeepStatus says of a step.
Kept ==
    \A n \in Names :
        (rows[n] # None /\ rows'[n] # rows[n] /\ rows'[n].status # rows[n].status) =>
            \E x \in {rows[n].of} \cup Mentions[rows[n].of] : Notifying(x)

-----------------------------------------------------------------------------
(* The archives and their rows.                                            *)

LEMMA Continues ==
  ASSUME TypeOK, NEW v, Continue(Cli, v)
  PROVE  work'[Cli] = v
BY CommandLineAssumption DEF TypeOK, Continue

\* The invariant of the next state, from what is known of the command there.
LEMMA KnownNext ==
  ASSUME NEW v, v = work'[Cli], v # None => Knows(v)', FreshTells'
  PROVE  Known'
BY DEF Known, Knows, LoadedTells, RestoreTells

\* What is written is no longer described by a fresh row.
LEMMA OutdateTells ==
  ASSUME TypeOK, FreshTells, NEW f \in Files, NEW content,
         files' = [files EXCEPT ![f] = content], Outdate(f)
  PROVE  FreshTells' /\ Kept
<1>1. \A n \in Names : rows'[n] = IF rows[n] # None /\ FileOf[n] = f
                                  THEN [rows[n] EXCEPT !.fresh = FALSE] ELSE rows[n]
  BY DEF Outdate
<1>2. \A n \in Names : rows[n] # None => rows[n] \in Row
  BY DEF TypeOK
<1>3. \A row \in Row : /\ ~[row EXCEPT !.fresh = FALSE].fresh
                       /\ [row EXCEPT !.fresh = FALSE].status = row.status
  BY DEF Row
<1>4. \A n \in Names : FileOf[n] # f => Content(n)' = Content(n)
  BY RegistryAssumption DEF TypeOK, Content
<1>5. Kept
  BY <1>1, <1>2, <1>3 DEF Kept
<1>6. ASSUME NEW n \in Names, rows'[n] # None, rows'[n].fresh, Content(n)' # "Absent"
      PROVE  rows'[n].of = Content(n)'
  <2>1. FileOf[n] # f \/ rows[n] = None
    BY <1>1, <1>2, <1>3, <1>6
  <2>2. rows'[n] = rows[n] /\ rows[n] # None /\ FileOf[n] # f
    BY <1>1, <1>6, <2>1
  <2> QED BY <1>4, <1>6, <2>2 DEF FreshTells
<1> QED BY <1>5, <1>6 DEF FreshTells

\* A file that goes takes nothing away from what the rows of others say.
LEMMA AbsentTells ==
  ASSUME TypeOK, FreshTells, NEW f \in Files, files' = [files EXCEPT ![f] = "Absent"],
         UNCHANGED rows
  PROVE  FreshTells' /\ Kept
BY RegistryAssumption DEF TypeOK, FreshTells, Content, Kept

-----------------------------------------------------------------------------
(* The steps of a scan.                                                    *)

\* A list with one more entry has one more name at most.
LEMMA AdmitAdds ==
  ASSUME TypeOK, NEW e \in Entry, work[Cli] # None, work[Cli].reg = CliRegistry, Admit(Cli, e)
  PROVE  \A n \in Names : Positions(lists'[CliRegistry], n) # {} =>
            n = e.name \/ Positions(lists[CliRegistry], n) # {}
<1> DEFINE list == lists[CliRegistry]
<1>1. list \in Seq(Entry) /\ lists'[CliRegistry] = Append(list, e)
  BY CommandLineAssumption DEF TypeOK, Admit
<1>2. ASSUME NEW n \in Names, NEW i \in DOMAIN Append(list, e), Append(list, e)[i].name = n
      PROVE  n = e.name \/ \E j \in DOMAIN list : list[j].name = n
  BY <1>1, <1>2
<1> QED BY <1>1, <1>2 DEF Positions

LEMMA HitKeeps ==
  ASSUME TypeOK, Shaped, Known, LookupHit(Cli)
  PROVE  Known' /\ Kept
<1> DEFINE w == work[Cli]
           n == Head(w.todo)
           e == [name |-> n, of |-> rows[n].of, status |-> rows[n].status]
<1> USE CommandLineAssumption
<1>1. PICK v : v = [w EXCEPT !.todo = Tail(@)]
  OBVIOUS
<1>2. w # None /\ w.pc = "looking" /\ w.todo # <<>> /\ Fresh(n)
  BY DEF LookupHit, Looks, At
<1>3. w \in Work /\ n \in Names /\ Knows(w)
  BY <1>2, WorkTyped DEF Known
<1>4. rows[n] \in Row /\ Describes(n)
  BY <1>2, <1>3 DEF Fresh, TypeOK, Known, FreshTells, Describes
<1>5. e \in Entry /\ e.name = n
  BY <1>3, <1>4 DEF Row, Entry
<1>6. Continue(Cli, v) /\ Admit(Cli, e) /\ UNCHANGED <<files, rows>>
  BY <1>1 DEF LookupHit, disk
<1>7. v.reg = w.reg /\ v.loaded = w.loaded /\ v.op = w.op /\ v.name = w.name /\ v.of = w.of
  BY <1>1, <1>3 DEF Work
<1>8. \A m \in Names : Positions(lists'[CliRegistry], m) # {} =>
          m = n \/ Positions(lists[CliRegistry], m) # {}
  BY <1>2, <1>3, <1>5, <1>6, AdmitAdds DEF Knows
<1> HIDE DEF w, n, e
<1>9. Knows(v)'
  BY <1>3, <1>4, <1>6, <1>7, <1>8 DEF Knows, LoadedTells, RestoreTells, Describes, Content
<1>10. FreshTells' /\ Kept
  BY <1>6 DEF Known, FreshTells, Content, Kept
<1> QED BY <1>6, <1>9, <1>10, Continues, KnownNext

LEMMA LoadsKeeps ==
  ASSUME TypeOK, Shaped, Known, LookupLoads(Cli)
  PROVE  Known' /\ Kept
<1> DEFINE w == work[Cli]
           n == Head(w.todo)
<1> USE CommandLineAssumption
<1>1. PICK e : e = [name |-> n, of |-> Content(n), status |-> StatusFor(n, w.assumed)]
  OBVIOUS
<1>2. PICK v : v = [w EXCEPT !.pc = "storing", !.loaded = e]
  OBVIOUS
<1>3. w # None /\ UNCHANGED <<files, rows, lists>> /\ Continue(Cli, v)
  BY <1>1, <1>2 DEF LookupLoads, Looks, At, disk
<1>4. w \in Work /\ Knows(w)
  BY <1>3, WorkTyped DEF Known
<1>5. v.reg = w.reg /\ v.loaded = e /\ v.op = w.op /\ v.name = w.name /\ v.of = w.of
  BY <1>2, <1>4 DEF Work
<1>6. LoadedTells(e)
  BY <1>1 DEF LoadedTells, StatusFor
<1> HIDE DEF w, n
<1>7. Knows(v)'
  BY <1>3, <1>4, <1>5, <1>6 DEF Knows, LoadedTells, RestoreTells, Describes, Content
<1>8. FreshTells' /\ Kept
  BY <1>3 DEF Known, FreshTells, Content, Kept
<1> QED BY <1>3, <1>7, <1>8, Continues, KnownNext

\* What is stored has the status the row had, and describes the archive.
LEMMA StoreKeeps ==
  ASSUME TypeOK, Shaped, Known, Store(Cli)
  PROVE  Known' /\ Kept
<1> DEFINE w == work[Cli]
           row == [of |-> w.loaded.of, fresh |-> Content(w.loaded.name) = w.loaded.of,
                   status |-> w.loaded.status]
<1> USE CommandLineAssumption
<1>1. PICK e : e = w.loaded
  OBVIOUS
<1>2. PICK v : v = [w EXCEPT !.pc = "looking", !.loaded = None, !.todo = Tail(@)]
  OBVIOUS
<1>3. /\ w # None /\ w.pc = "storing" /\ e # None /\ UNCHANGED files
      /\ Continue(Cli, v) /\ Admit(Cli, e) /\ rows' = [rows EXCEPT ![e.name] = row]
  BY <1>1, <1>2 DEF Store, At, TypeOK
<1>4. w \in Work /\ e \in Entry /\ Knows(w)
  BY <1>1, <1>3, WorkTyped DEF Known
<1>5. e.name \in Names /\ LoadedTells(e)
  BY <1>1, <1>3, <1>4 DEF Knows, Entry
<1>6. v.reg = w.reg /\ v.loaded = None /\ v.op = w.op /\ v.name = w.name /\ v.of = w.of
  BY <1>2, <1>4 DEF Work
<1>7. row.of = e.of /\ row.status = e.status /\ row \in Row
  BY <1>1, <1>4 DEF Entry, Row
<1>8. row # None
  BY <1>7, NoneAssumption
<1>9. \A m \in Names : rows'[m] = IF m = e.name THEN row ELSE rows[m]
  BY <1>3, <1>5 DEF TypeOK
<1>10. \A m \in Names : Positions(lists'[CliRegistry], m) # {} =>
          m = e.name \/ Positions(lists[CliRegistry], m) # {}
  BY <1>3, <1>4, AdmitAdds DEF Knows
<1> HIDE DEF w, row
<1>11. Kept
  BY <1>5, <1>7, <1>9 DEF Kept, LoadedTells
<1>12. FreshTells'
  BY <1>3, <1>5, <1>7, <1>9 DEF Known, FreshTells, Content, LoadedTells
<1>13. Knows(v)'
  BY <1>3, <1>4, <1>5, <1>6, <1>7, <1>8, <1>9, <1>10
     DEF Knows, LoadedTells, RestoreTells, Describes, Content
<1> QED BY <1>3, <1>11, <1>12, <1>13, Continues, KnownNext

-----------------------------------------------------------------------------
(* The other steps.                                                        *)

\* The steps that tell nobody anything change only where the command is.
Resembles(v, w) ==
    v.reg = w.reg /\ v.loaded = w.loaded /\ v.op = w.op /\ v.name = w.name /\ v.of = w.of

LEMMA FieldsPlace ==
  ASSUME NEW w \in Work, NEW v, NEW x, NEW y,
         v = [w EXCEPT !.todo = x] \/ v = [w EXCEPT !.pc = x] \/ v = [w EXCEPT !.pc = x, !.ok = y]
  PROVE  Resembles(v, w)
BY DEF Work, Resembles

LEMMA PassingKeeps ==
  ASSUME TypeOK, Shaped, Known,
         \/ LookupNothing(Cli) \/ LookupEnds(Cli) \/ FailEarly(Cli)
         \/ BeginChange(Cli) \/ FailChange(Cli)
  PROVE  Known' /\ Kept
<1> DEFINE w == work[Cli]
<1> USE CommandLineAssumption
<1>1. w # None /\ UNCHANGED <<files, rows, lists>>
  BY DEF LookupNothing, Looks, LookupEnds, FailEarly, BeginChange, FailChange, Starts,
         Executes, At, disk
<1>2. w \in Work /\ Knows(w)
  BY <1>1, WorkTyped DEF Known
<1>3. \E u : Continue(Cli, u) /\ Resembles(u, w)
  <2>1. CASE LookupNothing(Cli)
    BY <1>2, <2>1, FieldsPlace DEF LookupNothing
  <2>2. CASE LookupEnds(Cli)
    BY <1>2, <2>2, FieldsPlace DEF LookupEnds
  <2>3. CASE FailEarly(Cli) \/ FailChange(Cli)
    BY <1>2, <2>3, FieldsPlace DEF FailEarly, FailChange, Ends
  <2>4. CASE BeginChange(Cli)
    BY <1>2, <2>4, FieldsPlace DEF BeginChange
  <2> QED BY <2>1, <2>2, <2>3, <2>4
<1>4. PICK v : Continue(Cli, v) /\ Resembles(v, w)
  BY <1>3
<1> HIDE DEF w
<1>5. Knows(v)'
  BY <1>1, <1>2, <1>4 DEF Knows, LoadedTells, RestoreTells, Describes, Content, Resembles
<1>6. FreshTells' /\ Kept
  BY <1>1 DEF Known, FreshTells, Content, Kept
<1> QED BY <1>4, <1>5, <1>6, Continues, KnownNext

\* A backup writes an archive and outdates its rows; it has no list to rely on.
LEMMA BackupKeeps ==
  ASSUME TypeOK, Shaped, Known, BeginBackup(Cli) \/ FailBackup(Cli) \/ FinishBackup(Cli)
  PROVE  Known' /\ Kept
<1> DEFINE w == work[Cli]
<1> USE CommandLineAssumption
<1>1. w # None /\ w.op = "backup" /\ w.pc # "storing" /\ UNCHANGED lists
  BY DEF BeginBackup, FailBackup, FinishBackup, Starts, Executes, At
<1>2. w \in Work /\ w.loaded = None /\ Knows(w) /\ FileOf[w.name] \in Files
  BY <1>1, WorkTyped, RegistryAssumption DEF Known, TypeOK, Shaped, Shape
<1>3. FreshTells' /\ Kept
  <2>1. CASE UNCHANGED disk
    BY <2>1 DEF disk, Known, FreshTells, Content, Kept
  <2>2. ASSUME NEW content, files' = [files EXCEPT ![FileOf[w.name]] = content],
               Outdate(FileOf[w.name])
        PROVE  FreshTells' /\ Kept
    BY <1>2, <2>2, OutdateTells DEF Known
  <2> QED BY <2>1, <2>2 DEF BeginBackup, FailBackup, FinishBackup, WriteArchive
<1>4. PICK v : Continue(Cli, v) /\
                 \/ v = [w EXCEPT !.pc = "executing"]
                 \/ v = [w EXCEPT !.pc = "done", !.ok = FALSE]
                 \/ \E q, s : v = [w EXCEPT !.pc = "looking", !.ok = TRUE, !.todo = q, !.assumed = s]
  <2>1. CASE BeginBackup(Cli)
    BY <2>1 DEF BeginBackup
  <2>2. CASE FailBackup(Cli)
    BY <2>2 DEF FailBackup, Ends
  <2>3. CASE FinishBackup(Cli)
    BY <2>3 DEF FinishBackup
  <2> QED BY <2>1, <2>2, <2>3
<1> HIDE DEF w
<1>5. v.reg = w.reg /\ v.loaded = None /\ v.op = "backup"
  BY <1>1, <1>2, <1>4 DEF Work
<1>6. Knows(v)'
  BY <1>2, <1>5 DEF Knows
<1> QED BY <1>3, <1>4, <1>6, Continues, KnownNext

\* A notification changes only the status, and only of what its project is mentioned in.
LEMMA UnmarkKeeps ==
  ASSUME TypeOK, Shaped, Known, FinishRestore(Cli) \/ FinishClean(Cli)
  PROVE  Known' /\ Kept
<1> DEFINE w == work[Cli]
           x == w.of
           list == lists[CliRegistry]
<1> USE CommandLineAssumption
<1>1. w # None /\ w.pc = "executing" /\ UNCHANGED files /\ UnmarkAll(Cli)
  BY DEF FinishRestore, FinishClean, Executes, At
<1>2. w \in Work /\ w.loaded = None /\ Knows(w) /\ w.reg = CliRegistry /\ list \in Seq(Entry)
  BY <1>1, WorkTyped DEF Known, Knows, TypeOK
<1>3. \E u : Continue(Cli, u) /\ Resembles(u, w)
  <2>1. CASE FinishRestore(Cli)
    BY <1>2, <2>1, FieldsPlace DEF FinishRestore
  <2>2. CASE FinishClean(Cli)
    BY <1>2, <2>2, FieldsPlace DEF FinishClean, Ends
  <2> QED BY <2>1, <2>2
<1>4. PICK v : Continue(Cli, v) /\ Resembles(v, w)
  BY <1>3
<1>5. \A n \in Names : rows[n] \in Row \cup {None}
  BY DEF TypeOK
<1>6. \A row \in Row : LET r == [row EXCEPT !.status = "NotInstalled"] IN
                         r \in Row /\ r.of = row.of /\ r.fresh = row.fresh
  BY DEF Row, Statuses
<1>7. \A n \in Names : rows'[n] = IF rows[n] # None /\ x \in Mentions[rows[n].of]
                                  THEN [rows[n] EXCEPT !.status = "NotInstalled"] ELSE rows[n]
  BY <1>1 DEF UnmarkAll, MarkAllNotInstalled
<1>8. \A n \in Names : /\ rows'[n] = None <=> rows[n] = None
                       /\ rows[n] # None => rows'[n].of = rows[n].of /\ rows'[n].fresh = rows[n].fresh
  <2>1. \A n \in Names : rows[n] # None => rows[n] \in Row
    BY <1>5
  <2>2. \A row \in Row : row # None
    BY NoneAssumption
  <2> QED BY <1>6, <1>7, <2>1, <2>2
<1>9. lists'[CliRegistry] = Unmarked(list, x)
  BY <1>1, <1>2 DEF UnmarkAll, TypeOK
<1>10. \A n \in Names : Positions(lists'[CliRegistry], n) = Positions(list, n)
  <2>1. \A i \in DOMAIN list : list[i] \in Entry
    BY <1>2
  <2>2. \A e \in Entry : [e EXCEPT !.status = "NotInstalled"].name = e.name
    BY DEF Entry
  <2>3. /\ DOMAIN Unmarked(list, x) = DOMAIN list
        /\ \A i \in DOMAIN list : Unmarked(list, x)[i].name = list[i].name
    BY <2>1, <2>2 DEF Unmarked
  <2> QED BY <1>9, <2>3 DEF Positions
<1>11. w.of \in Projects
  BY <1>1 DEF Shaped, Shape, FinishRestore, FinishClean, Executes
<1>12. Kept
  BY <1>1, <1>7, <1>11 DEF Kept, Notifying
<1> HIDE DEF w, x
<1>13. FreshTells'
  BY <1>1, <1>8 DEF Known, FreshTells, Content
<1>14. Knows(v)'
  BY <1>1, <1>2, <1>4, <1>8, <1>10 DEF Knows, RestoreTells, Describes, Content, Resembles
<1>15. v = work'[Cli]
  BY <1>4, Continues
<1> QED BY <1>12, <1>13, <1>14, <1>15, KnownNext

\* The snapshot that is marked is one of the project that is restored.
LEMMA CreditKeeps ==
  ASSUME TypeOK, Shaped, Known, Credit(Cli)
  PROVE  Known' /\ Kept
<1> DEFINE w == work[Cli]
           list == lists[CliRegistry]
<1> USE CommandLineAssumption
<1>1. w # None /\ w.pc = "crediting" /\ UNCHANGED files /\ Ends(Cli, TRUE)
  BY DEF Credit, At
<1>2. w \in Work /\ w.loaded = None /\ w.reg = CliRegistry /\ list \in Seq(Entry)
  BY <1>1, WorkTyped DEF Known, Knows, TypeOK
<1>3. w.name \in Names /\ RestoreTells(w)
  BY <1>1 DEF Known, Knows, Shaped, Shape
<1>4. PICK v : Continue(Cli, v) /\ v = [w EXCEPT !.pc = "done", !.ok = TRUE]
  BY <1>1 DEF Ends
<1>5. v.reg = w.reg /\ v.loaded = None /\ v.op = w.op /\ v.name = w.name /\ v.of = w.of
  BY <1>2, <1>4 DEF Work
<1>6. rows' = IF Positions(list, w.name) # {} /\ rows[w.name] # None
              THEN [rows EXCEPT ![w.name].status = "Installed"] ELSE rows
  BY <1>2 DEF Credit
<1>7. \A row \in Row : LET r == [row EXCEPT !.status = "Installed"] IN
                         r \in Row /\ r.of = row.of /\ r.fresh = row.fresh
  BY DEF Row, Statuses
<1>8. \A n \in Names : rows'[n] = IF n = w.name /\ Positions(list, w.name) # {} /\ rows[n] # None
                                  THEN [rows[n] EXCEPT !.status = "Installed"] ELSE rows[n]
  BY <1>3, <1>6 DEF TypeOK
<1>9. \A n \in Names : rows[n] \in Row \cup {None}
  BY DEF TypeOK
<1>10. \A n \in Names : /\ rows'[n] = None <=> rows[n] = None
                        /\ rows[n] # None => rows'[n].of = rows[n].of /\ rows'[n].fresh = rows[n].fresh
  <2>1. \A n \in Names : rows[n] # None => rows[n] \in Row
    BY <1>9
  <2>2. \A row \in Row : row # None
    BY NoneAssumption
  <2> QED BY <1>7, <1>8, <2>1, <2>2
<1>11. lists'[CliRegistry] = Marked(list, w.name)
  BY <1>2 DEF Credit, TypeOK
<1>12. \A n \in Names : Positions(lists'[CliRegistry], n) = Positions(list, n)
  <2>1. CASE Positions(list, w.name) = {}
    BY <1>11, <2>1 DEF Marked
  <2>2. CASE Positions(list, w.name) # {}
    <3> DEFINE i == FirstFor(list, w.name)
    <3>1. i \in DOMAIN list /\ list[i] \in Entry
      BY <1>2, <2>2, FirstIsThere
    <3>2. [list[i] EXCEPT !.status = "Installed"].name = list[i].name
      BY <3>1 DEF Entry
    <3>3. Marked(list, w.name) = [list EXCEPT ![i] = [list[i] EXCEPT !.status = "Installed"]]
      BY <2>2 DEF Marked
    <3> HIDE DEF i
    <3>4. /\ DOMAIN Marked(list, w.name) = DOMAIN list
          /\ \A j \in DOMAIN list : Marked(list, w.name)[j].name = list[j].name
      BY <3>1, <3>2, <3>3
    <3> QED BY <1>11, <3>4 DEF Positions
  <2> QED BY <2>1, <2>2
<1>13. Kept
  <2>1. \A n \in Names : rows'[n] # rows[n] => n = w.name /\ rows[n].of = w.of
    BY <1>3, <1>8 DEF RestoreTells, Describes
  <2>2. Notifying(w.of)
    BY <1>1 DEF Notifying
  <2> QED BY <2>1, <2>2 DEF Kept
<1>14. Knows(w)
  BY <1>1 DEF Known
<1> HIDE DEF w
<1>15. FreshTells'
  BY <1>1, <1>10 DEF Known, FreshTells, Content
<1>16. Knows(v)'
  BY <1>1, <1>2, <1>3, <1>5, <1>10, <1>12, <1>14 DEF Knows, RestoreTells, Describes, Content
<1> QED BY <1>4, <1>13, <1>15, <1>16, Continues, KnownNext

-----------------------------------------------------------------------------
(* The commands and the world around them.                                 *)

\* A command begins with an empty list.
LEMMA CommandsKnow ==
  ASSUME TypeOK, Known, Commands
  PROVE  Known' /\ Kept
<1> USE CommandLineAssumption
<1>1. PICK op \in Operations, n \in Names \cup {None}, x \in Projects \cup {None},
           origin \in Names \cup {None} :
            /\ Command(op, n, x, origin)
            /\ op # "scan" => x \in Projects
            /\ op \in {"backup", "restore"} => n \in Names
            /\ op = "restore" => x = Content(n)
  BY CommandsBegin
<1>2. PICK v : v = Opening(op, n, x, origin)
  OBVIOUS
<1>3. Continue(Cli, v) /\ Empty({CliRegistry}) /\ UNCHANGED <<files, rows>>
  BY <1>1, <1>2, CommandOpens DEF disk
<1>4. v.op = op /\ v.name = n /\ v.of = x /\ v.reg = CliRegistry /\ v.loaded = None
  BY <1>2 DEF Opening, Asked
<1>5. \A m \in Names : Positions(lists'[CliRegistry], m) = {}
  BY <1>3 DEF Empty, Positions
<1>6. Knows(v)'
  BY <1>1, <1>3, <1>4, <1>5 DEF Knows, RestoreTells, Content
<1>7. FreshTells' /\ Kept
  BY <1>3 DEF Known, FreshTells, Content, Kept
<1> QED BY <1>3, <1>6, <1>7, Continues, KnownNext

LEMMA EndKnows ==
  ASSUME TypeOK, Shaped, Known, EndCommand \/ Kill
  PROVE  Known' /\ Kept
<1> USE CommandLineAssumption
<1>1. work'[Cli] = None /\ UNCHANGED rows
  BY DEF EndCommand, Kill, Exit, TypeOK
<1>2. CASE UNCHANGED files
  BY <1>1, <1>2 DEF Known, FreshTells, Content, Kept
<1>3. CASE /\ At(Cli, "done") /\ Removes(work[Cli])
           /\ files' = [files EXCEPT ![FileOf[work[Cli].origin]] = "Absent"]
  <2>1. FileOf[work[Cli].origin] \in Files
    BY <1>3, WorkTyped, RegistryAssumption DEF At, Removes
  <2> QED BY <1>1, <1>3, <2>1, AbsentTells DEF Known
<1> QED BY <1>2, <1>3 DEF EndCommand, Kill

LEMMA KnownStep ==
  ASSUME Inv, Known, [StatusNext]_statusVars
  PROVE  Known' /\ Kept
<1>0. TypeOK /\ Shaped
  BY DEF Inv, CommandTypeOK
<1>1. CASE Commands
  BY <1>0, <1>1, CommandsKnow
<1>2. CASE EndCommand \/ Kill
  BY <1>0, <1>2, EndKnows
<1>3. CASE ClientStep(Cli)
  BY <1>0, <1>3, HitKeeps, LoadsKeeps, StoreKeeps, PassingKeeps, BackupKeeps, UnmarkKeeps,
     CreditKeeps DEF ClientStep, Scans, Operates
<1>4. ASSUME work[Cli] = None, NEW f \in Files, Deletes(f) PROVE Known' /\ Kept
  <2>1. files' = [files EXCEPT ![f] = "Absent"] /\ UNCHANGED <<rows, work>>
    BY <1>4 DEF Deletes, Delete, DeleteFile
  <2> QED BY <1>0, <1>4, <2>1, AbsentTells DEF Known
<1>5. ASSUME work[Cli] = None, NEW f \in Files, NEW x \in Projects, Imports(f, x)
      PROVE  Known' /\ Kept
  <2>1. files' = [files EXCEPT ![f] = x] /\ Outdate(f) /\ UNCHANGED work
    BY <1>5 DEF Imports, Import, ImportFile
  <2> QED BY <1>0, <1>5, <2>1, OutdateTells DEF Known
<1>6. CASE UNCHANGED statusVars
  BY <1>6 DEF statusVars, commandVars, Known, FreshTells, Content, Kept, Knows, LoadedTells,
     RestoreTells, Describes
<1> QED
  BY <1>1, <1>2, <1>3, <1>4, <1>5, <1>6 DEF StatusNext, CommandStep, CommandRuns

\* The status of a snapshot changes only by an operation on its project, or on one
\* that its XML mentions: never by a scan, a killed command or a changed archive.
THEOREM StatusIsKept == StatusSpec => ScansKeepStatus
<1>1. StatusInit => Inv /\ Known
  BY InvInit, CommandLineAssumption
     DEF StatusInit, CommandInit, Init, Known, FreshTells
<1>2. Inv /\ Known /\ [StatusNext]_statusVars => (Inv /\ Known)'
  BY InvNext, KnownStep
<1>3. Inv /\ Known /\ [StatusNext]_statusVars =>
        [\A n \in Names :
            (rows[n] # None /\ rows'[n] # rows[n] /\ rows'[n].status # rows[n].status) =>
                \E x \in {rows[n].of} \cup Mentions[rows[n].of] : Notifying(x)]_statusVars
  BY KnownStep DEF Kept
<1> QED BY <1>1, <1>2, <1>3, PTL DEF StatusSpec, ScansKeepStatus

-----------------------------------------------------------------------------
(***************************************************************************)
(* A mark is honest: a listed snapshot that is shown as installed is one   *)
(* the machine was made from, or saved to.  A scan can only repeat marks;  *)
(* a backup marks what it has just written; a restore unmarks every        *)
(* snapshot of its project first, and finds them all, because the scan     *)
(* before it has seen to it that every listed snapshot has a row that      *)
(* describes it.                                                           *)
(***************************************************************************)

\* An instance of a project contains the project's name, as it is: names with a
\* character that XML escapes are not found in it.
PlainNames == \A x \in Projects : x \in Mentions[x]

Scanned == {ScanOrder[i] : i \in DOMAIN ScanOrder}

\* What MarkIsHonest wants of a mark.
Vouched(n) ==
    \/ FileOf[n] \in matches[Content(n)]
    \/ Content(n) \in damaged
    \/ FileOf[n] \in foreign

Covered(n) == Content(n) \in Projects => Vouched(n)

Honest == \A n \in Scanned : Installed(n) => Covered(n)

Waits(w, n) == \E i \in DOMAIN w.todo : w.todo[i] = n

\* What will be written as installed is covered, what a scan has passed has a row
\* that describes it, and a restore marks what the machine has been made from.
Vouches(w) ==
    /\ w.loaded # None => /\ w.todo # <<>> /\ w.loaded.name = Head(w.todo)
                          /\ (w.loaded.name \in Scanned /\ w.loaded.status = "Installed")
                                => Covered(w.loaded.name)
    /\ (w.assumed = "Installed" /\ w.todo # <<>>) =>
            Head(w.todo) = w.name /\ Tail(w.todo) = <<>> /\ Covered(w.name)
    /\ w.pc \in {"ready", "executing", "crediting"} => w.todo = <<>>
    /\ w.op \in {"restore", "clean"} =>
            \A n \in Scanned : Content(n) \in Projects => Describes(n) \/ Waits(w, n)
    /\ w.pc = "crediting" => FileOf[w.name] \in matches[w.of]

Marks ==
    /\ matches \in [Projects -> SUBSET Files]
    /\ Honest
    /\ work[Cli] # None => Vouches(work[Cli])

\* All that the steps of a command may rely on.
Grounds == TypeOK /\ Shaped /\ BackupIsSafe /\ Known /\ Marks

-----------------------------------------------------------------------------
(* History.                                                                *)

LEMMA ScannedNames == Scanned \subseteq Names
BY RegistryAssumption DEF Scanned

\* The invariant of the next state, from what is known of the command there.
LEMMA MarksNext ==
  ASSUME NEW v, v = work'[Cli], v # None => Vouches(v)', Honest',
         matches' \in [Projects -> SUBSET Files]
  PROVE  Marks'
BY DEF Marks, Vouches, Covered, Vouched, Waits, Describes

LEMMA MatchesTyped ==
  ASSUME TracksMatches, matches \in [Projects -> SUBSET Files], work[Cli] # None,
         work[Cli].op = "restore" => work[Cli].name \in Names
  PROVE  matches' \in [Projects -> SUBSET Files]
<1>1. \A x \in Projects : Restored(x) => Target \in Files
  BY RegistryAssumption DEF Restored, Moves, Target
<1> QED BY <1>1 DEF TracksMatches

\* Nothing stops being covered but by a change of its file, or by the end of an
\* operation on its project that succeeds.
LEMMA StaysCovered ==
  ASSUME TypeOK, TracksMatches, TracksDamage, TracksReuse,
         matches \in [Projects -> SUBSET Files],
         NEW n \in Names, Covered(n), Content(n)' = Content(n),
         Content(n) \in Projects => ~Restored(Content(n)) /\ ~Cleaned(Content(n))
  PROVE  Covered(n)'
<1> SUFFICES ASSUME Content(n) \in Projects PROVE Vouched(n)'
  BY DEF Covered
<1>0. PICK x \in Projects : x = Content(n)
  OBVIOUS
<1>1. FileOf[n] \in Files /\ files'[FileOf[n]] = files[FileOf[n]] /\ Vouched(n)
  BY RegistryAssumption DEF Content, Covered
<1>2. ~Restored(x) /\ ~Cleaned(x)
  BY <1>0
<1>3. CASE x \in damaged \/ Begins(x)
  <2>1. x \in damaged'
    BY <1>2, <1>3 DEF TracksDamage
  <2> QED BY <1>0, <2>1 DEF Vouched
<1>4. CASE FileOf[n] \in matches[x] /\ ~Begins(x)
  <2>1. FileOf[n] \in matches'[x]
    BY <1>1, <1>2, <1>4 DEF TracksMatches
  <2> QED BY <1>0, <2>1 DEF Vouched
<1>5. CASE FileOf[n] \in foreign
  BY <1>1, <1>5 DEF TracksReuse, Vouched
<1> QED BY <1>0, <1>1, <1>3, <1>4, <1>5 DEF Vouched

\* Which steps end an operation.
LEMMA EndsAt ==
  ASSUME NEW x, Restored(x) \/ Cleaned(x)
  PROVE  /\ work[Cli].pc = "executing" /\ work[Cli].of = x
         /\ Restored(x) => work'[Cli].pc = "crediting" /\ work[Cli].op = "restore"
         /\ Cleaned(x) => work'[Cli].ok /\ work[Cli].op = "clean"
BY DEF Restored, Cleaned, Moves, Of

LEMMA QuietMarks ==
  ASSUME Grounds, Observed, work[Cli] # None, UNCHANGED files,
         \A x \in Projects : ~Restored(x) /\ ~Cleaned(x)
  PROVE  /\ matches' \in [Projects -> SUBSET Files]
         /\ \A n \in Names : Covered(n) => Covered(n)'
<1>1. matches' \in [Projects -> SUBSET Files]
  BY MatchesTyped, CommandLineAssumption DEF Grounds, Observed, Marks, Shaped, Shape
<1>2. ASSUME NEW n \in Names, Covered(n) PROVE Covered(n)'
  BY <1>2, StaysCovered DEF Grounds, Marks, Observed, Content
<1> QED BY <1>1, <1>2

\* A scan is no end of an operation.
LEMMA EarlyMarks ==
  ASSUME Grounds, Observed, work[Cli] # None, UNCHANGED files, work[Cli].pc # "executing"
  PROVE  /\ matches' \in [Projects -> SUBSET Files]
         /\ \A n \in Names : Covered(n) => Covered(n)'
BY QuietMarks, EndsAt

-----------------------------------------------------------------------------
(* The steps of a scan.                                                    *)

\* What waits in a list is its head, or waits in its tail.
LEMMA WaitsOn ==
  ASSUME NEW todo \in Seq(Names), todo # <<>>, NEW i \in DOMAIN todo
  PROVE  todo[i] = Head(todo) \/ \E j \in DOMAIN Tail(todo) : Tail(todo)[j] = todo[i]
<1>1. CASE i = 1
  BY <1>1
<1>2. CASE i # 1
  <2>1. i - 1 \in DOMAIN Tail(todo) /\ Tail(todo)[i - 1] = todo[i]
    BY <1>2
  <2> QED BY <2>1
<1> QED BY <1>1, <1>2

\* The head of the list has been dealt with.
LEMMA MovesOn ==
  ASSUME NEW w \in Work, w.todo # <<>>, Vouches(w),
         NEW v, Resembles(v, [w EXCEPT !.loaded = None]), v.assumed = w.assumed,
         v.pc = "looking", v.todo = Tail(w.todo), v.loaded = None,
         \A n \in Names : Covered(n) => Covered(n)',
         w.op \in {"restore", "clean"} =>
             \A n \in Names : /\ Content(n)' = Content(n)
                              /\ Describes(n) => Describes(n)'
                              /\ (n = Head(w.todo) /\ Content(n) \in Projects) => Describes(n)'
  PROVE  Vouches(v)'
<1>1. w.todo \in Seq(Names) /\ v.op = w.op
  BY DEF Work, Resembles
<1>2. (v.assumed = "Installed" /\ v.todo # <<>>) => FALSE
  BY DEF Vouches
<1>3. ASSUME w.op \in {"restore", "clean"}, NEW n \in Scanned, Content(n)' \in Projects
      PROVE  Describes(n)' \/ Waits(v, n)
  <2>1. n \in Names /\ Content(n) \in Projects
    BY <1>3, ScannedNames
  <2>2. Describes(n) \/ Waits(w, n)
    BY <1>3, <2>1 DEF Vouches
  <2>3. ASSUME Waits(w, n) PROVE n = Head(w.todo) \/ Waits(v, n)
    BY <1>1, <2>3, WaitsOn DEF Waits
  <2> QED BY <1>3, <2>1, <2>2, <2>3
<1> QED BY <1>1, <1>2, <1>3 DEF Vouches, Waits

LEMMA HitMarks ==
  ASSUME Grounds, Observed, LookupHit(Cli)
  PROVE  Marks'
<1> USE CommandLineAssumption
<1> DEFINE w == work[Cli]
           n == Head(w.todo)
<1>1. PICK v : v = [w EXCEPT !.todo = Tail(@)]
  OBVIOUS
<1>2. w # None /\ w.pc = "looking" /\ w.todo # <<>> /\ Fresh(n)
  BY DEF LookupHit, Looks, At
<1>3. w \in Work /\ n \in Names /\ Vouches(w) /\ w.loaded = None
  BY <1>2, WorkTyped DEF Grounds, Marks, TypeOK
<1>4. Describes(n)
  BY <1>2, <1>3 DEF Fresh, Grounds, Known, FreshTells, Describes
<1>5. Continue(Cli, v) /\ UNCHANGED <<files, rows>>
  BY <1>1 DEF LookupHit, disk
<1>6. /\ Resembles(v, [w EXCEPT !.loaded = None]) /\ v.assumed = w.assumed
      /\ v.pc = "looking" /\ v.todo = Tail(w.todo) /\ v.loaded = None
  BY <1>1, <1>2, <1>3 DEF Work, Resembles
<1>7. /\ matches' \in [Projects -> SUBSET Files]
      /\ \A m \in Names : Covered(m) => Covered(m)'
  BY <1>2, <1>5, EarlyMarks
<1>8. Honest'
  BY <1>5, <1>7, ScannedNames DEF Grounds, Marks, Honest, Installed
<1> HIDE DEF w, n
<1>9. \A m \in Names : /\ Content(m)' = Content(m)
                       /\ Describes(m) => Describes(m)'
                       /\ (m = Head(w.todo) /\ Content(m) \in Projects) => Describes(m)'
  BY <1>4, <1>5 DEF Content, Describes, n
<1>10. Vouches(v)'
  BY <1>2, <1>3, <1>6, <1>7, <1>9, MovesOn
<1>11. v = work'[Cli]
  BY <1>5, Continues DEF Grounds
<1> QED BY <1>7, <1>8, <1>10, <1>11, MarksNext

LEMMA NothingMarks ==
  ASSUME Grounds, Observed, LookupNothing(Cli)
  PROVE  Marks'
<1> USE CommandLineAssumption
<1> DEFINE w == work[Cli]
           n == Head(w.todo)
<1>1. PICK v : v = [w EXCEPT !.todo = Tail(@)]
  OBVIOUS
<1>2. w # None /\ w.pc = "looking" /\ w.todo # <<>> /\ Content(n) \notin Projects
  BY DEF LookupNothing, Looks, At
<1>3. w \in Work /\ Vouches(w) /\ w.loaded = None
  BY <1>2, WorkTyped DEF Grounds, Marks, TypeOK
<1>4. Continue(Cli, v) /\ UNCHANGED <<files, rows>>
  BY <1>1 DEF LookupNothing, disk
<1>5. /\ Resembles(v, [w EXCEPT !.loaded = None]) /\ v.assumed = w.assumed
      /\ v.pc = "looking" /\ v.todo = Tail(w.todo) /\ v.loaded = None
  BY <1>1, <1>2, <1>3 DEF Work, Resembles
<1>6. /\ matches' \in [Projects -> SUBSET Files]
      /\ \A m \in Names : Covered(m) => Covered(m)'
  BY <1>2, <1>4, EarlyMarks
<1>7. Honest'
  BY <1>4, <1>6, ScannedNames DEF Grounds, Marks, Honest, Installed
<1> HIDE DEF w
<1>8. \A m \in Names : /\ Content(m)' = Content(m)
                       /\ Describes(m) => Describes(m)'
                       /\ (m = Head(w.todo) /\ Content(m) \in Projects) => Describes(m)'
  BY <1>2, <1>4 DEF Content, Describes
<1>9. Vouches(v)'
  BY <1>2, <1>3, <1>5, <1>6, <1>8, MovesOn
<1>10. v = work'[Cli]
  BY <1>4, Continues DEF Grounds
<1> QED BY <1>6, <1>7, <1>9, <1>10, MarksNext

\* What is loaded has the status of its row, which is honest, or the one a backup
\* assumes of its own snapshot.
LEMMA LoadsMarks ==
  ASSUME Grounds, Observed, LookupLoads(Cli)
  PROVE  Marks'
<1> USE CommandLineAssumption
<1> DEFINE w == work[Cli]
           n == Head(w.todo)
<1>1. PICK e : e = [name |-> n, of |-> Content(n), status |-> StatusFor(n, w.assumed)]
  OBVIOUS
<1>2. PICK v : v = [w EXCEPT !.pc = "storing", !.loaded = e]
  OBVIOUS
<1>3. /\ w # None /\ w.pc = "looking" /\ w.todo # <<>>
      /\ Continue(Cli, v) /\ UNCHANGED <<files, rows>>
  BY <1>1, <1>2 DEF LookupLoads, Looks, At, disk
<1>4. w \in Work /\ n \in Names /\ Vouches(w)
  BY <1>3, WorkTyped DEF Grounds, Marks
<1>5. /\ v.op = w.op /\ v.name = w.name /\ v.of = w.of /\ v.todo = w.todo
      /\ v.assumed = w.assumed /\ v.pc = "storing" /\ v.loaded = e
  BY <1>2, <1>4 DEF Work
<1>6. /\ matches' \in [Projects -> SUBSET Files]
      /\ \A m \in Names : Covered(m) => Covered(m)'
  BY <1>3, EarlyMarks
<1>7. Honest'
  BY <1>3, <1>6, ScannedNames DEF Grounds, Marks, Honest, Installed
<1>8. (n \in Scanned /\ e.status = "Installed") => Covered(n)
  <2>1. CASE rows[n] # None
    BY <1>1, <2>1 DEF StatusFor, Grounds, Marks, Honest, Installed
  <2>2. CASE rows[n] = None
    BY <1>1, <1>3, <1>4, <2>2 DEF StatusFor, Vouches
  <2> QED BY <2>1, <2>2
<1>9. e.name = n
  BY <1>1
<1>10. \A m \in Names : Content(m)' = Content(m) /\ (Describes(m) => Describes(m)')
  BY <1>3 DEF Content, Describes
<1>11. n = Head(v.todo) /\ v.todo # <<>>
  BY <1>3, <1>5
<1> HIDE DEF w, n
<1>12. Covered(n) => Covered(e.name)'
  BY <1>4, <1>6, <1>9
<1>13. (v.assumed = "Installed" /\ v.todo # <<>>) =>
          Head(v.todo) = v.name /\ Tail(v.todo) = <<>> /\ Covered(v.name)'
  <2> SUFFICES ASSUME v.assumed = "Installed", v.todo # <<>>
               PROVE  Head(v.todo) = v.name /\ Tail(v.todo) = <<>> /\ Covered(v.name)'
    OBVIOUS
  <2>1. Head(v.todo) = v.name /\ Tail(v.todo) = <<>> /\ Covered(v.name)
    BY <1>4, <1>5 DEF Vouches
  <2> QED BY <1>4, <1>6, <1>11, <2>1
<1>14. Vouches(v)'
  <2>1. v.op \in {"restore", "clean"} =>
          \A m \in Scanned : Content(m)' \in Projects => Describes(m)' \/ Waits(v, m)
    BY <1>4, <1>5, <1>10, ScannedNames DEF Vouches, Waits
  <2> QED BY <1>5, <1>8, <1>9, <1>11, <1>12, <1>13, <2>1 DEF Vouches, Waits
<1>15. v = work'[Cli]
  BY <1>3, Continues DEF Grounds
<1> QED BY <1>6, <1>7, <1>14, <1>15, MarksNext

LEMMA StoreMarks ==
  ASSUME Grounds, Observed, Store(Cli)
  PROVE  Marks'
<1> USE CommandLineAssumption
<1> DEFINE w == work[Cli]
           row == [of |-> w.loaded.of, fresh |-> Content(w.loaded.name) = w.loaded.of,
                   status |-> w.loaded.status]
<1>1. PICK e : e = w.loaded
  OBVIOUS
<1>2. PICK v : v = [w EXCEPT !.pc = "looking", !.loaded = None, !.todo = Tail(@)]
  OBVIOUS
<1>3. /\ w # None /\ w.pc = "storing" /\ e # None /\ UNCHANGED files
      /\ Continue(Cli, v) /\ rows' = [rows EXCEPT ![e.name] = row]
  BY <1>1, <1>2 DEF Store, At, Grounds, TypeOK
<1>4. w \in Work /\ e \in Entry /\ Knows(w) /\ Vouches(w)
  BY <1>1, <1>3, WorkTyped DEF Grounds, Known, Marks
<1>5. e.name \in Names /\ LoadedTells(e) /\ e.name = Head(w.todo) /\ w.todo # <<>>
  BY <1>1, <1>3, <1>4 DEF Knows, Vouches, Entry
<1>6. /\ Resembles(v, [w EXCEPT !.loaded = None]) /\ v.assumed = w.assumed
      /\ v.pc = "looking" /\ v.todo = Tail(w.todo) /\ v.loaded = None
  BY <1>2, <1>4 DEF Work, Resembles
<1>7. row.of = e.of /\ row.status = e.status /\ row \in Row
  BY <1>1, <1>4 DEF Entry, Row
<1>8. row # None
  BY <1>7, NoneAssumption
<1>9. \A m \in Names : rows'[m] = IF m = e.name THEN row ELSE rows[m]
  BY <1>3, <1>5 DEF Grounds, TypeOK
<1>10. /\ matches' \in [Projects -> SUBSET Files]
       /\ \A m \in Names : Covered(m) => Covered(m)'
  BY <1>3, EarlyMarks
<1>11. (e.name \in Scanned /\ e.status = "Installed") => Covered(e.name)
  BY <1>1, <1>3, <1>4 DEF Vouches
<1> HIDE DEF w, row
<1>12. Honest'
  BY <1>7, <1>9, <1>10, <1>11, ScannedNames DEF Grounds, Marks, Honest, Installed
<1>13. \A m \in Names : /\ Content(m)' = Content(m)
                        /\ Describes(m) => Describes(m)'
                        /\ (m = Head(w.todo) /\ Content(m) \in Projects) => Describes(m)'
  BY <1>3, <1>5, <1>7, <1>8, <1>9 DEF Content, Describes, LoadedTells
<1>14. Vouches(v)'
  BY <1>4, <1>5, <1>6, <1>10, <1>13, MovesOn
<1>15. v = work'[Cli]
  BY <1>3, Continues DEF Grounds
<1> QED BY <1>10, <1>12, <1>14, <1>15, MarksNext

-----------------------------------------------------------------------------
(* The steps between scans.                                                *)

\* A command that has nothing left to look at, and goes on or fails.
LEMMA PlaceMarks ==
  ASSUME Grounds, Observed, work[Cli] # None, UNCHANGED <<files, rows>>,
         work[Cli].todo = <<>>,
         NEW v, Continue(Cli, v), v.pc \in {"ready", "executing", "done"}, v.todo = <<>>,
         v.loaded = None, v.op = work[Cli].op,
         \A x \in Projects : ~Restored(x) /\ ~Cleaned(x)
  PROVE  Marks'
<1> USE CommandLineAssumption
<1> DEFINE w == work[Cli]
<1>1. Vouches(w) /\ v.op = w.op /\ w.todo = <<>>
  BY DEF Grounds, Marks
<1>2. /\ matches' \in [Projects -> SUBSET Files]
      /\ \A m \in Names : Covered(m) => Covered(m)'
  BY QuietMarks
<1>3. Honest'
  BY <1>2, ScannedNames DEF Grounds, Marks, Honest, Installed
<1> HIDE DEF w
<1>4. ASSUME v.op \in {"restore", "clean"}, NEW n \in Scanned, Content(n)' \in Projects
      PROVE  Describes(n)'
  <2>1. Content(n) \in Projects => Describes(n)
    BY <1>1, <1>4 DEF Vouches, Waits
  <2> QED BY <1>4, <2>1 DEF Content, Describes
<1>5. Vouches(v)'
  BY <1>4 DEF Vouches
<1>6. v = work'[Cli]
  BY Continues DEF Grounds
<1> QED BY <1>2, <1>3, <1>5, <1>6, MarksNext

LEMMA PassingMarks ==
  ASSUME Grounds, Observed,
         LookupEnds(Cli) \/ FailEarly(Cli) \/ BeginChange(Cli) \/ FailChange(Cli)
  PROVE  Marks'
<1> USE CommandLineAssumption
<1> DEFINE w == work[Cli]
<1>1. w # None /\ UNCHANGED <<files, rows>> /\ w.pc \in {"looking", "ready", "executing"}
  BY DEF LookupEnds, FailEarly, BeginChange, FailChange, Starts, Executes, At, disk
<1>2. w \in Work /\ Vouches(w) /\ w.loaded = None
  BY <1>1, WorkTyped DEF Grounds, Marks, TypeOK
<1>3. w.todo = <<>>
  BY <1>2 DEF LookupEnds, FailEarly, BeginChange, FailChange, Starts, Executes, At, Vouches
<1>4. \A u : Continue(Cli, u) => work'[Cli] = u
  BY Continues DEF Grounds
<1>5. ASSUME LookupEnds(Cli) \/ FailEarly(Cli) \/ BeginChange(Cli)
      PROVE  \A x \in Projects : ~Restored(x) /\ ~Cleaned(x)
  BY <1>5, EndsAt DEF LookupEnds, FailEarly, BeginChange, Starts, At
<1>6. ASSUME LookupEnds(Cli) PROVE Marks'
  <2>1. PICK pc \in {"done", "ready"} : Continue(Cli, [w EXCEPT !.pc = pc])
    BY <1>6 DEF LookupEnds
  <2>2. PICK v : v = [w EXCEPT !.pc = pc]
    OBVIOUS
  <2>3. v.pc = pc /\ v.todo = <<>> /\ v.loaded = None /\ v.op = w.op
    BY <1>2, <1>3, <2>2 DEF Work
  <2> QED BY <1>1, <1>3, <1>5, <1>6, <2>1, <2>2, <2>3, PlaceMarks
<1>7. ASSUME BeginChange(Cli) PROVE Marks'
  <2>1. PICK v : v = [w EXCEPT !.pc = "executing"]
    OBVIOUS
  <2>2. v.pc = "executing" /\ v.todo = <<>> /\ v.loaded = None /\ v.op = w.op
    BY <1>2, <1>3, <2>1 DEF Work
  <2>3. Continue(Cli, v)
    BY <1>7, <2>1 DEF BeginChange
  <2> QED BY <1>1, <1>3, <1>5, <1>7, <2>2, <2>3, PlaceMarks
<1>8. ASSUME FailEarly(Cli) \/ FailChange(Cli) PROVE Marks'
  <2>1. PICK v : v = [w EXCEPT !.pc = "done", !.ok = FALSE]
    OBVIOUS
  <2>2. v.pc = "done" /\ ~v.ok /\ v.todo = <<>> /\ v.loaded = None /\ v.op = w.op
    BY <1>2, <1>3, <2>1 DEF Work
  <2>3. Continue(Cli, v)
    BY <1>8, <2>1 DEF FailEarly, FailChange, Ends
  <2>4. \A x \in Projects : ~Restored(x) /\ ~Cleaned(x)
    BY <1>4, <2>2, <2>3, EndsAt
  <2> QED BY <1>1, <1>3, <2>2, <2>3, <2>4, PlaceMarks
<1> QED BY <1>6, <1>7, <1>8

\* A backup breaks the archive under its name, or makes it an instance the machine
\* has just been saved to; others stay what they were.
LEMMA BackupMarks ==
  ASSUME Grounds, Observed, BeginBackup(Cli) \/ FailBackup(Cli) \/ FinishBackup(Cli)
  PROVE  Marks'
<1> USE CommandLineAssumption
<1> DEFINE w == work[Cli]
           f == FileOf[w.name]
<1>1. w # None /\ w.op = "backup" /\ w.pc \in {"ready", "executing"}
  BY DEF BeginBackup, FailBackup, FinishBackup, Starts, Executes, At
<1>2. /\ w \in Work /\ w.loaded = None /\ w.todo = <<>> /\ f \in Files
      /\ w.of \in Projects /\ w.name \in Names
  BY <1>1, WorkTyped, RegistryAssumption DEF Grounds, Marks, Vouches, TypeOK, Shaped, Shape
<1>3. \A x \in Projects : ~Begins(x) /\ ~Restored(x) /\ ~Cleaned(x)
  BY <1>1 DEF Begins, Restored, Cleaned, Moves
<1>4. matches' \in [Projects -> SUBSET Files]
  BY <1>1, MatchesTyped DEF Grounds, Observed, Marks
<1>5. files \in [Files -> Projects \cup {"Absent", "Broken"}] /\ rows \in [Names -> Row \cup {None}]
  BY DEF Grounds, TypeOK
<1>6. \A n \in Names : Installed(n)' => Installed(n)
  <2>1. CASE UNCHANGED rows
    BY <2>1 DEF Installed
  <2>2. CASE Outdate(f)
    <3>1. \A row \in Row : [row EXCEPT !.fresh = FALSE].status = row.status
      BY DEF Row
    <3> QED BY <1>5, <2>2, <3>1 DEF Outdate, Installed
  <2> QED BY <2>1, <2>2 DEF BeginBackup, FailBackup, FinishBackup, WriteArchive, disk
<1>7. \/ UNCHANGED files
      \/ files' = [files EXCEPT ![f] = "Broken"]
      \/ files[f] = "Broken" /\ files' = [files EXCEPT ![f] = w.of]
  <2>1. w.pc = "executing" => files[f] = "Broken"
    BY <1>1 DEF Grounds, BackupIsSafe, Safe, TargetOf
  <2> QED BY <2>1 DEF BeginBackup, FailBackup, FinishBackup, WriteArchive, Executes, At, disk
<1>8. ASSUME NEW n \in Names, Covered(n) PROVE Covered(n)'
  <2>1. CASE Content(n)' = Content(n)
    BY <1>3, <1>8, <2>1, StaysCovered DEF Grounds, Marks, Observed
  <2>2. CASE Content(n)' # Content(n)
    <3>1. FileOf[n] = f
      BY <1>2, <1>5, <1>7, <2>2, RegistryAssumption DEF Content
    <3>2. CASE Content(n)' = "Broken"
      BY <3>2, RegistryAssumption DEF Covered
    <3>3. CASE files[f] = "Broken" /\ files'[f] = w.of
      <4>1. f \in matches'[w.of]
        BY <1>2, <1>3, <3>3 DEF Observed, TracksMatches
      <4> QED BY <3>1, <3>3, <4>1 DEF Covered, Vouched, Content
    <3> QED BY <1>2, <1>5, <1>7, <2>2, <3>1, <3>2, <3>3 DEF Content
  <2> QED BY <2>1, <2>2
<1>9. Honest'
  BY <1>6, <1>8, ScannedNames DEF Grounds, Marks, Honest
<1>10. CASE BeginBackup(Cli) \/ FailBackup(Cli)
  <2>1. PICK v : Continue(Cli, v) /\ (v = [w EXCEPT !.pc = "executing"] \/
                                     v = [w EXCEPT !.pc = "done", !.ok = FALSE])
    BY <1>10 DEF BeginBackup, FailBackup, Ends
  <2>2. v.op = "backup" /\ v.todo = <<>> /\ v.loaded = None /\ v.pc # "crediting"
    BY <1>1, <1>2, <2>1 DEF Work
  <2>3. Vouches(v)'
    BY <2>2 DEF Vouches
  <2>4. v = work'[Cli]
    BY <2>1, Continues DEF Grounds
  <2> QED BY <1>4, <1>9, <2>3, <2>4, MarksNext
<1>11. CASE FinishBackup(Cli)
  <2>1. PICK s : Continue(Cli, [w EXCEPT !.pc = "looking", !.ok = TRUE, !.todo = <<w.name>>,
                                         !.assumed = s])
    BY <1>11 DEF FinishBackup
  <2>2. PICK v : v = [w EXCEPT !.pc = "looking", !.ok = TRUE, !.todo = <<w.name>>, !.assumed = s]
    OBVIOUS
  <2>3. /\ v.op = "backup" /\ v.todo = <<w.name>> /\ v.loaded = None /\ v.pc = "looking"
        /\ v.name = w.name
    BY <1>1, <1>2, <2>2 DEF Work
  <2>4. PICK g, x : g = f /\ x = w.of
    OBVIOUS
  <2>5. FileOf[v.name] \in matches'[x] /\ Content(v.name)' = x
    <3>1. files[g] = "Broken" /\ files' = [files EXCEPT ![g] = x]
      BY <1>1, <1>11, <2>4
         DEF FinishBackup, WriteArchive, Executes, At, Grounds, BackupIsSafe, Safe, TargetOf
    <3>2. g \in matches'[x]
      BY <1>2, <1>3, <1>5, <2>4, <3>1 DEF Observed, TracksMatches
    <3> QED BY <1>2, <1>5, <2>3, <2>4, <3>1, <3>2 DEF Content
  <2>6. Covered(v.name)'
    BY <2>5 DEF Covered, Vouched
  <2>7. Head(v.todo) = v.name /\ Tail(v.todo) = <<>>
    BY <1>2, <2>3
  <2>8. v = work'[Cli]
    BY <2>1, <2>2, Continues DEF Grounds
  <2>9. Vouches(v)'
    BY <2>3, <2>6, <2>7 DEF Vouches
  <2> QED BY <1>4, <1>9, <2>8, <2>9, MarksNext
<1> QED BY <1>10, <1>11

\* A restore or a clean that succeeds unmarks what its project had: every listed
\* snapshot has a row that describes it, and is found by the name of its project.
LEMMA FinishUnmarks ==
  ASSUME PlainNames, Grounds, FinishRestore(Cli) \/ FinishClean(Cli)
  PROVE  /\ \A n \in Names : /\ Installed(n)' => Installed(n)
                             /\ Describes(n) => Describes(n)'
         /\ \A n \in Scanned : /\ Content(n) \in Projects => Describes(n)
                               /\ Content(n) = work[Cli].of => ~Installed(n)'
<1> USE CommandLineAssumption
<1> DEFINE w == work[Cli]
<1>1. /\ w # None /\ w.op \in {"restore", "clean"} /\ w.pc = "executing"
      /\ UNCHANGED files /\ UnmarkAll(Cli)
  BY DEF FinishRestore, FinishClean, Executes, At
<1>2. w.todo = <<>> /\ w.of \in Projects /\ Vouches(w)
  BY <1>1 DEF Grounds, Marks, Vouches, Shaped, Shape
<1>3. \A n \in Names : rows[n] # None => rows[n] \in Row
  BY DEF Grounds, TypeOK
<1>4. \A row \in Row : LET r == [row EXCEPT !.status = "NotInstalled"] IN
                         /\ r.status = "NotInstalled" /\ r.of = row.of /\ r \in Row
  BY DEF Row, Statuses
<1>5. \A n \in Names : rows'[n] = IF rows[n] # None /\ w.of \in Mentions[rows[n].of]
                                  THEN [rows[n] EXCEPT !.status = "NotInstalled"] ELSE rows[n]
  BY <1>1 DEF UnmarkAll, MarkAllNotInstalled
<1>6. \A n \in Names : /\ Installed(n)' => Installed(n)
                       /\ Describes(n) => Describes(n)'
  <2> SUFFICES ASSUME NEW n \in Names
               PROVE  (Installed(n)' => Installed(n)) /\ (Describes(n) => Describes(n)')
    OBVIOUS
  <2> DEFINE r == [rows[n] EXCEPT !.status = "NotInstalled"]
  <2>1. \A row \in Row : row # None
    BY NoneAssumption
  <2>2. rows[n] # None => r \in Row /\ r # None /\ r.of = rows[n].of /\ r.status = "NotInstalled"
    BY <1>3, <1>4, <2>1
  <2>3. rows'[n] = rows[n] \/ (rows[n] # None /\ rows'[n] = r)
    BY <1>5
  <2> HIDE DEF r
  <2>4. Installed(n)' => Installed(n)
    BY <1>1, <2>2, <2>3 DEF Installed, Content
  <2>5. Describes(n) => Describes(n)'
    BY <1>1, <2>2, <2>3 DEF Describes, Content
  <2> QED BY <2>4, <2>5
<1>7. \A n \in Scanned : Content(n) \in Projects => Describes(n)
  BY <1>1, <1>2 DEF Vouches, Waits
<1>8. ASSUME NEW n \in Scanned, Content(n) = w.of PROVE ~Installed(n)'
  <2>1. Describes(n) /\ n \in Names
    BY <1>2, <1>7, <1>8, ScannedNames
  <2>2. rows[n] \in Row /\ w.of \in Mentions[rows[n].of]
    BY <1>2, <1>3, <1>8, <2>1 DEF Describes, PlainNames
  <2> QED BY <1>4, <1>5, <2>1, <2>2 DEF Installed, Describes
<1> QED BY <1>6, <1>7, <1>8

LEMMA FinishMarks ==
  ASSUME PlainNames, Grounds, Observed, FinishRestore(Cli) \/ FinishClean(Cli)
  PROVE  Marks'
<1> USE CommandLineAssumption
<1> DEFINE w == work[Cli]
<1>1. w # None /\ w.op \in {"restore", "clean"} /\ w.pc = "executing" /\ UNCHANGED files
  BY DEF FinishRestore, FinishClean, Executes, At
<1>2. /\ w \in Work /\ w.loaded = None /\ w.todo = <<>> /\ w.of \in Projects
      /\ w.op = "restore" => w.name \in Names /\ Content(w.name) = w.of
  BY <1>1, WorkTyped
     DEF Grounds, Marks, Vouches, TypeOK, Shaped, Shape, Known, Knows, RestoreTells
<1>3. matches' \in [Projects -> SUBSET Files]
  BY <1>1, <1>2, MatchesTyped DEF Grounds, Observed, Marks
<1>4. \A n \in Names : /\ Installed(n)' => Installed(n)
                       /\ Describes(n) => Describes(n)'
  BY FinishUnmarks
<1>5. \A n \in Scanned : Content(n) \in Projects => Describes(n)
  BY FinishUnmarks
<1>6. \A n \in Scanned : Content(n) = w.of => ~Installed(n)'
  BY FinishUnmarks
<1>7. ASSUME NEW n \in Scanned, Installed(n)' PROVE Covered(n)'
  <2>1. n \in Names /\ Content(n) # w.of /\ Covered(n) /\ Content(n)' = Content(n)
    BY <1>1, <1>4, <1>6, <1>7, ScannedNames DEF Grounds, Marks, Honest, Content
  <2>2. Content(n) \in Projects => ~Restored(Content(n)) /\ ~Cleaned(Content(n))
    BY <2>1, EndsAt
  <2> QED BY <2>1, <2>2, StaysCovered DEF Grounds, Marks, Observed
<1>8. Honest'
  BY <1>7 DEF Honest
<1>9. \A n \in Scanned : Content(n)' \in Projects => Describes(n)'
  BY <1>1, <1>4, <1>5, ScannedNames DEF Content
<1>10. CASE FinishClean(Cli)
  <2>1. PICK v : v = [w EXCEPT !.pc = "done", !.ok = TRUE]
    OBVIOUS
  <2>2. v.pc = "done" /\ v.todo = <<>> /\ v.loaded = None
    BY <1>2, <2>1 DEF Work
  <2>3. v = work'[Cli]
    BY <1>10, <2>1, Continues DEF FinishClean, Ends, Grounds
  <2>4. Vouches(v)'
    BY <1>9, <2>2 DEF Vouches
  <2> QED BY <1>3, <1>8, <2>3, <2>4, MarksNext
<1>11. CASE FinishRestore(Cli)
  <2>1. PICK v : v = [w EXCEPT !.pc = "crediting"]
    OBVIOUS
  <2>2. /\ v.pc = "crediting" /\ v.todo = <<>> /\ v.loaded = None /\ v.op = "restore"
        /\ v.of = w.of /\ v.name = w.name
    BY <1>2, <1>11, <2>1 DEF Work, FinishRestore, Executes
  <2>3. v = work'[Cli]
    BY <1>11, <2>1, Continues DEF FinishRestore, Grounds
  <2>4. Restored(v.of) /\ ~Begins(v.of)
    <3>1. v \in Work
      BY <1>2, <2>1 DEF Work
    <3>2. v # None
      BY <3>1, NoneAssumption
    <3> QED BY <1>1, <1>11, <2>2, <2>3, <3>2
            DEF Restored, Begins, Moves, Of, FinishRestore, Executes, At
  <2>5. FileOf[v.name] \in matches'[v.of]
    <3>1. matches'[v.of] = {f \in {FileOf[v.name]} : files[f] = v.of}
      BY <1>2, <2>2, <2>4 DEF Observed, TracksMatches, Target
    <3>2. files[FileOf[v.name]] = v.of
      BY <1>2, <1>11, <2>2 DEF Content, FinishRestore, Executes
    <3> QED BY <3>1, <3>2
  <2>6. Vouches(v)'
    BY <1>9, <2>2, <2>5 DEF Vouches
  <2> QED BY <1>3, <1>8, <2>3, <2>6, MarksNext
<1> QED BY <1>10, <1>11

\* The snapshot that is marked is the one the machine has been made from.
LEMMA CreditMarks ==
  ASSUME Grounds, Observed, Credit(Cli)
  PROVE  Marks'
<1> USE CommandLineAssumption
<1> DEFINE w == work[Cli]
<1>1. w # None /\ w.pc = "crediting" /\ UNCHANGED files /\ Ends(Cli, TRUE)
  BY DEF Credit, At
<1>2. /\ w \in Work /\ w.loaded = None /\ w.todo = <<>> /\ w.op = "restore" /\ w.name \in Names
      /\ Vouches(w) /\ Content(w.name) = w.of
  BY <1>1, WorkTyped
     DEF Grounds, Marks, Vouches, TypeOK, Shaped, Shape, Known, Knows, RestoreTells
<1>3. \A n \in Names : rows[n] \in Row \cup {None}
  BY DEF Grounds, TypeOK
<1>4. \A n \in Names : rows'[n] = rows[n] \/
          (n = w.name /\ rows[n] # None /\ rows'[n] = [rows[n] EXCEPT !.status = "Installed"])
  <2>1. rows' = rows \/
          (rows[w.name] # None /\ rows' = [rows EXCEPT ![w.name].status = "Installed"])
    BY DEF Credit
  <2> QED BY <1>2, <2>1 DEF Grounds, TypeOK
<1>5. \A row \in Row : LET r == [row EXCEPT !.status = "Installed"] IN r.of = row.of /\ r \in Row
  BY DEF Row, Statuses
<1>6. \A n \in Names : Describes(n) => Describes(n)'
  <2>1. \A n \in Names : rows[n] # None => rows[n] \in Row
    BY <1>3
  <2>2. \A row \in Row : row # None
    BY NoneAssumption
  <2>3. \A n \in Names : rows[n] # None => rows'[n] # None /\ rows'[n].of = rows[n].of
    BY <1>4, <1>5, <2>1, <2>2
  <2> QED BY <1>1, <2>3 DEF Describes, Content
<1>7. /\ matches' \in [Projects -> SUBSET Files]
      /\ \A n \in Names : Covered(n) => Covered(n)'
  BY <1>1, EarlyMarks
<1>8. Covered(w.name)
  BY <1>1, <1>2 DEF Vouches, Covered, Vouched
<1>9. Honest'
  <2>1. \A n \in Scanned : Installed(n)' => Covered(n)
    BY <1>4, <1>8, ScannedNames DEF Grounds, Marks, Honest, Installed
  <2> QED BY <1>7, <2>1, ScannedNames DEF Honest
<1>10. PICK v : v = [w EXCEPT !.pc = "done", !.ok = TRUE]
  OBVIOUS
<1>11. v.pc = "done" /\ v.todo = <<>> /\ v.loaded = None
  BY <1>2, <1>10 DEF Work
<1>12. v = work'[Cli]
  BY <1>1, <1>10, Continues DEF Ends, Grounds
<1>13. \A n \in Scanned : Content(n)' \in Projects => Describes(n)'
  BY <1>1, <1>2, <1>6, ScannedNames DEF Vouches, Waits, Content
<1>14. Vouches(v)'
  BY <1>11, <1>13 DEF Vouches
<1> QED BY <1>7, <1>9, <1>12, <1>14, MarksNext

-----------------------------------------------------------------------------
(* The commands and the world around them.                                 *)

\* A command has the whole scan before it.
LEMMA CommandsMark ==
  ASSUME Grounds, Observed, Commands
  PROVE  Marks'
<1> USE CommandLineAssumption
<1>1. PICK op \in Operations, n \in Names \cup {None}, x \in Projects \cup {None},
           origin \in Names \cup {None} : Command(op, n, x, origin)
  BY CommandsBegin DEF Grounds
<1>2. PICK v : v = Opening(op, n, x, origin)
  OBVIOUS
<1>3. work[Cli] = None /\ Continue(Cli, v) /\ UNCHANGED <<files, rows>>
  BY <1>1, <1>2, CommandOpens DEF disk
<1>4. v.pc = "looking" /\ v.todo = ScanOrder /\ v.assumed = "Unknown" /\ v.loaded = None
  BY <1>2 DEF Opening, Asked
<1>5. \A y \in Projects : ~Begins(y) /\ ~Restored(y) /\ ~Cleaned(y)
  BY <1>3 DEF Begins, Restored, Cleaned, Moves
<1>6. matches' \in [Projects -> SUBSET Files]
  BY <1>5 DEF Observed, TracksMatches
<1>7. \A m \in Names : Covered(m) => Covered(m)'
  BY <1>3, <1>5, StaysCovered DEF Grounds, Marks, Observed, Content
<1>8. Honest'
  BY <1>3, <1>7, ScannedNames DEF Grounds, Marks, Honest, Installed
<1>9. \A m \in Scanned : Waits(v, m)
  BY <1>4 DEF Scanned, Waits
<1>10. Vouches(v)'
  BY <1>4, <1>9 DEF Vouches
<1>11. v = work'[Cli]
  BY <1>3, Continues DEF Grounds
<1> QED BY <1>6, <1>8, <1>10, <1>11, MarksNext

LEMMA EndMarks ==
  ASSUME Grounds, Observed, EndCommand \/ Kill
  PROVE  Marks'
<1> USE CommandLineAssumption
<1>1. work'[Cli] = None /\ UNCHANGED rows
  BY DEF EndCommand, Kill, Exit, Grounds, TypeOK
<1>2. \A y \in Projects : ~Begins(y) /\ ~Restored(y) /\ ~Cleaned(y)
  BY <1>1 DEF Begins, Restored, Cleaned, Moves
<1>3. matches' \in [Projects -> SUBSET Files]
  BY <1>2 DEF Observed, TracksMatches
<1>4. UNCHANGED files \/ \E f : files' = [files EXCEPT ![f] = "Absent"]
  BY DEF EndCommand, Kill
<1>5. \A n \in Names : Content(n)' = Content(n) \/ Content(n)' = "Absent"
  BY <1>4, RegistryAssumption DEF Grounds, TypeOK, Content
<1>6. ASSUME NEW n \in Names, Covered(n) PROVE Covered(n)'
  <2>1. CASE Content(n)' = Content(n)
    BY <1>2, <1>6, <2>1, StaysCovered DEF Grounds, Marks, Observed
  <2>2. CASE Content(n)' = "Absent"
    BY <2>2, RegistryAssumption DEF Covered
  <2> QED BY <1>5, <2>1, <2>2
<1>7. Honest'
  BY <1>1, <1>6, ScannedNames DEF Grounds, Marks, Honest, Installed
<1> QED BY <1>1, <1>3, <1>7 DEF Marks

\* Between commands: what is deleted is not listed, what is copied is foreign.
LEMMA WorldMarks ==
  ASSUME Grounds, work[Cli] = None, NEW f \in Files,
         Deletes(f) \/ \E x \in Projects : Imports(f, x)
  PROVE  Marks'
<1>1. /\ UNCHANGED work /\ Lost(f)
      /\ \A n \in Names : Installed(n)' => Installed(n)
  <2>1. CASE Deletes(f)
    BY <2>1 DEF Deletes, Delete, DeleteFile, Installed
  <2>2. CASE \E x \in Projects : Imports(f, x)
    <3>1. Outdate(f) /\ UNCHANGED work /\ Lost(f)
      BY <2>2 DEF Imports, Import, ImportFile
    <3>2. \A row \in Row : [row EXCEPT !.fresh = FALSE].status = row.status
      BY DEF Row
    <3>3. rows \in [Names -> Row \cup {None}]
      BY DEF Grounds, TypeOK
    <3> QED BY <3>1, <3>2, <3>3 DEF Outdate, Installed
  <2> QED BY <2>1, <2>2
<1>2. matches' \in [Projects -> SUBSET Files]
  BY <1>1 DEF Grounds, Marks, Lost
<1>3. files \in [Files -> Projects \cup {"Absent", "Broken"}]
  BY DEF Grounds, TypeOK
<1>4. ASSUME NEW n \in Names, Covered(n) PROVE Covered(n)'
  <2>1. CASE FileOf[n] = f /\ Deletes(f)
    <3>1. Content(n)' = "Absent"
      BY <1>3, <2>1 DEF Deletes, Delete, DeleteFile, Content
    <3> QED BY <3>1, RegistryAssumption DEF Covered
  <2>2. CASE FileOf[n] = f /\ \E x \in Projects : Imports(f, x)
    <3>1. FileOf[n] \in foreign'
      BY <2>2 DEF Imports
    <3> QED BY <3>1 DEF Covered, Vouched
  <2>3. CASE FileOf[n] # f
    <3>1. Content(n)' = Content(n)
      BY <1>3, <2>3, RegistryAssumption
         DEF Deletes, Delete, DeleteFile, Imports, Import, ImportFile, Content
    <3>2. FileOf[n] \in foreign => FileOf[n] \in foreign'
      BY <2>3 DEF Deletes, Imports
    <3>3. Content(n) \in Projects => matches'[Content(n)] = matches[Content(n)] \ {f}
      BY <1>1 DEF Lost
    <3>4. damaged' = damaged
      BY <1>1 DEF Lost
    <3> QED BY <1>4, <2>3, <3>1, <3>2, <3>3, <3>4 DEF Covered, Vouched
  <2> QED BY <2>1, <2>2, <2>3
<1>5. Honest'
  BY <1>1, <1>4, ScannedNames DEF Grounds, Marks, Honest
<1>6. work'[Cli] = None
  BY <1>1
<1> QED BY <1>2, <1>5, <1>6 DEF Marks

LEMMA MarksStep ==
  ASSUME PlainNames, Grounds, [StatusNext]_statusVars
  PROVE  Marks'
<1>1. ASSUME CommandStep, Observed PROVE Marks'
  <2>1. CASE Commands
    BY <1>1, <2>1, CommandsMark
  <2>2. CASE EndCommand \/ Kill
    BY <1>1, <2>2, EndMarks
  <2>3. CASE ClientStep(Cli)
    BY <1>1, <2>3, HitMarks, NothingMarks, LoadsMarks, StoreMarks, PassingMarks, BackupMarks,
       FinishMarks, CreditMarks DEF ClientStep, Scans, Operates
  <2> QED BY <1>1, <2>1, <2>2, <2>3 DEF CommandStep, CommandRuns
<1>2. ASSUME work[Cli] = None, NEW f \in Files, Deletes(f) \/ \E x \in Projects : Imports(f, x)
      PROVE  Marks'
  BY <1>2, WorldMarks
<1>3. CASE UNCHANGED statusVars
  <2>1. Marks
    BY DEF Grounds
  <2> QED BY <1>3, <2>1 DEF statusVars, commandVars, Marks, Honest, Installed, Covered, Vouched,
             Content, Vouches, Waits, Describes
<1> QED BY <1>1, <1>2, <1>3 DEF StatusNext

\* "* = installed": what is marked is what the machine was last made from or saved
\* to, in any history of commands that end, fail or are killed.
THEOREM MarksAreHonest == PlainNames /\ StatusSpec => []MarkIsHonest
<1> DEFINE All == PlainNames /\ Inv /\ BackupIsSafe /\ Known /\ Marks
<1>1. PlainNames /\ StatusInit => All
  <2> SUFFICES ASSUME PlainNames, StatusInit PROVE All
    OBVIOUS
  <2>1. Init /\ work[Cli] = None
    BY CommandLineAssumption DEF StatusInit, CommandInit, Init
  <2>2. Marks
    BY <2>1, ScannedNames DEF StatusInit, Init, Marks, Honest, Installed
  <2> QED BY <2>1, <2>2, InvInit DEF BackupIsSafe, Known, FreshTells, Init
<1>2. All /\ [StatusNext]_statusVars => All'
  <2> SUFFICES ASSUME All, [StatusNext]_statusVars PROVE All'
    OBVIOUS
  <2>1. Grounds
    BY DEF Grounds, Inv, CommandTypeOK
  <2> QED BY <2>1, InvNext, SafeNext, KnownStep, MarksStep DEF PlainNames
<1>3. All => MarkIsHonest
  BY DEF Marks, Honest, Covered, Vouched, MarkIsHonest, Listed, Scanned
<1> HIDE DEF All
<1>4. PlainNames /\ StatusSpec => []All
  BY <1>1, <1>2, PTL DEF StatusSpec
<1> QED BY <1>3, <1>4, PTL

-----------------------------------------------------------------------------
(* At most one listed snapshot of a project is marked.  A restore unmarks  *)
(* every snapshot of its project before it marks one; a backup marks its   *)
(* own only if its list has none, and the list has all of them, because    *)
(* the scan before it has passed each name.                                *)

\* What OneInstalled wants of the names a scan meets.
Single ==
    \A m, n \in Scanned :
        (m # n /\ Content(m) \in Projects /\ Content(m) = Content(n) /\ Installed(m) /\ Installed(n))
            => m \in reused \/ n \in reused

\* What the scan before a backup has passed, and is marked, is in its list.
Sees(w) ==
    \A n \in Scanned :
        (Content(n) \in Projects /\ Installed(n)) =>
            SomeInstalled(lists[CliRegistry], Content(n)) \/ Waits(w, n)

\* The names that will hold a snapshot of the project when the backup has written it.
InTheWay(w, n) == Content(n) = w.of \/ FileOf[n] = TargetOf(w)

\* The target may be written: there is one mark among these names, at most, and
\* if there is one the list knows of it.
MayWrite(w) ==
    /\ \A n \in Scanned :
          (InTheWay(w, n) /\ Installed(n)) =>
              n \in reused \/ SomeInstalled(lists[CliRegistry], w.of)
    /\ \A m, n \in Scanned :
          (m # n /\ FileOf[n] = TargetOf(w) /\ InTheWay(w, m) /\ Installed(m) /\ Installed(n)) =>
              m \in reused \/ n \in reused

\* No other snapshot of the project is marked.
Alone(w) == \A n \in Scanned : (Content(n) = w.of /\ Installed(n)) => n \in reused

Claims(w) ==
    /\ (w.op = "backup" /\ ~w.ok /\ w.pc \in {"looking", "storing", "ready"}) => Sees(w)
    /\ (w.op = "backup" /\ w.pc = "executing") => MayWrite(w)
    /\ w.assumed = "Installed" => w.op = "backup" /\ w.ok /\ (w.todo # <<>> => Alone(w))
    /\ (w.loaded # None /\ rows[w.loaded.name] = None /\ w.loaded.status = "Installed") =>
            w.assumed = "Installed"
    /\ w.pc = "crediting" => \A n \in Scanned : Content(n) = w.of => ~Installed(n)

OneMark == Single /\ (work[Cli] # None => Claims(work[Cli]))

-----------------------------------------------------------------------------
(* What keeps the invariant.                                               *)

\* The invariant of the next state, from what is known of the command there.
LEMMA OneMarkNext ==
  ASSUME NEW v, v = work'[Cli], v # None => Claims(v)', Single'
  PROVE  OneMark'
BY DEF OneMark, Claims, Sees, MayWrite, Alone, Waits, InTheWay, TargetOf

LEMMA ReusedGrows ==
  ASSUME Observed
  PROVE  reused \subseteq reused'
BY DEF Observed, TracksReuse

\* No mark is added, and no marked name comes to hold another snapshot but one
\* that is known to be reused.
LEMMA SingleKept ==
  ASSUME Single, reused \subseteq reused',
         \A n \in Scanned : Installed(n)' =>
             Installed(n) /\ (Content(n)' = Content(n) \/ Content(n)' \notin Projects \/ n \in reused')
  PROVE  Single'
BY DEF Single

\* A list with one more entry has every mark it had, and the one of the entry.
LEMMA AdmitMarks ==
  ASSUME TypeOK, NEW e \in Entry, work[Cli] # None, work[Cli].reg = CliRegistry, Admit(Cli, e)
  PROVE  /\ \A x : SomeInstalled(lists[CliRegistry], x) => SomeInstalled(lists[CliRegistry], x)'
         /\ e.status = "Installed" => SomeInstalled(lists[CliRegistry], e.of)'
<1> DEFINE list == lists[CliRegistry]
<1>1. list \in Seq(Entry) /\ lists'[CliRegistry] = Append(list, e)
  BY CommandLineAssumption DEF TypeOK, Admit
<1>2. /\ \A i \in DOMAIN list : i \in DOMAIN Append(list, e) /\ Append(list, e)[i] = list[i]
      /\ Len(list) + 1 \in DOMAIN Append(list, e) /\ Append(list, e)[Len(list) + 1] = e
  BY <1>1
<1> QED BY <1>1, <1>2 DEF SomeInstalled

-----------------------------------------------------------------------------
(* The steps of a scan.                                                    *)

\* The head of the list has been dealt with.
LEMMA SeesOn ==
  ASSUME NEW w \in Work, w.todo # <<>>, Sees(w), NEW v, v.todo = Tail(w.todo),
         \A x : SomeInstalled(lists[CliRegistry], x) => SomeInstalled(lists[CliRegistry], x)',
         \A n \in Names :
             /\ Content(n)' = Content(n)
             /\ Installed(n)' => n = Head(w.todo) \/ Installed(n)
             /\ (n = Head(w.todo) /\ Content(n) \in Projects /\ Installed(n)') =>
                    SomeInstalled(lists[CliRegistry], Content(n))'
  PROVE  Sees(v)'
<1>1. w.todo \in Seq(Names)
  BY DEF Work
<1>2. ASSUME NEW n \in Scanned, Waits(w, n) PROVE n = Head(w.todo) \/ Waits(v, n)
  BY <1>1, <1>2, WaitsOn DEF Waits
<1>3. ASSUME NEW n \in Scanned, Content(n)' \in Projects, Installed(n)'
      PROVE  SomeInstalled(lists[CliRegistry], Content(n))' \/ Waits(v, n)
  <2>1. n \in Names /\ Content(n) \in Projects
    BY <1>3, ScannedNames
  <2>2. CASE n = Head(w.todo)
    BY <1>3, <2>1, <2>2
  <2>3. CASE n # Head(w.todo)
    <3>1. SomeInstalled(lists[CliRegistry], Content(n)) \/ Waits(w, n)
      BY <1>3, <2>1, <2>3 DEF Sees
    <3>2. PICK x : x = Content(n)
      OBVIOUS
    <3>3. SomeInstalled(lists[CliRegistry], x) => SomeInstalled(lists[CliRegistry], x)'
      OBVIOUS
    <3>4. Content(n)' = x
      BY <2>1, <3>2
    <3> QED BY <1>2, <2>3, <3>1, <3>2, <3>3, <3>4 DEF SomeInstalled
  <2> QED BY <2>2, <2>3
<1> QED BY <1>3 DEF Sees, Waits

\* A name is passed that adds no mark to the cache.
LEMMA PassesMark ==
  ASSUME Grounds, OneMark, Observed, work[Cli] # None, work[Cli].pc = "looking",
         work[Cli].todo # <<>>, UNCHANGED <<files, rows>>,
         \A x : SomeInstalled(lists[CliRegistry], x) => SomeInstalled(lists[CliRegistry], x)',
         NEW h, h = Head(work[Cli].todo),
         (Content(h) \in Projects /\ Installed(h)) => SomeInstalled(lists[CliRegistry], Content(h))',
         Continue(Cli, [work[Cli] EXCEPT !.todo = Tail(@)])
  PROVE  OneMark'
<1> USE CommandLineAssumption
<1> DEFINE w == work[Cli]
<1>1. PICK v : v = [w EXCEPT !.todo = Tail(@)]
  OBVIOUS
<1>2. w \in Work /\ Vouches(w) /\ Claims(w) /\ w.loaded = None
  BY WorkTyped DEF Grounds, Marks, OneMark, TypeOK
<1>3. /\ v.op = w.op /\ v.ok = w.ok /\ v.pc = "looking" /\ v.todo = Tail(w.todo)
      /\ v.assumed = w.assumed /\ v.loaded = None /\ v.of = w.of
  BY <1>1, <1>2 DEF Work
<1>4. v = work'[Cli]
  BY <1>1, Continues DEF Grounds
<1>5. Single'
  BY ReusedGrows, SingleKept DEF OneMark, Installed, Content
<1>6. ASSUME w.op = "backup", ~w.ok PROVE Sees(v)'
  <2>1. Sees(w)
    BY <1>2, <1>6 DEF Claims
  <2>2. \A n \in Names :
             /\ Content(n)' = Content(n)
             /\ Installed(n)' => n = Head(w.todo) \/ Installed(n)
             /\ (n = Head(w.todo) /\ Content(n) \in Projects /\ Installed(n)') =>
                    SomeInstalled(lists[CliRegistry], Content(n))'
    BY DEF Content, Installed
  <2> QED BY <1>2, <1>3, <2>1, <2>2, SeesOn
<1>7. w.assumed = "Installed" => w.op = "backup" /\ w.ok /\ Tail(w.todo) = <<>>
  BY <1>2 DEF Claims, Vouches
<1> HIDE DEF w
<1>8. Claims(v)'
  BY <1>3, <1>6, <1>7 DEF Claims
<1> QED BY <1>4, <1>5, <1>8, OneMarkNext

LEMMA HitIsOne ==
  ASSUME Grounds, OneMark, Observed, LookupHit(Cli)
  PROVE  OneMark'
<1> USE CommandLineAssumption
<1> DEFINE w == work[Cli]
<1>0. PICK n : n = Head(w.todo)
  OBVIOUS
<1>1. PICK e : e = [name |-> n, of |-> rows[n].of, status |-> rows[n].status]
  OBVIOUS
<1>2. /\ w # None /\ w.pc = "looking" /\ w.todo # <<>> /\ Fresh(n) /\ Admit(Cli, e)
      /\ UNCHANGED <<files, rows>> /\ Continue(Cli, [w EXCEPT !.todo = Tail(@)])
  BY <1>0, <1>1 DEF LookupHit, Looks, At, disk
<1>3. w \in Work /\ n \in Names /\ w.reg = CliRegistry
  BY <1>0, <1>2, WorkTyped DEF Grounds, Known, Knows
<1>4. rows[n] # None /\ rows[n] \in Row /\ rows[n].of = Content(n)
  BY <1>2, <1>3 DEF Grounds, TypeOK, Known, FreshTells, Fresh
<1>5. e \in Entry /\ e.of = Content(n) /\ e.status = rows[n].status
  BY <1>1, <1>3, <1>4 DEF Row, Entry
<1>6. /\ \A x : SomeInstalled(lists[CliRegistry], x) => SomeInstalled(lists[CliRegistry], x)'
      /\ e.status = "Installed" => SomeInstalled(lists[CliRegistry], e.of)'
  BY <1>2, <1>3, <1>5, AdmitMarks DEF Grounds
<1>7. (Content(n) \in Projects /\ Installed(n)) => SomeInstalled(lists[CliRegistry], Content(n))'
  <2>1. Content(n)' = e.of
    BY <1>2, <1>5 DEF Content
  <2> QED BY <1>5, <1>6, <2>1 DEF Installed, SomeInstalled
<1> QED BY <1>0, <1>2, <1>6, <1>7, PassesMark

LEMMA NothingIsOne ==
  ASSUME Grounds, OneMark, Observed, LookupNothing(Cli)
  PROVE  OneMark'
<1>1. /\ work[Cli] # None /\ work[Cli].pc = "looking" /\ work[Cli].todo # <<>>
      /\ Content(Head(work[Cli].todo)) \notin Projects
      /\ UNCHANGED <<files, rows, lists>>
      /\ Continue(Cli, [work[Cli] EXCEPT !.todo = Tail(@)])
  BY DEF LookupNothing, Looks, At, disk
<1>2. \A x : SomeInstalled(lists[CliRegistry], x) => SomeInstalled(lists[CliRegistry], x)'
  BY <1>1 DEF SomeInstalled
<1> QED BY <1>1, <1>2, PassesMark

\* Nothing that a command relies on has changed.
LEMMA StillSeen ==
  ASSUME UNCHANGED <<files, rows, lists>>, reused \subseteq reused',
         NEW w, NEW v, v.todo = w.todo, v.of = w.of
  PROVE  (Sees(w) => Sees(v)') /\ (Alone(w) => Alone(v)')
BY DEF Sees, Alone, Content, Installed, SomeInstalled, Waits

LEMMA LoadsIsOne ==
  ASSUME Grounds, OneMark, Observed, LookupLoads(Cli)
  PROVE  OneMark'
<1> USE CommandLineAssumption
<1> DEFINE w == work[Cli]
<1>0. PICK n : n = Head(w.todo)
  OBVIOUS
<1>1. PICK e : e = [name |-> n, of |-> Content(n), status |-> StatusFor(n, w.assumed)]
  OBVIOUS
<1>2. PICK v : v = [w EXCEPT !.pc = "storing", !.loaded = e]
  OBVIOUS
<1>3. w # None /\ w.pc = "looking" /\ Continue(Cli, v) /\ UNCHANGED <<files, rows, lists>>
  BY <1>0, <1>1, <1>2 DEF LookupLoads, Looks, At, disk
<1>4. w \in Work /\ Claims(w)
  BY <1>3, WorkTyped DEF Grounds, OneMark
<1>5. /\ v.op = w.op /\ v.ok = w.ok /\ v.of = w.of /\ v.todo = w.todo
      /\ v.assumed = w.assumed /\ v.pc = "storing" /\ v.loaded = e
  BY <1>2, <1>4 DEF Work
<1>6. reused \subseteq reused'
  BY ReusedGrows
<1>7. Single'
  BY <1>3, <1>6, SingleKept DEF OneMark, Installed, Content
<1>8. (Sees(w) => Sees(v)') /\ (Alone(w) => Alone(v)')
  BY <1>3, <1>5, <1>6, StillSeen
<1>9. (rows'[e.name] = None /\ e.status = "Installed") => w.assumed = "Installed"
  BY <1>1, <1>3 DEF StatusFor
<1> HIDE DEF w
<1>10. Claims(v)'
  <2>1. (v.op = "backup" /\ ~v.ok) => Sees(v)'
    BY <1>3, <1>4, <1>5, <1>8 DEF Claims, w
  <2>2. v.assumed = "Installed" => v.op = "backup" /\ v.ok /\ (v.todo # <<>> => Alone(v)')
    BY <1>4, <1>5, <1>8 DEF Claims
  <2> QED BY <1>5, <1>9, <2>1, <2>2 DEF Claims
<1>11. v = work'[Cli]
  BY <1>3, Continues DEF Grounds
<1> QED BY <1>7, <1>10, <1>11, OneMarkNext

\* What is written has the status of its row.  Only the snapshot of a backup gets a
\* mark without having had one, and then no other has one.
LEMMA StoreIsOne ==
  ASSUME Grounds, OneMark, Observed, Store(Cli)
  PROVE  OneMark'
<1> USE CommandLineAssumption
<1> DEFINE w == work[Cli]
<1>1. PICK e : e = w.loaded
  OBVIOUS
<1>2. PICK v : v = [w EXCEPT !.pc = "looking", !.loaded = None, !.todo = Tail(@)]
  OBVIOUS
<1>3. PICK row : row = [of |-> e.of, fresh |-> Content(e.name) = e.of, status |-> e.status]
  OBVIOUS
<1>4. /\ w # None /\ w.pc = "storing" /\ e # None /\ UNCHANGED files /\ Admit(Cli, e)
      /\ Continue(Cli, v) /\ rows' = [rows EXCEPT ![e.name] = row]
  BY <1>1, <1>2, <1>3 DEF Store, At, Grounds, TypeOK
<1>5. w \in Work /\ e \in Entry /\ Knows(w) /\ Vouches(w) /\ Claims(w)
  BY <1>1, <1>4, WorkTyped DEF Grounds, Known, Marks, OneMark
<1>6. /\ e.name \in Names /\ LoadedTells(e) /\ e.name = Head(w.todo) /\ w.todo # <<>>
      /\ w.reg = CliRegistry
  BY <1>1, <1>4, <1>5 DEF Knows, Vouches, Entry
<1>7. /\ v.op = w.op /\ v.ok = w.ok /\ v.pc = "looking" /\ v.todo = Tail(w.todo)
      /\ v.assumed = w.assumed /\ v.loaded = None
  BY <1>2, <1>5 DEF Work
<1>8. row.status = e.status /\ row # None
  <2>1. row \in Row /\ row.status = e.status
    BY <1>3, <1>5 DEF Entry, Row
  <2> QED BY <2>1, NoneAssumption
<1>9. \A m \in Names : rows'[m] = IF m = e.name THEN row ELSE rows[m]
  BY <1>4, <1>6 DEF Grounds, TypeOK
<1>10. reused \subseteq reused'
  BY ReusedGrows
<1>11. \A m \in Names : /\ Content(m)' = Content(m)
                        /\ m # e.name => (Installed(m)' <=> Installed(m))
                        /\ m = e.name => (Installed(m)' <=> e.status = "Installed")
  BY <1>4, <1>8, <1>9 DEF Content, Installed
<1>12. Single'
  <2>1. CASE rows[e.name] = None /\ e.status = "Installed"
    <3>1. w.op = "backup" /\ w.ok /\ Alone(w)
      BY <1>1, <1>4, <1>5, <1>6, <2>1 DEF Claims
    <3>2. w.name = e.name
      BY <1>1, <1>4, <1>5, <1>6, <2>1 DEF Claims, Vouches
    <3>3. Content(e.name) = w.of
      BY <1>4, <3>1, <3>2 DEF Grounds, BackupIsSafe, Safe, TargetOf, Content
    <3>4. \A m \in Scanned : (m # e.name /\ Content(m) = Content(e.name) /\ Installed(m)') => m \in reused'
      BY <1>10, <1>11, <3>1, <3>3, ScannedNames DEF Alone
    <3>5. \A m, n \in Scanned :
             (m # n /\ m # e.name /\ n # e.name /\ Content(m)' \in Projects
                /\ Content(m)' = Content(n)' /\ Installed(m)' /\ Installed(n)')
                 => m \in reused' \/ n \in reused'
      BY <1>10, <1>11, ScannedNames DEF OneMark, Single
    <3> QED BY <1>6, <1>11, <3>4, <3>5, ScannedNames DEF Single
  <2>2. CASE ~(rows[e.name] = None /\ e.status = "Installed")
    <3>1. Installed(e.name)' => Installed(e.name)
      BY <1>6, <1>11, <2>2 DEF LoadedTells, Installed
    <3>2. \A m \in Names : Installed(m)' => Installed(m)
      BY <1>11, <3>1
    <3> QED BY <1>10, <1>11, <3>2, ScannedNames, SingleKept DEF OneMark
  <2> QED BY <2>1, <2>2
<1>13. ASSUME w.op = "backup", ~w.ok PROVE Sees(v)'
  <2>1. Sees(w)
    BY <1>4, <1>5, <1>13 DEF Claims
  <2>2. /\ \A x : SomeInstalled(lists[CliRegistry], x) => SomeInstalled(lists[CliRegistry], x)'
        /\ e.status = "Installed" => SomeInstalled(lists[CliRegistry], e.of)'
    BY <1>4, <1>5, <1>6, AdmitMarks DEF Grounds
  <2>3. \A m \in Names :
           /\ Content(m)' = Content(m)
           /\ Installed(m)' => m = Head(w.todo) \/ Installed(m)
           /\ (m = Head(w.todo) /\ Content(m) \in Projects /\ Installed(m)') =>
                  SomeInstalled(lists[CliRegistry], Content(m))'
    BY <1>6, <1>11, <2>2 DEF LoadedTells, SomeInstalled
  <2> QED BY <1>5, <1>6, <1>7, <2>1, <2>2, <2>3, SeesOn
<1>14. w.assumed = "Installed" => w.op = "backup" /\ w.ok /\ Tail(w.todo) = <<>>
  BY <1>5, <1>6 DEF Claims, Vouches
<1> HIDE DEF w
<1>15. Claims(v)'
  BY <1>7, <1>13, <1>14 DEF Claims
<1>16. v = work'[Cli]
  BY <1>4, Continues DEF Grounds
<1> QED BY <1>12, <1>15, <1>16, OneMarkNext

-----------------------------------------------------------------------------
(* The steps between scans.                                                *)

\* A mark is assumed only after a backup has succeeded.
LEMMA NothingAssumed ==
  ASSUME Grounds, OneMark, work[Cli] # None, work[Cli].pc \in {"ready", "executing", "crediting"}
  PROVE  work[Cli].assumed # "Installed"
BY DEF Grounds, OneMark, Claims, BackupIsSafe, Safe

\* A command that ends, or changes the machine, relies on nothing.
LEMMA Idles ==
  ASSUME NEW v, v.loaded = None, v.assumed # "Installed",
         v.pc = "done" \/ (v.pc = "executing" /\ v.op # "backup")
  PROVE  Claims(v)'
BY DEF Claims

LEMMA PassingIsOne ==
  ASSUME Grounds, OneMark, Observed,
         LookupEnds(Cli) \/ FailEarly(Cli) \/ BeginChange(Cli) \/ FailChange(Cli)
  PROVE  OneMark'
<1> USE CommandLineAssumption
<1> DEFINE w == work[Cli]
<1>1. /\ w # None /\ UNCHANGED <<files, rows, lists>>
      /\ w.pc \in {"looking", "ready", "executing"}
  BY DEF LookupEnds, FailEarly, BeginChange, FailChange, Starts, Executes, At, disk
<1>2. w \in Work /\ Claims(w) /\ w.loaded = None
  BY <1>1, WorkTyped DEF Grounds, TypeOK, OneMark
<1>3. reused \subseteq reused'
  BY ReusedGrows
<1>4. Single'
  BY <1>1, <1>3, SingleKept DEF OneMark, Installed, Content
<1>5. ASSUME LookupEnds(Cli) PROVE OneMark'
  <2>1. PICK pc : pc = IF w.ok THEN "done" ELSE "ready"
    OBVIOUS
  <2>2. PICK v : v = [w EXCEPT !.pc = pc]
    OBVIOUS
  <2>3. /\ v.pc = pc /\ v.todo = w.todo /\ v.loaded = None /\ v.op = w.op /\ v.of = w.of
        /\ v.ok = w.ok /\ v.assumed = w.assumed
    BY <1>2, <2>2 DEF Work
  <2>4. v = work'[Cli] /\ w.pc = "looking" /\ w.todo = <<>>
    BY <1>5, <2>1, <2>2, Continues DEF LookupEnds, At, Grounds
  <2>5. Sees(w) => Sees(v)'
    BY <1>1, <1>3, <2>3, StillSeen
  <2>6. (v.op = "backup" /\ ~v.ok) => Sees(v)'
    BY <1>2, <2>3, <2>4, <2>5 DEF Claims
  <2>7. v.assumed = "Installed" => v.op = "backup" /\ v.ok
    BY <1>2, <2>3 DEF Claims
  <2> HIDE DEF w
  <2>8. Claims(v)'
    BY <2>1, <2>3, <2>4, <2>6, <2>7 DEF Claims
  <2> QED BY <1>4, <2>4, <2>8, OneMarkNext
<1>6. ASSUME BeginChange(Cli) PROVE OneMark'
  <2>1. PICK v : v = [w EXCEPT !.pc = "executing"]
    OBVIOUS
  <2>2. w.pc = "ready" /\ w.op # "backup" /\ v = work'[Cli]
    BY <1>6, <2>1, Continues DEF BeginChange, Starts, At, Grounds
  <2>3. v.pc = "executing" /\ v.op # "backup" /\ v.loaded = None /\ v.assumed # "Installed"
    BY <1>1, <1>2, <2>1, <2>2, NothingAssumed DEF Work
  <2> QED BY <1>4, <2>2, <2>3, Idles, OneMarkNext
<1>7. ASSUME FailEarly(Cli) \/ FailChange(Cli) PROVE OneMark'
  <2>1. PICK v : v = [w EXCEPT !.pc = "done", !.ok = FALSE]
    OBVIOUS
  <2>2. w.pc \in {"ready", "executing"} /\ v = work'[Cli]
    BY <1>7, <2>1, Continues DEF FailEarly, FailChange, Ends, Executes, At, Grounds
  <2>3. v.pc = "done" /\ v.loaded = None /\ v.assumed # "Installed"
    BY <1>1, <1>2, <2>1, <2>2, NothingAssumed DEF Work
  <2> QED BY <1>4, <2>2, <2>3, Idles, OneMarkNext
<1> QED BY <1>5, <1>6, <1>7

\* The archive has been written: of the names that hold the project now one is
\* marked, unless one was marked for something else.
LEMMA WrittenIsOne ==
  ASSUME TypeOK, Single, reused \subseteq reused', NEW w, MayWrite(w), w.of \in Projects,
         TargetOf(w) \in Files, files' = [files EXCEPT ![TargetOf(w)] = w.of],
         \A n \in Scanned : Installed(n)' => Installed(n)
  PROVE  Single'
<1>1. \A n \in Names : Content(n)' = IF FileOf[n] = TargetOf(w) THEN w.of ELSE Content(n)
  BY RegistryAssumption DEF TypeOK, Content
<1>2. ASSUME NEW m \in Scanned, NEW n \in Scanned, m # n, FileOf[n] = TargetOf(w),
             Content(m)' = Content(n)', Installed(m)', Installed(n)'
      PROVE  m \in reused' \/ n \in reused'
  <2>1. InTheWay(w, m)
    BY <1>1, <1>2, ScannedNames DEF InTheWay
  <2>2. Installed(m) /\ Installed(n)
    BY <1>2
  <2> QED BY <1>2, <2>1, <2>2 DEF MayWrite
<1>3. ASSUME NEW m \in Scanned, NEW n \in Scanned, m # n,
             FileOf[m] # TargetOf(w), FileOf[n] # TargetOf(w), Content(m)' \in Projects,
             Content(m)' = Content(n)', Installed(m)', Installed(n)'
      PROVE  m \in reused' \/ n \in reused'
  <2>1. Content(m)' = Content(m) /\ Content(n)' = Content(n)
    BY <1>1, <1>3, ScannedNames
  <2> QED BY <1>3, <2>1 DEF Single
<1> QED BY <1>2, <1>3 DEF Single

\* Breaking the target makes room: what was marked there for another project counts
\* as reused from now on, and what is marked of this one has been seen by the scan.
LEMMA BeginsToWrite ==
  ASSUME Grounds, OneMark, Observed, BeginBackup(Cli)
  PROVE  OneMark'
<1> USE CommandLineAssumption
<1> DEFINE w == work[Cli]
<1>1. PICK v : v = [w EXCEPT !.pc = "executing"]
  OBVIOUS
<1>2. PICK t, x : t = TargetOf(w) /\ x = w.of
  OBVIOUS
<1>3. /\ w # None /\ w.op = "backup" /\ w.pc = "ready" /\ Continue(Cli, v)
      /\ files' = [files EXCEPT ![t] = "Broken"] /\ Outdate(t) /\ UNCHANGED lists
  BY <1>1, <1>2 DEF BeginBackup, Starts, At, TargetOf
<1>4. /\ w \in Work /\ w.loaded = None /\ w.todo = <<>> /\ x \in Projects /\ t \in Files
      /\ Claims(w)
  BY <1>2, <1>3, WorkTyped, RegistryAssumption
     DEF Grounds, Marks, Vouches, TypeOK, Shaped, Shape, OneMark, TargetOf
<1>5. /\ v.pc = "executing" /\ v.op = "backup" /\ v.loaded = None /\ v.of = x /\ v.name = w.name
      /\ v.assumed # "Installed" /\ v # None
  <2>1. v \in Work
    BY <1>1, <1>4 DEF Work
  <2> QED BY <1>1, <1>2, <1>3, <1>4, <2>1, NothingAssumed, NoneAssumption DEF Work
<1>6. v = work'[Cli]
  BY <1>3, Continues DEF Grounds
<1>7. \A n \in Names : Installed(n)' <=> Installed(n)
  <2>1. \A n \in Names : rows'[n] = IF rows[n] # None /\ FileOf[n] = t
                                    THEN [rows[n] EXCEPT !.fresh = FALSE] ELSE rows[n]
    BY <1>3 DEF Outdate
  <2>2. \A n \in Names : rows[n] # None => rows[n] \in Row
    BY DEF Grounds, TypeOK
  <2>3. \A row \in Row : LET r == [row EXCEPT !.fresh = FALSE] IN
                            r \in Row /\ r.status = row.status
    BY DEF Row
  <2>4. \A row \in Row : row # None
    BY NoneAssumption
  <2> QED BY <2>1, <2>2, <2>3, <2>4 DEF Installed
<1>8. \A n \in Names : Content(n)' = IF FileOf[n] = t THEN "Broken" ELSE Content(n)
  BY <1>3, <1>4, RegistryAssumption DEF Grounds, TypeOK, Content
<1>9. reused \subseteq reused'
  BY ReusedGrows
<1>10. ASSUME files[t] # x, NEW n \in Names, FileOf[n] = t, Installed(n) PROVE n \in reused'
  <2>1. Moves("backup", "ready", "executing")
    BY <1>3, <1>5, <1>6 DEF Moves
  <2>2. Target = t /\ ~Of(files[t])
    BY <1>2, <1>10 DEF Target, TargetOf, Of
  <2> QED BY <1>10, <2>1, <2>2 DEF Observed, TracksReuse
<1>11. Single'
  <2>1. "Broken" \notin Projects
    BY RegistryAssumption
  <2> QED BY <1>7, <1>8, <1>9, <2>1, ScannedNames, SingleKept DEF OneMark
<1>12. \A n \in Scanned : (Content(n) = x /\ Installed(n)) => SomeInstalled(lists[CliRegistry], x)'
  <2>1. ~w.ok
    BY <1>3 DEF Grounds, BackupIsSafe, Safe
  <2>2. Sees(w)
    BY <1>3, <1>4, <2>1 DEF Claims
  <2>3. \A n \in Scanned : ~Waits(w, n)
    BY <1>4 DEF Waits
  <2>4. SomeInstalled(lists[CliRegistry], x)' <=> SomeInstalled(lists[CliRegistry], x)
    BY <1>3 DEF SomeInstalled
  <2> QED BY <1>4, <2>2, <2>3, <2>4 DEF Sees
<1>13. TargetOf(v) = t /\ \A n \in Names : InTheWay(v, n)' => Content(n) = x \/ FileOf[n] = t
  BY <1>2, <1>5, <1>8 DEF TargetOf, InTheWay
<1>14. \A n \in Names : FileOf[n] = t => Content(n) = files[t]
  BY DEF Content
<1>15. ASSUME NEW n \in Scanned, InTheWay(v, n)', Installed(n)'
       PROVE  n \in reused' \/ SomeInstalled(lists[CliRegistry], v.of)'
  <2>1. n \in Names /\ Installed(n) /\ (Content(n) = x \/ FileOf[n] = t)
    BY <1>7, <1>13, <1>15, ScannedNames
  <2>2. n \in reused' \/ Content(n) = x
    BY <1>10, <1>14, <2>1
  <2> QED BY <1>5, <1>12, <2>1, <2>2
<1>16. ASSUME NEW m \in Scanned, NEW n \in Scanned, m # n, FileOf[n] = t,
              InTheWay(v, m)', Installed(m)', Installed(n)'
       PROVE  m \in reused' \/ n \in reused'
  <2>1. /\ m \in Names /\ Installed(m) /\ (Content(m) = x \/ FileOf[m] = t)
        /\ n \in Names /\ Installed(n) /\ Content(n) = files[t]
    BY <1>7, <1>13, <1>14, <1>16, ScannedNames
  <2>2. CASE files[t] # x
    BY <1>10, <1>16, <2>1, <2>2
  <2>3. CASE files[t] = x
    <3>1. Content(m) = x /\ Content(n) = x
      BY <1>14, <2>1, <2>3
    <3> QED BY <1>4, <1>9, <1>16, <2>1, <3>1 DEF OneMark, Single
  <2> QED BY <2>2, <2>3
<1>17. MayWrite(v)'
  BY <1>13, <1>15, <1>16 DEF MayWrite, TargetOf
<1>18. Claims(v)'
  BY <1>5, <1>17 DEF Claims
<1> QED BY <1>6, <1>11, <1>18, OneMarkNext

\* The backup succeeds or fails.  Its snapshot will be marked only if no other is.
LEMMA WritesOne ==
  ASSUME Grounds, OneMark, Observed, FailBackup(Cli) \/ FinishBackup(Cli)
  PROVE  OneMark'
<1> USE CommandLineAssumption
<1> DEFINE w == work[Cli]
<1>1. PICK u : u = w
  OBVIOUS
<1>2. /\ u # None /\ u.op = "backup" /\ u.pc = "executing" /\ UNCHANGED lists
      /\ UNCHANGED disk \/ WriteArchive(Cli)
  BY <1>1 DEF FailBackup, FinishBackup, Executes, At
<1>3. /\ u \in Work /\ u.loaded = None /\ u.of \in Projects /\ TargetOf(u) \in Files
      /\ MayWrite(u) /\ u.reg = CliRegistry /\ u.assumed # "Installed"
  BY <1>1, <1>2, WorkTyped, NothingAssumed, RegistryAssumption
     DEF Grounds, TypeOK, Shaped, Shape, OneMark, Claims, TargetOf, Known, Knows
<1>4. \A n \in Names : Installed(n)' => Installed(n)
  <2>1. \A row \in Row : [row EXCEPT !.fresh = FALSE].status = row.status
    BY DEF Row
  <2>2. rows \in [Names -> Row \cup {None}]
    BY DEF Grounds, TypeOK
  <2> QED BY <1>2, <2>1, <2>2 DEF disk, WriteArchive, Outdate, Installed
<1>5. reused \subseteq reused'
  BY ReusedGrows
<1>6. WriteArchive(Cli) => files' = [files EXCEPT ![TargetOf(u)] = u.of]
  BY <1>1 DEF WriteArchive, TargetOf
<1>7. Single'
  <2>1. CASE UNCHANGED disk
    BY <1>4, <1>5, <2>1, ScannedNames, SingleKept DEF OneMark, Content, disk
  <2>2. CASE WriteArchive(Cli)
    BY <1>3, <1>4, <1>5, <1>6, <2>2, ScannedNames, WrittenIsOne DEF OneMark, Grounds
  <2> QED BY <1>2, <2>1, <2>2
<1>8. ASSUME FailBackup(Cli) PROVE OneMark'
  <2>1. PICK v : v = [u EXCEPT !.pc = "done", !.ok = FALSE]
    OBVIOUS
  <2>2. v = work'[Cli]
    BY <1>1, <1>8, <2>1, Continues DEF FailBackup, Ends, Grounds
  <2>3. v.pc = "done" /\ v.loaded = None /\ v.assumed # "Installed"
    BY <1>3, <2>1 DEF Work
  <2> QED BY <1>7, <2>2, <2>3, Idles, OneMarkNext
<1>9. ASSUME FinishBackup(Cli) PROVE OneMark'
  <2>1. PICK s : s = IF SomeInstalled(lists[CliRegistry], u.of) THEN "NotInstalled" ELSE "Installed"
    OBVIOUS
  <2>2. PICK v : v = [u EXCEPT !.pc = "looking", !.ok = TRUE, !.todo = <<u.name>>, !.assumed = s]
    OBVIOUS
  <2>3. v = work'[Cli]
    BY <1>1, <1>3, <1>9, <2>1, <2>2, Continues DEF FinishBackup, Grounds
  <2>4. /\ v.op = "backup" /\ v.ok /\ v.pc = "looking" /\ v.loaded = None /\ v.of = u.of
        /\ v.assumed = s
    BY <1>2, <1>3, <2>2 DEF Work
  <2>5. ASSUME s = "Installed" PROVE Alone(v)'
    <3>1. ~SomeInstalled(lists[CliRegistry], u.of)
      BY <2>1, <2>5
    <3>2. \A n \in Names : Content(n)' = u.of => InTheWay(u, n)
      BY <1>3, <1>6, <1>9, RegistryAssumption
         DEF FinishBackup, Grounds, TypeOK, Content, InTheWay
    <3> QED BY <1>3, <1>4, <1>5, <2>4, <3>1, <3>2, ScannedNames DEF MayWrite, Alone
  <2>6. Claims(v)'
    BY <2>4, <2>5 DEF Claims
  <2> QED BY <1>7, <2>3, <2>6, OneMarkNext
<1> QED BY <1>8, <1>9

\* A restore or a clean that succeeds leaves no mark of its project.
LEMMA FinishIsOne ==
  ASSUME PlainNames, Grounds, OneMark, Observed, FinishRestore(Cli) \/ FinishClean(Cli)
  PROVE  OneMark'
<1> USE CommandLineAssumption
<1>1. PICK u : u = work[Cli]
  OBVIOUS
<1>2. /\ u # None /\ u.op \in {"restore", "clean"} /\ u.pc = "executing" /\ UNCHANGED files
  BY <1>1 DEF FinishRestore, FinishClean, Executes, At
<1>3. u \in Work /\ u.loaded = None /\ u.assumed # "Installed"
  BY <1>1, <1>2, WorkTyped, NothingAssumed DEF Grounds, TypeOK
<1>4. /\ \A n \in Names : Installed(n)' => Installed(n)
      /\ \A n \in Scanned : Content(n) = u.of => ~Installed(n)'
  BY <1>1, FinishUnmarks
<1>5. Single'
  BY <1>2, <1>4, ReusedGrows, ScannedNames, SingleKept DEF OneMark, Content
<1>6. PICK v : v = IF FinishClean(Cli) THEN [u EXCEPT !.pc = "done", !.ok = TRUE]
                                       ELSE [u EXCEPT !.pc = "crediting"]
  OBVIOUS
<1>7. /\ v.pc \in {"done", "crediting"} /\ v.loaded = None /\ v.assumed # "Installed"
      /\ v.of = u.of
  BY <1>3, <1>6 DEF Work
<1>8. v = work'[Cli]
  BY <1>1, <1>6, Continues DEF FinishRestore, FinishClean, Ends, Grounds
<1>9. Claims(v)'
  BY <1>2, <1>4, <1>7 DEF Claims, Content
<1> QED BY <1>5, <1>8, <1>9, OneMarkNext

\* Then one is marked.
LEMMA CreditIsOne ==
  ASSUME Grounds, OneMark, Observed, Credit(Cli)
  PROVE  OneMark'
<1> USE CommandLineAssumption
<1>1. PICK u : u = work[Cli]
  OBVIOUS
<1>2. u # None /\ u.pc = "crediting" /\ UNCHANGED files /\ Ends(Cli, TRUE)
  BY <1>1 DEF Credit, At
<1>3. /\ u \in Work /\ u.loaded = None /\ u.assumed # "Installed" /\ u.op = "restore"
      /\ u.name \in Names /\ Content(u.name) = u.of /\ Claims(u)
  BY <1>1, <1>2, WorkTyped, NothingAssumed
     DEF Grounds, TypeOK, Shaped, Shape, Known, Knows, RestoreTells, OneMark
<1>4. \A n \in Names : n # u.name => (Installed(n)' <=> Installed(n))
  <2>1. rows' = rows \/ rows' = [rows EXCEPT ![u.name].status = "Installed"]
    BY <1>1 DEF Credit
  <2> QED BY <1>3, <2>1 DEF Grounds, TypeOK, Installed
<1>5. \A n \in Scanned : Content(n) = u.of => ~Installed(n)
  BY <1>2, <1>3 DEF Claims
<1>6. \A n \in Names : Content(n)' = Content(n)
  BY <1>2 DEF Content
<1>7. reused \subseteq reused'
  BY ReusedGrows
<1>8. Single'
  <2>1. ASSUME NEW m \in Scanned, NEW n \in Scanned, m # n, Content(m)' \in Projects,
               Content(m)' = Content(n)', Installed(m)', Installed(n)'
        PROVE  m \in reused' \/ n \in reused'
    <3>1. m \in Names /\ n \in Names /\ Content(m) = Content(n) /\ Content(m) \in Projects
      BY <1>6, <2>1, ScannedNames
    <3>2. m # u.name /\ n # u.name
      BY <1>3, <1>4, <1>5, <2>1, <3>1
    <3>3. Installed(m) /\ Installed(n)
      BY <1>4, <2>1, <3>1, <3>2
    <3> QED BY <1>7, <2>1, <3>1, <3>3 DEF OneMark, Single
  <2> QED BY <2>1 DEF Single
<1>9. PICK v : v = [u EXCEPT !.pc = "done", !.ok = TRUE]
  OBVIOUS
<1>10. v = work'[Cli]
  BY <1>1, <1>2, <1>9, Continues DEF Ends, Grounds
<1>11. v.pc = "done" /\ v.loaded = None /\ v.assumed # "Installed"
  BY <1>3, <1>9 DEF Work
<1> QED BY <1>8, <1>10, <1>11, Idles, OneMarkNext

-----------------------------------------------------------------------------
(* The commands and the world around them.                                 *)

\* A command has the whole scan before it.
LEMMA CommandsOne ==
  ASSUME Grounds, OneMark, Observed, Commands
  PROVE  OneMark'
<1> USE CommandLineAssumption
<1>1. PICK op \in Operations, n \in Names \cup {None}, x \in Projects \cup {None},
           origin \in Names \cup {None} : Command(op, n, x, origin)
  BY CommandsBegin DEF Grounds
<1>2. PICK v : v = Opening(op, n, x, origin)
  OBVIOUS
<1>3. Continue(Cli, v) /\ UNCHANGED <<files, rows>>
  BY <1>1, <1>2, CommandOpens DEF disk
<1>4. v.pc = "looking" /\ v.todo = ScanOrder /\ v.assumed = "Unknown" /\ v.loaded = None
  BY <1>2 DEF Opening, Asked
<1>5. Single'
  BY <1>3, ReusedGrows, SingleKept DEF OneMark, Installed, Content
<1>6. Sees(v)'
  BY <1>4 DEF Sees, Scanned, Waits
<1>7. Claims(v)'
  BY <1>4, <1>6 DEF Claims
<1>8. v = work'[Cli]
  BY <1>3, Continues DEF Grounds
<1> QED BY <1>5, <1>7, <1>8, OneMarkNext

LEMMA EndIsOne ==
  ASSUME Grounds, OneMark, Observed, EndCommand \/ Kill
  PROVE  OneMark'
<1> USE CommandLineAssumption
<1>1. work'[Cli] = None /\ UNCHANGED rows
  BY DEF EndCommand, Kill, Exit, Grounds, TypeOK
<1>2. UNCHANGED files \/ \E f : files' = [files EXCEPT ![f] = "Absent"]
  BY DEF EndCommand, Kill
<1>3. \A n \in Names : Content(n)' = Content(n) \/ Content(n)' \notin Projects
  BY <1>2, RegistryAssumption DEF Grounds, TypeOK, Content
<1>4. Single'
  BY <1>1, <1>3, ReusedGrows, ScannedNames, SingleKept DEF OneMark, Installed
<1> QED BY <1>1, <1>4 DEF OneMark

\* A copy over a marked snapshot of another project makes its name a reused one.
LEMMA WorldIsOne ==
  ASSUME Grounds, OneMark, work[Cli] = None, NEW f \in Files,
         Deletes(f) \/ \E x \in Projects : Imports(f, x)
  PROVE  OneMark'
<1>1. files \in [Files -> Projects \cup {"Absent", "Broken"}] /\ rows \in [Names -> Row \cup {None}]
  BY DEF Grounds, TypeOK
<1>2. CASE Deletes(f)
  <2>1. /\ UNCHANGED <<rows, work, reused>> /\ files' = [files EXCEPT ![f] = "Absent"]
    BY <1>2 DEF Deletes, Delete, DeleteFile
  <2>2. \A n \in Names : Content(n)' = Content(n) \/ Content(n)' \notin Projects
    BY <1>1, <2>1, RegistryAssumption DEF Content
  <2>3. Single'
    BY <2>1, <2>2, ScannedNames, SingleKept DEF OneMark, Installed
  <2> QED BY <2>1, <2>3 DEF OneMark
<1>3. ASSUME NEW x \in Projects, Imports(f, x) PROVE OneMark'
  <2>1. /\ UNCHANGED work /\ files' = [files EXCEPT ![f] = x] /\ Outdate(f)
        /\ reused' = reused \cup {n \in Names : FileOf[n] = f /\ Installed(n) /\ files[f] # x}
    BY <1>3 DEF Imports, Import, ImportFile
  <2>2. \A n \in Names : Installed(n)' => Installed(n)
    <3>1. \A row \in Row : [row EXCEPT !.fresh = FALSE].status = row.status
      BY DEF Row
    <3> QED BY <1>1, <2>1, <3>1 DEF Outdate, Installed
  <2>3. \A n \in Names : Installed(n) => Content(n)' = Content(n) \/ n \in reused'
    BY <1>1, <2>1, RegistryAssumption DEF Content
  <2>4. Single'
    BY <2>1, <2>2, <2>3, ScannedNames, SingleKept DEF OneMark
  <2> QED BY <2>1, <2>4 DEF OneMark
<1> QED BY <1>2, <1>3

LEMMA OneMarkStep ==
  ASSUME PlainNames, Grounds, OneMark, [StatusNext]_statusVars
  PROVE  OneMark'
<1>1. ASSUME CommandStep, Observed PROVE OneMark'
  <2>1. CASE Commands
    BY <1>1, <2>1, CommandsOne
  <2>2. CASE EndCommand \/ Kill
    BY <1>1, <2>2, EndIsOne
  <2>3. CASE ClientStep(Cli)
    BY <1>1, <2>3, HitIsOne, NothingIsOne, LoadsIsOne, StoreIsOne, PassingIsOne, BeginsToWrite,
       WritesOne, FinishIsOne, CreditIsOne DEF ClientStep, Scans, Operates
  <2> QED BY <1>1, <2>1, <2>2, <2>3 DEF CommandStep, CommandRuns
<1>2. ASSUME work[Cli] = None, NEW f \in Files, Deletes(f) \/ \E x \in Projects : Imports(f, x)
      PROVE  OneMark'
  BY <1>2, WorldIsOne
<1>3. CASE UNCHANGED statusVars
  BY <1>3 DEF statusVars, commandVars, OneMark, Single, Claims, Sees, MayWrite, Alone, InTheWay,
              TargetOf, Installed, Content, SomeInstalled, Waits
<1> QED BY <1>1, <1>2, <1>3 DEF StatusNext

\* At most one listed snapshot of a project is marked, in any history of commands
\* that end, fail or are killed.
THEOREM OneIsMarked == PlainNames /\ StatusSpec => []OneInstalled
<1> DEFINE All == PlainNames /\ Inv /\ BackupIsSafe /\ Known /\ Marks /\ OneMark
<1>1. PlainNames /\ StatusInit => All
  <2> SUFFICES ASSUME PlainNames, StatusInit PROVE All
    OBVIOUS
  <2>1. Init /\ work[Cli] = None
    BY CommandLineAssumption DEF StatusInit, CommandInit, Init
  <2>2. Marks /\ OneMark
    BY <2>1, ScannedNames
       DEF StatusInit, Init, Marks, Honest, OneMark, Single, Installed
  <2> QED BY <2>1, <2>2, InvInit DEF BackupIsSafe, Known, FreshTells, Init
<1>2. All /\ [StatusNext]_statusVars => All'
  <2> SUFFICES ASSUME All, [StatusNext]_statusVars PROVE All'
    OBVIOUS
  <2>1. Grounds
    BY DEF Grounds, Inv, CommandTypeOK
  <2> QED BY <2>1, InvNext, SafeNext, KnownStep, MarksStep, OneMarkStep DEF PlainNames
<1>3. All => OneInstalled
  BY DEF OneMark, Single, OneInstalled, Listed, Scanned
<1> HIDE DEF All
<1>4. PlainNames /\ StatusSpec => []All
  BY <1>1, <1>2, PTL DEF StatusSpec
<1> QED BY <1>3, <1>4, PTL
=============================================================================
