------------------------- MODULE CommandLineProofs -------------------------
(***************************************************************************)
(* What the proofs about the registry share: every step of a client and    *)
(* every command keeps the types, whoever else runs beside it.             *)
(***************************************************************************)
EXTENDS CommandLine, WellFoundedInduction, TLAPS

\* What the operation of a client needs: a project, and for a backup or a restore
\* the name of a snapshot.
Shape(w) ==
    /\ w.op # "scan" => w.of \in Projects
    /\ w.op \in {"backup", "restore"} => w.name \in Names
    /\ w.pc \in {"ready", "executing", "crediting"} => w.op # "scan"
    /\ w.op = "scan" => w.ok
    /\ w.pc = "storing" => w.todo # <<>>
    /\ w.pc = "crediting" => w.op = "restore"

Shaped == \A c \in Clients : work[c] # None => Shape(work[c])

Typed == TypeOK /\ Shaped

-----------------------------------------------------------------------------
(* Types.                                                                  *)

LEMMA WorkTyped ==
  ASSUME TypeOK, NEW c \in Clients, work[c] # None
  PROVE  /\ work[c] \in Work
         /\ work[c].op \in Operations /\ work[c].reg \in Registries
         /\ work[c].name \in Names \cup {None} /\ work[c].of \in Projects \cup {None}
         /\ work[c].origin \in Names \cup {None}
         /\ work[c].todo \in Seq(Names) /\ work[c].assumed \in Statuses
         /\ work[c].loaded \in Entry \cup {None} /\ work[c].ok \in BOOLEAN
BY DEF TypeOK, Work

LEMMA ContinueTyped ==
  ASSUME TypeOK, Shaped, NEW c \in Clients, NEW w \in Work, Continue(c, w),
         Shape(w), w.pc = "storing" <=> w.loaded # None
  PROVE  /\ work' \in [Clients -> Work \cup {None}]
         /\ \A d \in Clients : work'[d] # None => (work'[d].pc = "storing" <=> work'[d].loaded # None)
         /\ Shaped'
<1>1. work \in [Clients -> Work \cup {None}]
  BY DEF TypeOK
<1>2. work' = [work EXCEPT ![c] = w]
  BY DEF Continue
<1>3. \A d \in Clients : work'[d] = IF d = c THEN w ELSE work[d]
  BY <1>1, <1>2
<1>4. work' \in [Clients -> Work \cup {None}]
  BY <1>1, <1>2
<1>5. \A d \in Clients : work'[d] # None => (work'[d].pc = "storing" <=> work'[d].loaded # None)
  BY <1>3 DEF TypeOK
<1>6. Shaped'
  BY <1>3 DEF Shaped, Shape
<1> QED BY <1>4, <1>5, <1>6

LEMMA OutdateTyped ==
  ASSUME TypeOK, NEW f, Outdate(f)
  PROVE  rows' \in [Names -> Row \cup {None}]
<1>1. \A n \in Names : rows[n] \in Row \cup {None}
  BY DEF TypeOK
<1>2. \A n \in Names : rows[n] # None => [rows[n] EXCEPT !.fresh = FALSE] \in Row
  BY <1>1 DEF Row
<1> QED BY <1>1, <1>2 DEF Outdate

LEMMA MissedTyped ==
  ASSUME TypeOK, NEW r \in Registries, NEW x \in Projects
  PROVE  Missed(r, x) \subseteq Registries \X Projects
BY DEF TypeOK, Missed

LEMMA AdmitTyped ==
  ASSUME TypeOK, NEW c \in Clients, work[c] # None, NEW e \in Entry, Admit(c, e)
  PROVE  lists' \in [Registries -> Seq(Entry)]
<1>1. work[c].reg \in Registries
  BY WorkTyped
<1>2. Append(lists[work[c].reg], e) \in Seq(Entry)
  BY <1>1 DEF TypeOK
<1> QED BY <1>1, <1>2 DEF Admit, TypeOK

LEMMA HitTyped ==
  ASSUME TypeOK, Shaped, NEW c \in Clients, LookupHit(c)
  PROVE  TypeOK' /\ Shaped'
<1> DEFINE w == work[c]
           n == Head(w.todo)
           e == [name |-> n, of |-> rows[n].of, status |-> rows[n].status]
           v == [w EXCEPT !.todo = Tail(@)]
<1>1. w # None /\ w.pc = "looking" /\ w.todo # <<>>
  BY DEF LookupHit, Looks, At
<1>2. w \in Work /\ w.todo \in Seq(Names)
  BY <1>1, WorkTyped
<1>3. n \in Names /\ Tail(w.todo) \in Seq(Names)
  BY <1>1, <1>2
<1>4. v \in Work /\ v.pc = "looking" /\ v.loaded = w.loaded /\ Shape(v)
  BY <1>1, <1>2, <1>3 DEF Work, Shape, Shaped
<1>5. w.loaded = None
  BY <1>1 DEF TypeOK
<1>6. rows[n] \in Row
  BY <1>3 DEF LookupHit, Fresh, TypeOK
<1>7. e \in Entry
  BY <1>3, <1>6 DEF Row, Entry
<1>8. Continue(c, v) /\ Admit(c, e) /\ UNCHANGED <<disk, stale>>
  BY DEF LookupHit
<1>9. lists' \in [Registries -> Seq(Entry)]
  BY <1>1, <1>7, <1>8, AdmitTyped
<1>10. /\ work' \in [Clients -> Work \cup {None}]
       /\ \A d \in Clients : work'[d] # None => (work'[d].pc = "storing" <=> work'[d].loaded # None)
       /\ Shaped'
  BY <1>4, <1>5, <1>8, ContinueTyped
<1> QED BY <1>8, <1>9, <1>10 DEF TypeOK, disk

LEMMA LoadsTyped ==
  ASSUME TypeOK, Shaped, NEW c \in Clients, LookupLoads(c)
  PROVE  TypeOK' /\ Shaped'
<1> DEFINE w == work[c]
           n == Head(w.todo)
           e == [name |-> n, of |-> Content(n), status |-> StatusFor(n, w.assumed)]
           v == [w EXCEPT !.pc = "storing", !.loaded = e]
<1>1. w # None /\ w.pc = "looking" /\ w.todo # <<>>
  BY DEF LookupLoads, Looks, At
<1>2. w \in Work /\ w.todo \in Seq(Names) /\ w.assumed \in Statuses
  BY <1>1, WorkTyped
<1>3. n \in Names
  BY <1>1, <1>2
<1>4. StatusFor(n, w.assumed) \in Statuses
  BY <1>2, <1>3 DEF StatusFor, TypeOK, Row
<1>5. e \in Entry
  BY <1>3, <1>4 DEF LookupLoads, Entry
<1>6. v \in Work /\ v.pc = "storing" /\ v.loaded # None /\ Shape(v)
  BY <1>1, <1>2, <1>5, NoneAssumption DEF Work, Shape, Shaped
<1>7. Continue(c, v) /\ UNCHANGED <<disk, lists, stale>>
  BY DEF LookupLoads
<1>8. /\ work' \in [Clients -> Work \cup {None}]
      /\ \A d \in Clients : work'[d] # None => (work'[d].pc = "storing" <=> work'[d].loaded # None)
      /\ Shaped'
  BY <1>6, <1>7, ContinueTyped
<1> QED BY <1>7, <1>8 DEF TypeOK, disk

LEMMA NothingTyped ==
  ASSUME TypeOK, Shaped, NEW c \in Clients, LookupNothing(c)
  PROVE  TypeOK' /\ Shaped'
<1> DEFINE w == work[c]
           v == [w EXCEPT !.todo = Tail(@)]
<1>1. w # None /\ w.pc = "looking" /\ w.todo # <<>>
  BY DEF LookupNothing, Looks, At
<1>2. w \in Work /\ Tail(w.todo) \in Seq(Names)
  BY <1>1, WorkTyped
<1>3. v \in Work /\ v.pc = "looking" /\ v.loaded = w.loaded /\ Shape(v)
  BY <1>1, <1>2 DEF Work, Shape, Shaped
<1>4. w.loaded = None
  BY <1>1 DEF TypeOK
<1>5. Continue(c, v) /\ UNCHANGED <<disk, lists, stale>>
  BY DEF LookupNothing
<1>6. /\ work' \in [Clients -> Work \cup {None}]
      /\ \A d \in Clients : work'[d] # None => (work'[d].pc = "storing" <=> work'[d].loaded # None)
      /\ Shaped'
  BY <1>3, <1>4, <1>5, ContinueTyped
<1> QED BY <1>5, <1>6 DEF TypeOK, disk

LEMMA StoreTyped ==
  ASSUME TypeOK, Shaped, NEW c \in Clients, Store(c)
  PROVE  TypeOK' /\ Shaped'
<1> DEFINE w == work[c]
           e == w.loaded
           row == [of |-> e.of, fresh |-> Content(e.name) = e.of, status |-> e.status]
           v == [w EXCEPT !.pc = "looking", !.loaded = None, !.todo = Tail(@)]
<1>1. w # None /\ w.pc = "storing" /\ w.loaded # None
  BY DEF Store, At, TypeOK
<1>2. w \in Work /\ e \in Entry /\ w.todo \in Seq(Names) /\ w.reg \in Registries
  BY <1>1, WorkTyped
<1>3. e.name \in Names /\ e.of \in Projects /\ e.status \in Statuses
  BY <1>2 DEF Entry
<1>4. row \in Row
  BY <1>3 DEF Row
<1>5. rows' = [rows EXCEPT ![e.name] = row]
  BY DEF Store
<1>6. rows' \in [Names -> Row \cup {None}]
  BY <1>3, <1>4, <1>5 DEF TypeOK
<1>7. Continue(c, v) /\ Admit(c, e) /\ UNCHANGED files
  BY DEF Store
<1>8. lists' \in [Registries -> Seq(Entry)]
  BY <1>1, <1>2, <1>7, AdmitTyped
<1>9. stale' \subseteq Registries \X Projects
  <2>1. Missed(w.reg, e.of) \subseteq Registries \X Projects
    BY <1>2, <1>3, MissedTyped
  <2>2. stale' = stale \/ stale' = Missed(w.reg, e.of)
    BY DEF Store, Untold
  <2> QED BY <2>1, <2>2 DEF TypeOK
<1>10. Tail(w.todo) \in Seq(Names)
  BY <1>1, <1>2 DEF Shaped, Shape
<1>11. v \in Work /\ v.pc = "looking" /\ v.loaded = None /\ Shape(v)
  BY <1>1, <1>2, <1>10 DEF Work, Shape, Shaped
<1>12. /\ work' \in [Clients -> Work \cup {None}]
       /\ \A d \in Clients : work'[d] # None => (work'[d].pc = "storing" <=> work'[d].loaded # None)
       /\ Shaped'
  BY <1>7, <1>11, ContinueTyped
<1> QED BY <1>6, <1>7, <1>8, <1>9, <1>12 DEF TypeOK

LEMMA EndsTyped ==
  ASSUME TypeOK, Shaped, NEW c \in Clients, NEW ok \in BOOLEAN, work[c] # None,
         work[c].pc # "storing", Ends(c, ok), work[c].op = "scan" => ok
  PROVE  /\ work' \in [Clients -> Work \cup {None}]
         /\ \A d \in Clients : work'[d] # None => (work'[d].pc = "storing" <=> work'[d].loaded # None)
         /\ Shaped'
<1> DEFINE v == [work[c] EXCEPT !.pc = "done", !.ok = ok]
<1>1. work[c] \in Work /\ work[c].loaded = None
  BY WorkTyped DEF TypeOK
<1>2. v \in Work /\ v.pc = "done" /\ v.loaded = None /\ Shape(v)
  BY <1>1 DEF Work, Shape, Shaped
<1> QED BY <1>2, ContinueTyped DEF Ends

LEMMA GoesOnTyped ==
  ASSUME TypeOK, Shaped, NEW c \in Clients, work[c] # None, work[c].pc # "storing",
         NEW pc \in {"ready", "executing", "crediting", "done"},
         Continue(c, [work[c] EXCEPT !.pc = pc]),
         pc # "done" => work[c].op # "scan", pc = "crediting" => work[c].op = "restore"
  PROVE  /\ work' \in [Clients -> Work \cup {None}]
         /\ \A d \in Clients : work'[d] # None => (work'[d].pc = "storing" <=> work'[d].loaded # None)
         /\ Shaped'
<1> DEFINE v == [work[c] EXCEPT !.pc = pc]
<1>1. work[c] \in Work /\ work[c].loaded = None
  BY WorkTyped DEF TypeOK
<1>2. v \in Work /\ v.pc # "storing" /\ v.loaded = None /\ Shape(v)
  BY <1>1 DEF Work, Shape, Shaped
<1> QED BY <1>2, ContinueTyped

LEMMA LookupEndsTyped ==
  ASSUME TypeOK, Shaped, NEW c \in Clients, LookupEnds(c)
  PROVE  TypeOK' /\ Shaped'
<1> DEFINE pc == IF work[c].ok THEN "done" ELSE "ready"
<1>1. work[c] # None /\ work[c].pc = "looking"
  BY DEF LookupEnds, At
<1>2. Continue(c, [work[c] EXCEPT !.pc = pc]) /\ UNCHANGED <<disk, lists, stale>>
  BY DEF LookupEnds
<1>3. pc \in {"ready", "done"} /\ (pc # "done" => work[c].op # "scan")
  BY <1>1 DEF Shaped, Shape
<1>4. /\ work' \in [Clients -> Work \cup {None}]
      /\ \A d \in Clients : work'[d] # None => (work'[d].pc = "storing" <=> work'[d].loaded # None)
      /\ Shaped'
  BY <1>1, <1>2, <1>3, GoesOnTyped
<1> QED BY <1>2, <1>4 DEF TypeOK, disk

LEMMA FailEarlyTyped ==
  ASSUME TypeOK, Shaped, NEW c \in Clients, FailEarly(c)
  PROVE  TypeOK' /\ Shaped'
<1>1. work[c] # None /\ work[c].pc = "ready" /\ Ends(c, FALSE) /\ UNCHANGED <<disk, lists, stale>>
  BY DEF FailEarly, At
<1>2. work[c].op # "scan"
  BY <1>1 DEF Shaped, Shape
<1> QED BY <1>1, <1>2, EndsTyped DEF TypeOK, disk

LEMMA FailChangeTyped ==
  ASSUME TypeOK, Shaped, NEW c \in Clients, FailChange(c)
  PROVE  TypeOK' /\ Shaped'
<1>1. /\ work[c] # None /\ work[c].pc = "executing" /\ work[c].op # "scan"
      /\ Ends(c, FALSE) /\ UNCHANGED <<disk, lists, stale>>
  BY DEF FailChange, Executes, At
<1> QED BY <1>1, EndsTyped DEF TypeOK, disk

LEMMA BeginBackupTyped ==
  ASSUME TypeOK, Shaped, NEW c \in Clients, BeginBackup(c)
  PROVE  TypeOK' /\ Shaped'
<1>1. work[c] # None /\ work[c].pc = "ready" /\ work[c].op = "backup"
  BY DEF BeginBackup, Starts, At
<1>2. /\ files' = [files EXCEPT ![FileOf[work[c].name]] = "Broken"]
      /\ Outdate(FileOf[work[c].name])
      /\ Continue(c, [work[c] EXCEPT !.pc = "executing"])
      /\ UNCHANGED <<lists, stale>>
  BY DEF BeginBackup
<1>3. files' \in [Files -> Projects \cup {"Absent", "Broken"}]
  BY <1>2 DEF TypeOK
<1>4. rows' \in [Names -> Row \cup {None}]
  BY <1>2, OutdateTyped
<1>5. /\ work' \in [Clients -> Work \cup {None}]
      /\ \A d \in Clients : work'[d] # None => (work'[d].pc = "storing" <=> work'[d].loaded # None)
      /\ Shaped'
  BY <1>1, <1>2, GoesOnTyped
<1> QED BY <1>2, <1>3, <1>4, <1>5 DEF TypeOK

LEMMA WriteArchiveTyped ==
  ASSUME TypeOK, Shaped, NEW c \in Clients, work[c] # None, work[c].op = "backup",
         WriteArchive(c)
  PROVE  /\ files' \in [Files -> Projects \cup {"Absent", "Broken"}]
         /\ rows' \in [Names -> Row \cup {None}]
<1>1. work[c].of \in Projects
  BY DEF Shaped, Shape
<1>2. files' \in [Files -> Projects \cup {"Absent", "Broken"}]
  BY <1>1 DEF WriteArchive, TypeOK
<1> QED BY <1>2, OutdateTyped DEF WriteArchive

LEMMA FailBackupTyped ==
  ASSUME TypeOK, Shaped, NEW c \in Clients, FailBackup(c)
  PROVE  TypeOK' /\ Shaped'
<1>1. /\ work[c] # None /\ work[c].pc = "executing" /\ work[c].op = "backup"
      /\ Ends(c, FALSE) /\ UNCHANGED <<lists, stale>>
      /\ WriteArchive(c) \/ UNCHANGED disk
  BY DEF FailBackup, Executes, At
<1>2. /\ files' \in [Files -> Projects \cup {"Absent", "Broken"}]
      /\ rows' \in [Names -> Row \cup {None}]
  BY <1>1, WriteArchiveTyped DEF TypeOK, disk
<1>3. /\ work' \in [Clients -> Work \cup {None}]
      /\ \A d \in Clients : work'[d] # None => (work'[d].pc = "storing" <=> work'[d].loaded # None)
      /\ Shaped'
  BY <1>1, EndsTyped
<1> QED BY <1>1, <1>2, <1>3 DEF TypeOK

LEMMA FinishBackupTyped ==
  ASSUME TypeOK, Shaped, NEW c \in Clients, FinishBackup(c)
  PROVE  TypeOK' /\ Shaped'
<1> DEFINE assumed == IF SomeInstalled(lists[work[c].reg], work[c].of)
                      THEN "NotInstalled" ELSE "Installed"
           v == [work[c] EXCEPT !.pc = "looking", !.ok = TRUE, !.todo = <<work[c].name>>,
                                !.assumed = assumed]
<1>1. work[c] # None /\ work[c].pc = "executing" /\ work[c].op = "backup"
  BY DEF FinishBackup, Executes, At
<1>2. WriteArchive(c) /\ Continue(c, v) /\ UNCHANGED <<lists, stale>>
  BY DEF FinishBackup
<1>3. /\ files' \in [Files -> Projects \cup {"Absent", "Broken"}]
      /\ rows' \in [Names -> Row \cup {None}]
  BY <1>1, <1>2, WriteArchiveTyped
<1>4. work[c] \in Work /\ work[c].loaded = None
  BY <1>1, WorkTyped DEF TypeOK
<1>5. work[c].name \in Names /\ assumed \in Statuses
  BY <1>1 DEF Shaped, Shape, Statuses
<1>6. v \in Work /\ v.pc = "looking" /\ v.loaded = None /\ Shape(v)
  <2>1. <<work[c].name>> \in Seq(Names)
    BY <1>5
  <2> HIDE DEF assumed
  <2> QED BY <1>1, <1>4, <1>5, <2>1 DEF Work, Shape, Shaped
<1>7. /\ work' \in [Clients -> Work \cup {None}]
      /\ \A d \in Clients : work'[d] # None => (work'[d].pc = "storing" <=> work'[d].loaded # None)
      /\ Shaped'
  BY <1>2, <1>6, ContinueTyped
<1> QED BY <1>2, <1>3, <1>7 DEF TypeOK

LEMMA BeginChangeTyped ==
  ASSUME TypeOK, Shaped, NEW c \in Clients, BeginChange(c)
  PROVE  TypeOK' /\ Shaped'
<1>1. work[c] # None /\ work[c].pc = "ready" /\ work[c].op # "scan"
  BY DEF BeginChange, Starts, At
<1>2. Continue(c, [work[c] EXCEPT !.pc = "executing"]) /\ UNCHANGED <<disk, lists, stale>>
  BY DEF BeginChange
<1> QED BY <1>1, <1>2, GoesOnTyped DEF TypeOK, disk

LEMMA UnmarkAllTyped ==
  ASSUME TypeOK, Shaped, NEW c \in Clients, work[c] # None, work[c].of \in Projects, UnmarkAll(c)
  PROVE  /\ rows' \in [Names -> Row \cup {None}]
         /\ lists' \in [Registries -> Seq(Entry)]
         /\ stale' \subseteq Registries \X Projects
<1> DEFINE x == work[c].of
           r == work[c].reg
<1>1. r \in Registries /\ lists[r] \in Seq(Entry)
  BY WorkTyped DEF TypeOK
<1>2. \A n \in Names : rows[n] \in Row \cup {None}
  BY DEF TypeOK
<1>3. \A n \in Names : rows[n] # None => [rows[n] EXCEPT !.status = "NotInstalled"] \in Row
  BY <1>2 DEF Row, Statuses
<1>4. rows' \in [Names -> Row \cup {None}]
  BY <1>2, <1>3 DEF UnmarkAll, MarkAllNotInstalled
<1>5. \A e \in Entry : [e EXCEPT !.status = "NotInstalled"] \in Entry
  BY DEF Entry, Statuses
<1>6. Unmarked(lists[r], x) \in Seq(Entry)
  <2>1. \A i \in DOMAIN lists[r] : lists[r][i] \in Entry
    BY <1>1
  <2>2. \A i \in DOMAIN lists[r] :
          (IF lists[r][i].of = x THEN [lists[r][i] EXCEPT !.status = "NotInstalled"]
                                 ELSE lists[r][i]) \in Entry
    BY <2>1, <1>5
  <2>3. DOMAIN lists[r] = 1 .. Len(lists[r]) /\ Len(lists[r]) \in Nat
    BY <1>1
  <2> QED BY <2>2, <2>3 DEF Unmarked
<1>7. lists' \in [Registries -> Seq(Entry)]
  BY <1>1, <1>6 DEF UnmarkAll, TypeOK
<1>8. stale' \subseteq Registries \X Projects
  BY <1>1, MissedTyped DEF UnmarkAll
<1> QED BY <1>4, <1>7, <1>8

LEMMA FinishRestoreTyped ==
  ASSUME TypeOK, Shaped, NEW c \in Clients, FinishRestore(c)
  PROVE  TypeOK' /\ Shaped'
<1>1. /\ work[c] # None /\ work[c].pc = "executing" /\ work[c].op = "restore"
      /\ UnmarkAll(c) /\ UNCHANGED files
      /\ Continue(c, [work[c] EXCEPT !.pc = "crediting"])
  BY DEF FinishRestore, Executes, At
<1>2. work[c].of \in Projects
  BY <1>1 DEF Shaped, Shape
<1>3. /\ rows' \in [Names -> Row \cup {None}]
      /\ lists' \in [Registries -> Seq(Entry)]
      /\ stale' \subseteq Registries \X Projects
  BY <1>1, <1>2, UnmarkAllTyped
<1>4. /\ work' \in [Clients -> Work \cup {None}]
      /\ \A d \in Clients : work'[d] # None => (work'[d].pc = "storing" <=> work'[d].loaded # None)
      /\ Shaped'
  BY <1>1, GoesOnTyped
<1> QED BY <1>1, <1>3, <1>4 DEF TypeOK

LEMMA FinishCleanTyped ==
  ASSUME TypeOK, Shaped, NEW c \in Clients, FinishClean(c)
  PROVE  TypeOK' /\ Shaped'
<1>1. /\ work[c] # None /\ work[c].pc = "executing" /\ work[c].op = "clean"
      /\ UnmarkAll(c) /\ UNCHANGED files /\ Ends(c, TRUE)
  BY DEF FinishClean, Executes, At
<1>2. work[c].of \in Projects
  BY <1>1 DEF Shaped, Shape
<1>3. /\ rows' \in [Names -> Row \cup {None}]
      /\ lists' \in [Registries -> Seq(Entry)]
      /\ stale' \subseteq Registries \X Projects
  BY <1>1, <1>2, UnmarkAllTyped
<1>4. /\ work' \in [Clients -> Work \cup {None}]
      /\ \A d \in Clients : work'[d] # None => (work'[d].pc = "storing" <=> work'[d].loaded # None)
      /\ Shaped'
  BY <1>1, EndsTyped
<1> QED BY <1>1, <1>3, <1>4 DEF TypeOK

\* A set of numbers that is not empty has a least one.
LEMMA LeastExists ==
  ASSUME NEW S \in SUBSET Nat, S # {}
  PROVE  \E i \in S : \A j \in S : i <= j
<1> DEFINE R == OpToRel(<, Nat)
<1>1. PICK i \in S : \A j \in S : ~(<<j, i>> \in R)
  BY NatLessThanWellFounded, WFMin
<1>2. \A j \in S : ~(j < i)
  BY <1>1 DEF OpToRel
<1> QED BY <1>2

LEMMA FirstIsThere ==
  ASSUME NEW list \in Seq(Entry), NEW n, Positions(list, n) # {}
  PROVE  FirstFor(list, n) \in DOMAIN list
<1>1. Positions(list, n) \subseteq Nat
  BY DEF Positions
<1>2. \E i \in Positions(list, n) : \A j \in Positions(list, n) : i <= j
  BY <1>1, LeastExists
<1> QED BY <1>2 DEF FirstFor, Positions

LEMMA CreditTyped ==
  ASSUME TypeOK, Shaped, NEW c \in Clients, Credit(c)
  PROVE  TypeOK' /\ Shaped'
<1> DEFINE w == work[c]
           list == lists[w.reg]
<1>1. /\ w # None /\ w.pc = "crediting" /\ Ends(c, TRUE) /\ UNCHANGED files
      /\ lists' = [lists EXCEPT ![w.reg] = Marked(@, w.name)]
      /\ rows' = IF Positions(list, w.name) # {} /\ rows[w.name] # None
                 THEN [rows EXCEPT ![w.name].status = "Installed"] ELSE rows
      /\ Untold(w.reg, w.of)
  BY DEF Credit, At
<1>2. w \in Work /\ w.reg \in Registries /\ list \in Seq(Entry)
  BY <1>1, WorkTyped DEF TypeOK
<1>3. w.of \in Projects
  BY <1>1 DEF Shaped, Shape
<1>4. Marked(list, w.name) \in Seq(Entry)
  <2>1. CASE Positions(list, w.name) = {}
    BY <2>1, <1>2 DEF Marked
  <2>2. CASE Positions(list, w.name) # {}
    <3> DEFINE i == FirstFor(list, w.name)
    <3>1. i \in DOMAIN list
      BY <2>2, <1>2, FirstIsThere
    <3>2. list[i] \in Entry
      BY <3>1, <1>2
    <3>3. [list[i] EXCEPT !.status = "Installed"] \in Entry
      BY <3>2 DEF Entry, Statuses
    <3>4. Marked(list, w.name) = [list EXCEPT ![i] = [list[i] EXCEPT !.status = "Installed"]]
      BY <2>2 DEF Marked
    <3> QED BY <3>1, <3>3, <3>4, <1>2
  <2> QED BY <2>1, <2>2
<1>5. lists' \in [Registries -> Seq(Entry)]
  BY <1>1, <1>2, <1>4 DEF TypeOK
<1>6. rows' \in [Names -> Row \cup {None}]
  <2>1. CASE rows' = rows
    BY <2>1 DEF TypeOK
  <2>2. CASE rows[w.name] # None /\ rows' = [rows EXCEPT ![w.name].status = "Installed"]
    <3>1. \A n \in Names : rows[n] # None => [rows[n] EXCEPT !.status = "Installed"] \in Row
      BY DEF TypeOK, Row, Statuses
    <3> QED BY <2>2, <3>1 DEF TypeOK
  <2> QED BY <1>1, <2>1, <2>2
<1>7. stale' \subseteq Registries \X Projects
  BY <1>1, <1>2, <1>3, MissedTyped DEF Untold
<1>8. /\ work' \in [Clients -> Work \cup {None}]
      /\ \A d \in Clients : work'[d] # None => (work'[d].pc = "storing" <=> work'[d].loaded # None)
      /\ Shaped'
  BY <1>1, EndsTyped
<1> QED BY <1>1, <1>5, <1>6, <1>7, <1>8 DEF TypeOK

LEMMA ClientTyped ==
  ASSUME TypeOK, Shaped, NEW c \in Clients, ClientStep(c)
  PROVE  TypeOK' /\ Shaped'
BY HitTyped, LoadsTyped, NothingTyped, StoreTyped, LookupEndsTyped, FailEarlyTyped,
   BeginBackupTyped, FailBackupTyped, FinishBackupTyped, BeginChangeTyped, FailChangeTyped,
   FinishRestoreTyped, CreditTyped, FinishCleanTyped
   DEF ClientStep, Scans, Operates

LEMMA EmptyTyped ==
  ASSUME TypeOK, NEW rs, Empty(rs)
  PROVE  lists' \in [Registries -> Seq(Entry)] /\ stale' \subseteq Registries \X Projects
BY DEF TypeOK, Empty

\* The work that a command begins with.
Asked(op, n, x, origin) ==
    [pc |-> "looking", op |-> op, name |-> n, of |-> x, reg |-> CliRegistry,
     origin |-> origin, todo |-> <<>>, assumed |-> "Unknown",
     loaded |-> None, ok |-> op = "scan"]

Opening(op, n, x, origin) ==
    [Asked(op, n, x, origin) EXCEPT !.pc = "looking", !.todo = ScanOrder, !.assumed = "Unknown"]

LEMMA OpeningTyped ==
  ASSUME NEW op \in Operations, NEW n \in Names \cup {None}, NEW x \in Projects \cup {None},
         NEW origin \in Names \cup {None},
         op # "scan" => x \in Projects, op \in {"backup", "restore"} => n \in Names
  PROVE  LET v == Opening(op, n, x, origin) IN
         /\ v \in Work /\ Shape(v)
         /\ v.pc = "looking" /\ v.op = op /\ v.name = n /\ v.of = x /\ v.origin = origin
         /\ v.reg = CliRegistry /\ v.loaded = None /\ v.ok = (op = "scan")
BY RegistryAssumption, CommandLineAssumption
   DEF Asked, Opening, Work, Shape, Statuses, Operations

LEMMA CommandOpens ==
  ASSUME NEW op, NEW n, NEW x, NEW origin, Command(op, n, x, origin)
  PROVE  /\ work[Cli] = None /\ Continue(Cli, Opening(op, n, x, origin)) /\ Empty({CliRegistry})
         /\ commands < MaxCommands /\ commands' = commands + 1 /\ UNCHANGED <<disk, changes>>
<1>1. ScanWith(Cli, Asked(op, n, x, origin))
  BY DEF Command, Asked
<1>2. Asked(op, n, x, origin).reg = CliRegistry
  BY DEF Asked
<1>3. Continue(Cli, Opening(op, n, x, origin)) /\ Empty({CliRegistry})
  BY <1>1, <1>2 DEF ScanWith, Opening
<1> QED BY <1>3 DEF Command

\* Every command is one of these.
LEMMA CommandsBegin ==
  ASSUME TypeOK, Commands
  PROVE  \E op \in Operations, n \in Names \cup {None}, x \in Projects \cup {None},
            origin \in Names \cup {None} :
            /\ Command(op, n, x, origin)
            /\ op # "scan" => x \in Projects
            /\ op \in {"backup", "restore"} => n \in Names
            /\ op = "backup" /\ origin # None => x = Content(origin)
            /\ op = "restore" => x = Content(n)
<1>1. CASE CmdList
  BY <1>1 DEF CmdList, Operations
<1>2. ASSUME NEW x \in Projects, CmdClean(x) PROVE Command("clean", None, x, None)
  BY <1>2 DEF CmdClean
<1>3. ASSUME NEW x \in Projects, NEW n \in Names, CmdBackup(x, n)
      PROVE Command("backup", n, x, None)
  BY <1>3 DEF CmdBackup
<1>4. ASSUME NEW n \in Names, CmdRestore(n)
      PROVE Content(n) \in Projects /\ Command("restore", n, Content(n), None)
  BY <1>4 DEF CmdRestore
<1>5. ASSUME NEW origin \in Names, NEW n \in Names, CmdRebackup(origin, n)
      PROVE Content(origin) \in Projects /\ Command("backup", n, Content(origin), origin)
  BY <1>5 DEF CmdRebackup
<1> QED BY <1>1, <1>2, <1>3, <1>4, <1>5 DEF Commands, Operations

LEMMA CommandsTyped ==
  ASSUME TypeOK, Shaped, Commands
  PROVE  TypeOK' /\ Shaped'
<1>1. PICK op \in Operations, n \in Names \cup {None}, x \in Projects \cup {None},
           origin \in Names \cup {None} :
            /\ Command(op, n, x, origin)
            /\ op # "scan" => x \in Projects
            /\ op \in {"backup", "restore"} => n \in Names
  BY CommandsBegin
<1> DEFINE v == Opening(op, n, x, origin)
<1>2. v \in Work /\ Shape(v) /\ v.pc = "looking" /\ v.loaded = None
  BY <1>1, OpeningTyped
<1>3. Continue(Cli, v) /\ Empty({CliRegistry}) /\ UNCHANGED disk
  BY <1>1, CommandOpens
<1>4. /\ work' \in [Clients -> Work \cup {None}]
      /\ \A d \in Clients : work'[d] # None => (work'[d].pc = "storing" <=> work'[d].loaded # None)
      /\ Shaped'
  <2> HIDE DEF v
  <2> QED BY <1>2, <1>3, ContinueTyped, CommandLineAssumption
<1> QED BY <1>3, <1>4, EmptyTyped DEF TypeOK, disk

LEMMA ExitTyped ==
  ASSUME TypeOK, Shaped, Exit, files' \in [Files -> Projects \cup {"Absent", "Broken"}]
  PROVE  TypeOK' /\ Shaped'
<1>1. work \in [Clients -> Work \cup {None}] /\ work' = [work EXCEPT ![Cli] = None]
  BY DEF TypeOK, Exit
<1>2. \A d \in Clients : work'[d] # None => work'[d] = work[d]
  BY <1>1
<1>3. Shaped'
  BY <1>2 DEF Shaped, Shape
<1>4. \A d \in Clients : work'[d] # None => (work'[d].pc = "storing" <=> work'[d].loaded # None)
  BY <1>2 DEF TypeOK
<1> QED BY <1>1, <1>3, <1>4, EmptyTyped DEF TypeOK, Exit

LEMMA WorldTyped ==
  ASSUME TypeOK, Shaped, NEW f \in Files, NEW x \in Projects, DeleteFile(f) \/ ImportFile(f, x)
  PROVE  TypeOK' /\ Shaped'
<1>1. files' \in [Files -> Projects \cup {"Absent", "Broken"}]
  BY DEF TypeOK, DeleteFile, ImportFile
<1>2. rows' \in [Names -> Row \cup {None}]
  BY OutdateTyped DEF TypeOK, DeleteFile, ImportFile
<1>3. UNCHANGED <<lists, work, stale>>
  BY DEF DeleteFile, ImportFile
<1> QED BY <1>1, <1>2, <1>3 DEF TypeOK, Shaped, Shape
=============================================================================
