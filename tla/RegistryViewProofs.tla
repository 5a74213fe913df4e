------------------------- MODULE RegistryViewProofs -------------------------
(***************************************************************************)
(* What the GUI shows at rest is what the cache says, for any number of    *)
(* projects, snapshots and registries, and any bounds.  A list and the     *)
(* cache agree about a file from the moment it is listed: what changes     *)
(* the status of a row changes the first entry for its name in the list    *)
(* of the job that does it, and is missed by the other lists, which is     *)
(* what makes them stale.                                                  *)
(***************************************************************************)
EXTENDS RegistryView, CommandLineProofs

-----------------------------------------------------------------------------
(* Types.                                                                  *)

\* What a job of the worker needs, and the registry it was given, which is not
\* the one of a command.
Fit(j) ==
    j.op # "scan" =>
        /\ j.reg \in Registries \ {CliRegistry}
        /\ j.op \in {"backup", "clean"} => j.of \in Projects
        /\ j.op \in {"backup", "restore"} => j.name \in Names

\* The GUI and a command work with registries of their own.
Apart ==
    /\ \A c \in Clients \ {Cli, Gui} : work[c] = None
    /\ work[Cli] # None => work[Cli].reg = CliRegistry
    /\ work[Gui] # None => work[Gui].reg # CliRegistry
    /\ shown # CliRegistry
    /\ \A i \in DOMAIN jobs : Fit(jobs[i])
    /\ \A i \in DOMAIN inbox : inbox[i].reg # CliRegistry

TypedView == ViewTypeOK /\ Shaped /\ Apart

\* What holds of the elements of a queue holds when one is appended, or the head removed.
LEMMA QueueAppend ==
  ASSUME NEW T, NEW q \in Seq(T), NEW m \in T
  PROVE  /\ Append(q, m) \in Seq(T)
         /\ \A i \in DOMAIN Append(q, m) :
               (i \in DOMAIN q /\ Append(q, m)[i] = q[i]) \/ (i = Len(q) + 1 /\ Append(q, m)[i] = m)
OBVIOUS

LEMMA QueueTail ==
  ASSUME NEW T, NEW q \in Seq(T), q # <<>>
  PROVE  /\ Head(q) \in T /\ Tail(q) \in Seq(T)
         /\ 1 \in DOMAIN q /\ Head(q) = q[1]
         /\ \A i \in DOMAIN Tail(q) : i + 1 \in DOMAIN q /\ Tail(q)[i] = q[i + 1]
OBVIOUS

LEMMA ReleaseTyped ==
  ASSUME TypeOK, Release
  PROVE  lists' \in [Registries -> Seq(Entry)] /\ stale' \subseteq Registries \X Projects
BY EmptyTyped DEF Release

\* The worker ends a job.
LEMMA WorkEnds ==
  ASSUME TypeOK, Shaped, NEW c \in Clients, work' = [work EXCEPT ![c] = None]
  PROVE  /\ work' \in [Clients -> Work \cup {None}]
         /\ \A d \in Clients : work'[d] # None => (work'[d].pc = "storing" <=> work'[d].loaded # None)
         /\ Shaped'
         /\ work'[c] = None /\ \A d \in Clients \ {c} : work'[d] = work[d]
<1>1. work \in [Clients -> Work \cup {None}]  BY DEF TypeOK
<1>2. \A d \in Clients : work'[d] # None => work'[d] = work[d]  BY <1>1
<1> QED BY <1>1, <1>2 DEF TypeOK, Shaped, Shape

\* The worker begins a job.
LEMMA WorkBegins ==
  ASSUME TypeOK, Shaped, NEW c \in Clients, NEW v \in Work, Continue(c, v), Shape(v),
         v.pc # "storing", v.loaded = None
  PROVE  /\ work' \in [Clients -> Work \cup {None}]
         /\ \A d \in Clients : work'[d] # None => (work'[d].pc = "storing" <=> work'[d].loaded # None)
         /\ Shaped'
         /\ work'[c] = v /\ \A d \in Clients \ {c} : work'[d] = work[d]
<1>1. work \in [Clients -> Work \cup {None}] /\ work' = [work EXCEPT ![c] = v]
  BY DEF TypeOK, Continue
<1> QED BY <1>1, ContinueTyped

\* The work of a job, when it is taken.
Opened(j) ==
    Start(j.op, [j EXCEPT !.of = IF j.op = "restore" THEN Content(j.name) ELSE @], j.reg)

LEMMA OpenedTyped ==
  ASSUME TypeOK, NEW j \in Job, Fit(j), j.op # "scan", j.op = "restore" => Content(j.name) \in Projects
  PROVE  /\ Opened(j) \in Work /\ Shape(Opened(j))
         /\ Opened(j).pc = "ready" /\ Opened(j).loaded = None /\ Opened(j).reg = j.reg
         /\ Opened(j).op = j.op /\ Opened(j).name = j.name
         /\ Opened(j).of = IF j.op = "restore" THEN Content(j.name) ELSE j.of
<1>1. /\ j.op \in Operations /\ j.name \in Names \cup {None} /\ j.of \in Projects \cup {None}
      /\ j.reg \in Registries
  BY DEF Job, Fit
<1> DEFINE x == IF j.op = "restore" THEN Content(j.name) ELSE j.of
           k == [j EXCEPT !.of = x]
<1>2. x \in Projects \cup {None}  BY <1>1
<1>3. k.name = j.name /\ k.of = x  BY DEF Job
<1>4. Opened(j) = [pc |-> "ready", op |-> j.op, name |-> j.name, of |-> x, reg |-> j.reg,
                   origin |-> None, todo |-> <<>>, assumed |-> "Unknown", loaded |-> None,
                   ok |-> j.op = "scan"]
  BY <1>3 DEF Opened, Start
<1>5. j.op # "scan" => x \in Projects
  BY <1>1 DEF Fit, Operations
<1> HIDE DEF x, k
<1>6. Opened(j) \in Work
  BY <1>1, <1>2, <1>4 DEF Work, Statuses
<1>7. Shape(Opened(j))
  BY <1>1, <1>4, <1>5 DEF Shape, Fit
<1> QED BY <1>4, <1>6, <1>7 DEF x

\* The work of a scan.
Scan(r) == Start("scan", ScanJob, r)
Scanning(r) == [Scan(r) EXCEPT !.pc = "looking", !.todo = ScanOrder, !.assumed = "Unknown"]

LEMMA ScanOpens ==
  ASSUME NEW r
  PROVE  Scan(r) = [pc |-> "ready", op |-> "scan", name |-> None, of |-> None, reg |-> r,
                    origin |-> None, todo |-> <<>>, assumed |-> "Unknown", loaded |-> None,
                    ok |-> TRUE]
<1>1. ScanJob.name = None /\ ScanJob.of = None /\ ("scan" = "scan") = TRUE  BY DEF ScanJob
<1> QED BY <1>1 DEF Scan, Start

LEMMA ScanningTyped ==
  ASSUME NEW r \in Registries
  PROVE  /\ Scanning(r) \in Work /\ Shape(Scanning(r))
         /\ Scanning(r).pc = "looking" /\ Scanning(r).loaded = None /\ Scanning(r).reg = r
         /\ Scanning(r).op = "scan"
<1>2. PICK u : u = Scan(r)  OBVIOUS
<1>1. u \in Work /\ u.op = "scan" /\ u.loaded = None /\ u.reg = r /\ u.ok = TRUE
  <2>1. u = [pc |-> "ready", op |-> "scan", name |-> None, of |-> None, reg |-> r,
             origin |-> None, todo |-> <<>>, assumed |-> "Unknown", loaded |-> None,
             ok |-> TRUE]
    BY <1>2, ScanOpens
  <2>2. <<>> \in Seq(Names)  OBVIOUS
  <2>3. u.op = "scan" /\ u.loaded = None /\ u.reg = r /\ u.ok = TRUE  BY <2>1
  <2>4. u \in Work  BY <2>1, <2>2 DEF Work, Operations, Statuses
  <2> QED BY <2>3, <2>4
<1>3. PICK v : v = [u EXCEPT !.pc = "looking", !.todo = ScanOrder, !.assumed = "Unknown"]
  OBVIOUS
<1>4. v \in Work /\ v.op = "scan" /\ v.loaded = None /\ v.reg = r /\ v.ok = TRUE /\ v.pc = "looking"
  BY <1>1, <1>2, <1>3, RegistryAssumption DEF Work, Statuses
<1>5. Scanning(r) = v
  BY <1>2, <1>3, Zenon DEF Scanning
<1> QED BY <1>4, <1>5 DEF Shape

LEMMA ScanJobTyped == ScanJob \in Job /\ Fit(ScanJob)
BY DEF ScanJob, Job, Fit, Operations

\* What TakeScan does, in terms of the registry it takes.
LEMMA ScanTakes ==
  ASSUME TypeOK, TakeScan
  PROVE  \E r \in Unused : /\ Continue(Gui, Scanning(r)) /\ Empty({r})
                           /\ jobs # <<>> /\ jobs' = Tail(jobs) /\ work[Gui] = None
                           /\ UNCHANGED <<beside, shown, inbox, label, clicks>>
<1> DEFINE r == CHOOSE s \in Unused : TRUE
<1>1. Unused # {} /\ ScanWith(Gui, Start("scan", ScanJob, r)) /\ jobs' = Tail(jobs) /\ jobs # <<>>
      /\ work[Gui] = None /\ UNCHANGED <<beside, shown, inbox, label, clicks>>
  BY DEF TakeScan, Free
<1>2. r \in Unused  BY <1>1
<1> HIDE DEF r
<1>3. Start("scan", ScanJob, r).reg = r  BY DEF Start
<1>4. Continue(Gui, Scanning(r)) /\ Empty({r})
  BY <1>1, <1>3 DEF ScanWith, Scanning, Scan
<1> QED BY <1>1, <1>2, <1>4

LEMMA CompletionTyped ==
  ASSUME NEW op \in Operations, NEW ok \in BOOLEAN, NEW n \in Names \cup {None}, NEW r \in Registries
  PROVE  LET m == [op |-> op, ok |-> ok, name |-> n, reg |-> r] IN
         m \in Completion /\ m.reg = r /\ m.op = op
BY DEF Completion

LEMMA InitTyped == ViewInit => TypedView
<1> SUFFICES ASSUME ViewInit PROVE TypedView
  OBVIOUS
<1>1. TypeOK /\ commands \in 0 .. MaxCommands /\ changes \in 0 .. MaxChanges
  BY RegistryAssumption, CommandLineAssumption DEF ViewInit, CommandInit, Init, TypeOK
<1>2. jobs \in Seq(Job) /\ \A i \in DOMAIN jobs : Fit(jobs[i])
  BY ScanJobTyped DEF ViewInit
<1>3. inbox \in Seq(Completion) /\ DOMAIN inbox = {}
  BY DEF ViewInit
<1>4. work = [c \in Clients |-> None]
  BY DEF ViewInit, CommandInit, Init
<1>5. Shaped
  BY <1>4 DEF Shaped
<1>6. clicks \in 0 .. MaxClicks /\ label \in Operations /\ shown = None
      /\ held \in [Files -> SUBSET Projects]
  BY RegistryViewAssumption DEF ViewInit, Operations
<1>7. None # CliRegistry
  BY RegistryAssumption, CommandLineAssumption
<1>8. Apart
  BY <1>2, <1>3, <1>4, <1>6, <1>7, RegistryViewAssumption, CommandLineAssumption DEF Apart
<1> QED BY <1>1, <1>2, <1>3, <1>5, <1>6, <1>8 DEF TypedView, ViewTypeOK, CommandTypeOK

\* The steps that take a job leave everything but the queue and the work typed.
LEMMA TakeScanTyped == TypedView /\ TakeScan => TypedView'
<1> SUFFICES ASSUME TypedView, TakeScan PROVE TypedView'
  OBVIOUS
<1> USE RegistryViewAssumption, CommandLineAssumption
<1>1. TypeOK /\ Shaped /\ Apart /\ ViewTypeOK
  BY DEF TypedView, ViewTypeOK, CommandTypeOK
<1>2. PICK r \in Unused : /\ Continue(Gui, Scanning(r)) /\ Empty({r})
                          /\ jobs # <<>> /\ jobs' = Tail(jobs)
                          /\ UNCHANGED <<beside, shown, inbox, label, clicks>>
  BY <1>1, ScanTakes
<1>3. r \in Registries /\ r # CliRegistry
  BY <1>2 DEF Unused, InUse
<1>4. PICK v : v = Scanning(r)
  OBVIOUS
<1>5. v \in Work /\ Shape(v) /\ v.pc = "looking" /\ v.loaded = None /\ v.reg = r
  BY <1>3, <1>4, ScanningTyped
<1>6. /\ work' \in [Clients -> Work \cup {None}]
      /\ \A d \in Clients : work'[d] # None => (work'[d].pc = "storing" <=> work'[d].loaded # None)
      /\ Shaped'
      /\ work'[Gui] = v /\ \A d \in Clients \ {Gui} : work'[d] = work[d]
  BY <1>1, <1>2, <1>4, <1>5, WorkBegins
<1>7. lists' \in [Registries -> Seq(Entry)] /\ stale' \subseteq Registries \X Projects
  BY <1>1, <1>2, EmptyTyped
<1>8. TypeOK'
  BY <1>1, <1>2, <1>6, <1>7 DEF TypeOK, beside, disk
<1>9. jobs' \in Seq(Job) /\ \A i \in DOMAIN jobs' : i + 1 \in DOMAIN jobs /\ jobs'[i] = jobs[i + 1]
  BY <1>1, <1>2, QueueTail DEF ViewTypeOK
<1>10. \A i \in DOMAIN jobs' : Fit(jobs'[i])
  BY <1>1, <1>9 DEF Apart
<1>11. Apart'
  BY <1>1, <1>2, <1>3, <1>5, <1>6, <1>10 DEF Apart, Fit
<1> QED
  BY <1>1, <1>2, <1>6, <1>8, <1>9, <1>11 DEF TypedView, ViewTypeOK, CommandTypeOK, beside

LEMMA TakeOperationTyped == TypedView /\ TakeOperation => TypedView'
<1> SUFFICES ASSUME TypedView, TakeOperation PROVE TypedView'
  OBVIOUS
<1> USE RegistryViewAssumption, CommandLineAssumption
<1>1. TypeOK /\ Shaped /\ Apart /\ ViewTypeOK
  BY DEF TypedView, ViewTypeOK, CommandTypeOK
<1>2. PICK j : j = Head(jobs)
  OBVIOUS
<1>3. /\ jobs # <<>> /\ j.op # "scan" /\ (j.op = "restore" => Content(j.name) \in Projects)
      /\ Continue(Gui, Opened(j)) /\ jobs' = Tail(jobs)
      /\ UNCHANGED <<beside, lists, stale, shown, inbox, label, clicks>>
  BY <1>2 DEF TakeOperation, Free, Opened
<1>4. /\ jobs' \in Seq(Job) /\ \A i \in DOMAIN jobs' : i + 1 \in DOMAIN jobs /\ jobs'[i] = jobs[i + 1]
      /\ j \in Job /\ 1 \in DOMAIN jobs /\ j = jobs[1]
  BY <1>1, <1>2, <1>3, QueueTail DEF ViewTypeOK
<1>5. Fit(j) /\ \A i \in DOMAIN jobs' : Fit(jobs'[i])
  BY <1>1, <1>4 DEF Apart
<1>6. PICK v : v = Opened(j)
  OBVIOUS
<1>7. v \in Work /\ Shape(v) /\ v.pc = "ready" /\ v.loaded = None /\ v.reg = j.reg
  BY <1>1, <1>3, <1>4, <1>5, <1>6, OpenedTyped
<1>8. /\ work' \in [Clients -> Work \cup {None}]
      /\ \A d \in Clients : work'[d] # None => (work'[d].pc = "storing" <=> work'[d].loaded # None)
      /\ Shaped'
      /\ work'[Gui] = v /\ \A d \in Clients \ {Gui} : work'[d] = work[d]
  BY <1>1, <1>3, <1>6, <1>7, WorkBegins
<1>9. TypeOK'
  BY <1>1, <1>3, <1>8 DEF TypeOK, beside, disk
<1>10. v.reg # CliRegistry
  BY <1>3, <1>5, <1>7 DEF Fit
<1>11. Apart'
  BY <1>1, <1>3, <1>5, <1>8, <1>10 DEF Apart, Fit
<1> QED
  BY <1>1, <1>3, <1>4, <1>8, <1>9, <1>11 DEF TypedView, ViewTypeOK, CommandTypeOK, beside

\* The steps that end a job answer it.
LEMMA AnswerTyped ==
  ASSUME TypedView, NEW m \in Completion, m.reg # CliRegistry,
         inbox' = Append(inbox, m), Release,
         \/ work' = work /\ jobs # <<>> /\ jobs' = Tail(jobs)
         \/ work' = [work EXCEPT ![Gui] = None] /\ jobs' = jobs,
         UNCHANGED <<beside, shown, label, clicks>>
  PROVE  TypedView'
<1> USE RegistryViewAssumption, CommandLineAssumption
<1>1. TypeOK /\ Shaped /\ Apart /\ ViewTypeOK
  BY DEF TypedView, ViewTypeOK, CommandTypeOK
<1>2. /\ work' \in [Clients -> Work \cup {None}]
      /\ \A d \in Clients : work'[d] # None => (work'[d].pc = "storing" <=> work'[d].loaded # None)
      /\ Shaped'
      /\ \A d \in Clients : work'[d] # None => work'[d] = work[d]
  <2>1. CASE work' = work
    BY <1>1, <2>1 DEF TypeOK, Shaped, Shape
  <2>2. CASE work' = [work EXCEPT ![Gui] = None]
    BY <1>1, <2>2, WorkEnds
  <2> QED BY <2>1, <2>2
<1>3. lists' \in [Registries -> Seq(Entry)] /\ stale' \subseteq Registries \X Projects
  BY <1>1, ReleaseTyped
<1>4. TypeOK'
  BY <1>1, <1>2, <1>3 DEF TypeOK, beside, disk
<1>5. jobs' \in Seq(Job) /\ \A i \in DOMAIN jobs' : \E k \in DOMAIN jobs : jobs'[i] = jobs[k]
  <2>1. CASE jobs' = jobs
    BY <1>1, <2>1 DEF ViewTypeOK
  <2>2. CASE jobs # <<>> /\ jobs' = Tail(jobs)
    BY <1>1, <2>2, QueueTail DEF ViewTypeOK
  <2> QED BY <2>1, <2>2
<1>6. /\ inbox' \in Seq(Completion)
      /\ \A i \in DOMAIN inbox' : inbox'[i] = m \/ (i \in DOMAIN inbox /\ inbox'[i] = inbox[i])
  BY <1>1, QueueAppend DEF ViewTypeOK
<1>7. \A i \in DOMAIN jobs' : Fit(jobs'[i])
  BY <1>1, <1>5 DEF Apart
<1>8. \A i \in DOMAIN inbox' : inbox'[i].reg # CliRegistry
  BY <1>1, <1>6 DEF Apart
<1>9. Apart'
  BY <1>1, <1>2, <1>7, <1>8 DEF Apart, Fit
<1> QED
  BY <1>1, <1>2, <1>4, <1>5, <1>6, <1>9 DEF TypedView, ViewTypeOK, CommandTypeOK, beside

LEMMA AnswersTyped == TypedView /\ (TakeInVain \/ Complete) => TypedView'
<1> SUFFICES ASSUME TypedView, TakeInVain \/ Complete PROVE TypedView'
  OBVIOUS
<1> USE RegistryViewAssumption, CommandLineAssumption
<1>1. TypeOK /\ Shaped /\ Apart /\ ViewTypeOK
  BY DEF TypedView, ViewTypeOK, CommandTypeOK
<1>2. CASE TakeInVain
  <2>1. PICK j : j = Head(jobs)
    OBVIOUS
  <2>2. jobs # <<>> /\ j.op = "restore"
    BY <1>2, <2>1 DEF TakeInVain, Free
  <2>3. j \in Job /\ Fit(j)
    BY <1>1, <2>1, <2>2, QueueTail DEF ViewTypeOK, Apart
  <2>4. j.name \in Names \cup {None} /\ j.reg \in Registries \ {CliRegistry}
    BY <2>2, <2>3 DEF Fit
  <2>5. PICK m : m = [op |-> "restore", ok |-> FALSE, name |-> j.name, reg |-> j.reg]
    OBVIOUS
  <2>6. m \in Completion /\ m.reg # CliRegistry
    BY <2>4, <2>5, CompletionTyped DEF Operations
  <2>7. /\ inbox' = Append(inbox, m) /\ jobs' = Tail(jobs) /\ Release /\ work' = work
        /\ UNCHANGED <<beside, shown, label, clicks>>
    BY <1>2, <2>1, <2>5 DEF TakeInVain
  <2> QED BY <2>2, <2>6, <2>7, AnswerTyped
<1>3. CASE Complete
  <2>1. work[Gui] # None
    BY <1>3 DEF Complete, At
  <2>2. PICK m : m = [op |-> work[Gui].op, ok |-> work[Gui].ok,
                      name |-> work[Gui].name, reg |-> work[Gui].reg]
    OBVIOUS
  <2>3. m \in Completion /\ m.reg # CliRegistry
    <3> DEFINE w == work[Gui]
    <3>1. /\ w.op \in Operations /\ w.ok \in BOOLEAN /\ w.name \in Names \cup {None}
          /\ w.reg \in Registries /\ w.reg # CliRegistry
      BY <1>1, <2>1, WorkTyped DEF Apart
    <3> HIDE DEF w
    <3> QED BY <2>2, <3>1, CompletionTyped DEF w
  <2>4. /\ inbox' = Append(inbox, m) /\ Release /\ work' = [work EXCEPT ![Gui] = None] /\ jobs' = jobs
        /\ UNCHANGED <<beside, shown, label, clicks>>
    BY <1>3, <2>2 DEF Complete
  <2> QED BY <2>3, <2>4, AnswerTyped
<1> QED BY <1>2, <1>3

\* A client goes on with the job it has, and holds an archive only after loading one.
Same(v, w) == v.op = w.op /\ v.name = w.name /\ v.of = w.of /\ v.reg = w.reg

LEMMA SameJob ==
  ASSUME TypeOK, Shaped, NEW c \in Clients, ClientStep(c)
  PROVE  /\ work[c] # None /\ Same(work'[c], work[c])
         /\ \A d \in Clients \ {c} : work'[d] = work[d]
         /\ work'[c].pc = "storing" => LookupLoads(c)
<1> DEFINE w == work[c]
<1>1. w # None
  BY DEF ClientStep, Scans, Operates, LookupHit, LookupLoads, LookupNothing, Store, LookupEnds,
     FailEarly, BeginBackup, FailBackup, FinishBackup, BeginChange, FailChange, FinishRestore,
     Credit, FinishClean, Looks, Starts, Executes, At
<1>2. w \in Work
  BY <1>1, WorkTyped
<1>3. \E v : Continue(c, v) /\ Same(v, w) /\ (v.pc = "storing" => LookupLoads(c))
  <2>1. CASE LookupHit(c) \/ LookupNothing(c)
    <3>1. PICK v : Continue(c, v) /\ v = [w EXCEPT !.todo = Tail(@)]
      BY <2>1 DEF LookupHit, LookupNothing
    <3>2. w.pc = "looking"
      BY <2>1 DEF LookupHit, LookupNothing, Looks, At
    <3> HIDE DEF w
    <3>5. Same(v, w) /\ v.pc = w.pc
      BY <1>2, <3>1 DEF Work, Same
    <3> QED BY <3>1, <3>2, <3>5
  <2>2. CASE LookupLoads(c)
    <3>1. PICK v, y : Continue(c, v) /\ v = [w EXCEPT !.pc = "storing", !.loaded = y]
      BY <2>2 DEF LookupLoads
    <3> HIDE DEF w
    <3>5. Same(v, w)
      BY <1>2, <3>1 DEF Work, Same
    <3> QED BY <2>2, <3>1, <3>5
  <2>3. CASE Store(c)
    <3>1. PICK v : Continue(c, v) /\ v = [w EXCEPT !.pc = "looking", !.loaded = None, !.todo = Tail(@)]
      BY <2>3 DEF Store
    <3> HIDE DEF w
    <3>5. Same(v, w) /\ v.pc # "storing"
      BY <1>2, <3>1 DEF Work, Same
    <3> QED BY <3>1, <3>5
  <2>4. CASE LookupEnds(c)
    <3>1. PICK v : Continue(c, v) /\ v = [w EXCEPT !.pc = IF w.ok THEN "done" ELSE "ready"]
      BY <2>4 DEF LookupEnds
    <3>2. (IF w.ok THEN "done" ELSE "ready") # "storing"
      OBVIOUS
    <3> HIDE DEF w
    <3>5. Same(v, w) /\ v.pc # "storing"
      BY <1>2, <3>1, <3>2 DEF Work, Same
    <3> QED BY <3>1, <3>2, <3>5
  <2>5. CASE BeginBackup(c)
    <3>1. PICK v : Continue(c, v) /\ v = [w EXCEPT !.pc = "executing"]
      BY <2>5 DEF BeginBackup
    <3> HIDE DEF w
    <3>5. Same(v, w) /\ v.pc # "storing"
      BY <1>2, <3>1 DEF Work, Same
    <3> QED BY <3>1, <3>5
  <2>6. CASE BeginChange(c)
    <3>1. PICK v : Continue(c, v) /\ v = [w EXCEPT !.pc = "executing"]
      BY <2>6 DEF BeginChange
    <3> HIDE DEF w
    <3>5. Same(v, w) /\ v.pc # "storing"
      BY <1>2, <3>1 DEF Work, Same
    <3> QED BY <3>1, <3>5
  <2>7. CASE FinishRestore(c)
    <3>1. PICK v : Continue(c, v) /\ v = [w EXCEPT !.pc = "crediting"]
      BY <2>7 DEF FinishRestore
    <3> HIDE DEF w
    <3>5. Same(v, w) /\ v.pc # "storing"
      BY <1>2, <3>1 DEF Work, Same
    <3> QED BY <3>1, <3>5
  <2>8. CASE FailEarly(c) \/ FailBackup(c) \/ FailChange(c) \/ Credit(c) \/ FinishClean(c)
    <3>1. Ends(c, FALSE) \/ Ends(c, TRUE)
      BY <2>8 DEF FailEarly, FailBackup, FailChange, Credit, FinishClean
    <3>2. PICK v, y : Continue(c, v) /\ v = [w EXCEPT !.pc = "done", !.ok = y]
      BY <3>1 DEF Ends
    <3> HIDE DEF w
    <3>5. Same(v, w) /\ v.pc # "storing"
      BY <1>2, <3>2 DEF Work, Same
    <3> QED BY <3>2, <3>5
  <2>9. CASE FinishBackup(c)
    <3>1. PICK q, a : q = <<w.name>> /\ a = IF SomeInstalled(lists[w.reg], w.of)
                                            THEN "NotInstalled" ELSE "Installed"
      OBVIOUS
    <3>2. Continue(c, [w EXCEPT !.pc = "looking", !.ok = TRUE, !.todo = q, !.assumed = a])
      BY <2>9, <3>1 DEF FinishBackup
    <3>3. PICK v : v = [w EXCEPT !.pc = "looking", !.ok = TRUE, !.todo = q, !.assumed = a]
      OBVIOUS
    <3> HIDE DEF w
    <3>5. Same(v, w) /\ v.pc # "storing"
      BY <1>2, <3>3 DEF Work, Same
    <3> QED BY <3>2, <3>3, <3>5
  <2> QED BY <2>1, <2>2, <2>3, <2>4, <2>5, <2>6, <2>7, <2>8, <2>9 DEF ClientStep, Scans, Operates
<1>4. PICK v : Continue(c, v) /\ Same(v, w) /\ (v.pc = "storing" => LookupLoads(c))
  BY <1>3
<1>5. work' = [work EXCEPT ![c] = v] /\ work \in [Clients -> Work \cup {None}]
  BY <1>4 DEF Continue, TypeOK
<1>6. work'[c] = v /\ \A d \in Clients \ {c} : work'[d] = work[d]
  BY <1>5
<1> QED BY <1>1, <1>4, <1>6

LEMMA ClientStepTyped ==
  ASSUME TypedView, NEW c \in {Cli, Gui}, ClientStep(c), UNCHANGED <<commands, changes, guiVars>>,
         Remembers
  PROVE  TypedView'
<1> USE RegistryViewAssumption, CommandLineAssumption
<1>1. TypeOK /\ Shaped /\ Apart /\ ViewTypeOK
  BY DEF TypedView, ViewTypeOK, CommandTypeOK
<1>2. TypeOK' /\ Shaped'
  BY <1>1, ClientTyped
<1>3. /\ work[c] # None /\ work'[c].reg = work[c].reg
      /\ \A d \in Clients \ {c} : work'[d] = work[d]
  BY <1>1, SameJob DEF Same
<1>4. Apart'
  BY <1>1, <1>3 DEF Apart, Fit, guiVars
<1>5. held' \in [Files -> SUBSET Projects]
  BY <1>1 DEF ViewTypeOK, Remembers
<1> QED BY <1>1, <1>2, <1>4, <1>5 DEF TypedView, ViewTypeOK, CommandTypeOK, guiVars

-----------------------------------------------------------------------------

\* The UI shows the registry of an answer.
LEMMA ShowTyped == TypedView /\ ShowRegistry => TypedView'
<1> SUFFICES ASSUME TypedView, ShowRegistry PROVE TypedView'
  OBVIOUS
<1>1. TypeOK /\ Shaped /\ Apart /\ ViewTypeOK
  BY DEF TypedView, ViewTypeOK, CommandTypeOK
<1>2. /\ inbox # <<>> /\ shown' = Head(inbox).reg /\ inbox' = Tail(inbox) /\ Release
      /\ UNCHANGED <<beside, work, jobs, label, clicks>>
  BY DEF ShowRegistry
<1>3. /\ Head(inbox) \in Completion /\ inbox' \in Seq(Completion)
      /\ 1 \in DOMAIN inbox /\ Head(inbox) = inbox[1]
      /\ \A i \in DOMAIN inbox' : i + 1 \in DOMAIN inbox /\ inbox'[i] = inbox[i + 1]
  BY <1>1, <1>2, QueueTail DEF ViewTypeOK
<1>4. shown' \in Registries /\ shown' # CliRegistry
  BY <1>1, <1>2, <1>3 DEF Completion, Apart
<1>5. lists' \in [Registries -> Seq(Entry)] /\ stale' \subseteq Registries \X Projects
  BY <1>1, <1>2, ReleaseTyped
<1>6. TypeOK' /\ Shaped'
  BY <1>1, <1>2, <1>5 DEF TypeOK, Shaped, Shape, beside, disk
<1>7. Apart'
  BY <1>1, <1>2, <1>3, <1>4 DEF Apart, Fit
<1> QED
  BY <1>1, <1>2, <1>3, <1>4, <1>6, <1>7 DEF TypedView, ViewTypeOK, CommandTypeOK, beside

\* The UI may post a job of the registry shown, or a scan.
LEMMA PostTyped ==
  ASSUME TypedView, NEW job \in Job, Fit(job), jobs' = Append(jobs, job),
         UNCHANGED <<commandVars, held, shown>>,
         inbox' = inbox \/ (inbox # <<>> /\ inbox' = Tail(inbox)),
         label' \in Operations, clicks' \in 0 .. MaxClicks
  PROVE  TypedView'
<1>1. TypeOK /\ Shaped /\ Apart /\ ViewTypeOK
  BY DEF TypedView, ViewTypeOK, CommandTypeOK
<1>2. /\ jobs' \in Seq(Job)
      /\ \A i \in DOMAIN jobs' : jobs'[i] = job \/ (i \in DOMAIN jobs /\ jobs'[i] = jobs[i])
  BY <1>1, QueueAppend DEF ViewTypeOK
<1>3. inbox' \in Seq(Completion) /\ \A i \in DOMAIN inbox' : \E k \in DOMAIN inbox : inbox'[i] = inbox[k]
  <2>1. CASE inbox' = inbox
    BY <1>1, <2>1 DEF ViewTypeOK
  <2>2. CASE inbox # <<>> /\ inbox' = Tail(inbox)
    BY <1>1, <2>2, QueueTail DEF ViewTypeOK
  <2> QED BY <2>1, <2>2
<1>4. \A i \in DOMAIN jobs' : Fit(jobs'[i])
  BY <1>1, <1>2 DEF Apart
<1>5. Apart'
  BY <1>1, <1>3, <1>4 DEF Apart, Fit, commandVars
<1>6. TypeOK' /\ Shaped'
  BY <1>1 DEF TypeOK, Shaped, Shape, commandVars
<1> QED BY <1>1, <1>2, <1>3, <1>5, <1>6 DEF TypedView, ViewTypeOK, CommandTypeOK, commandVars

LEMMA HandleTyped == TypedView /\ HandleCompletion => TypedView'
<1> SUFFICES ASSUME TypedView, HandleCompletion PROVE TypedView'
  OBVIOUS
<1>1. ViewTypeOK /\ Apart /\ TypeOK /\ Shaped
  BY DEF TypedView, ViewTypeOK, CommandTypeOK
<1>2. /\ inbox # <<>> /\ inbox' = Tail(inbox) /\ UNCHANGED <<commandVars, held, shown, label, clicks>>
      /\ jobs' = Append(jobs, ScanJob) \/ jobs' = jobs
  BY DEF HandleCompletion
<1>3. CASE jobs' = Append(jobs, ScanJob)
  BY <1>1, <1>2, <1>3, ScanJobTyped, PostTyped DEF ViewTypeOK
<1>4. CASE jobs' = jobs
  <2>1. /\ inbox' \in Seq(Completion)
        /\ \A i \in DOMAIN inbox' : i + 1 \in DOMAIN inbox /\ inbox'[i] = inbox[i + 1]
    BY <1>1, <1>2, QueueTail DEF ViewTypeOK
  <2>2. Apart'
    BY <1>1, <1>2, <1>4, <2>1 DEF Apart, Fit, commandVars
  <2>3. TypeOK' /\ Shaped'
    BY <1>1, <1>2 DEF TypeOK, Shaped, Shape, commandVars
  <2> QED
    BY <1>1, <1>2, <1>4, <2>1, <2>2, <2>3 DEF TypedView, ViewTypeOK, CommandTypeOK, commandVars
<1> QED BY <1>2, <1>3, <1>4

LEMMA AsksTyped ==
  ASSUME TypedView, NEW job \in Job, Fit(job), Asks(job)
  PROVE  TypedView'
<1>1. ViewTypeOK
  BY DEF TypedView
<1>2. clicks' \in 0 .. MaxClicks /\ label' \in Operations
  BY <1>1, RegistryViewAssumption DEF Asks, ViewTypeOK, Job
<1> QED BY <1>2, PostTyped DEF Asks

LEMMA ClickTyped ==
  ASSUME TypedView, NEW op \in {"backup", "restore", "clean"}, NEW n \in Names \cup {None},
         NEW x \in Projects \cup {None}, Click(op, n, x),
         op \in {"backup", "clean"} => x \in Projects, op \in {"backup", "restore"} => n \in Names
  PROVE  TypedView'
<1>1. PICK job : job = [op |-> op, name |-> n, of |-> x, reg |-> shown]
  OBVIOUS
<1>2. Asks(job) /\ shown # None
  BY <1>1 DEF Click
<1>3. shown \in Registries \ {CliRegistry}
  BY <1>2 DEF TypedView, ViewTypeOK, Apart
<1>4. job \in Job /\ Fit(job)
  BY <1>1, <1>3 DEF Job, Fit, Operations
<1> QED BY <1>2, <1>4, AsksTyped

LEMMA RestartTyped == TypedView /\ Restart => TypedView'
<1> SUFFICES ASSUME TypedView, Restart PROVE TypedView'
  OBVIOUS
<1> USE RegistryViewAssumption, CommandLineAssumption
<1>1. TypeOK /\ Shaped /\ Apart /\ ViewTypeOK
  BY DEF TypedView, ViewTypeOK, CommandTypeOK
<1>2. /\ clicks < MaxClicks /\ clicks' = clicks + 1 /\ work' = [work EXCEPT ![Gui] = None]
      /\ shown' = None /\ jobs' = <<ScanJob>> /\ inbox' = <<>> /\ label' = "scan"
      /\ UNCHANGED beside /\ Release
  BY DEF Restart
<1>3. /\ work' \in [Clients -> Work \cup {None}]
      /\ \A d \in Clients : work'[d] # None => (work'[d].pc = "storing" <=> work'[d].loaded # None)
      /\ Shaped'
      /\ work'[Gui] = None /\ \A d \in Clients \ {Gui} : work'[d] = work[d]
  BY <1>1, <1>2, WorkEnds
<1>4. lists' \in [Registries -> Seq(Entry)] /\ stale' \subseteq Registries \X Projects
  BY <1>1, <1>2, ReleaseTyped
<1>5. TypeOK'
  BY <1>1, <1>2, <1>3, <1>4 DEF TypeOK, beside, disk
<1>6. jobs' \in Seq(Job) /\ (\A i \in DOMAIN jobs' : Fit(jobs'[i])) /\ inbox' \in Seq(Completion)
      /\ DOMAIN inbox' = {}
  BY <1>2, ScanJobTyped
<1>7. None # CliRegistry
  BY RegistryAssumption
<1>8. Apart'
  BY <1>1, <1>2, <1>3, <1>6, <1>7 DEF Apart, Fit
<1> QED
  BY <1>1, <1>2, <1>3, <1>5, <1>6, <1>8 DEF TypedView, ViewTypeOK, CommandTypeOK, beside, Operations

LEMMA UserTyped == TypedView /\ User => TypedView'
<1> SUFFICES ASSUME TypedView, User PROVE TypedView'
  OBVIOUS
<1>1. CASE ClickRefresh
  BY <1>1, AsksTyped, ScanJobTyped DEF ClickRefresh
<1>2. ASSUME NEW x \in Projects, ClickUninstall(x) PROVE TypedView'
  BY <1>2, ClickTyped DEF ClickUninstall
<1>3. ASSUME NEW x \in Projects, NEW n \in Names, ClickBackup(x, n) PROVE TypedView'
  BY <1>3, ClickTyped DEF ClickBackup
<1>4. ASSUME shown # None, NEW i \in DOMAIN lists[shown], ClickRestore(i) PROVE TypedView'
  <2>1. PICK n : n = lists[shown][i].name
    OBVIOUS
  <2>2. lists[shown] \in Seq(Entry)
    BY <1>4 DEF TypedView, ViewTypeOK, CommandTypeOK, TypeOK
  <2>3. lists[shown][i] \in Entry
    BY <1>4, <2>2
  <2>4. n \in Names
    BY <2>1, <2>3 DEF Entry
  <2> QED BY <1>4, <2>1, <2>4, ClickTyped DEF ClickRestore
<1> QED BY <1>1, <1>2, <1>3, <1>4, RestartTyped DEF User

-----------------------------------------------------------------------------

\* Commands keep to their own registry.
LEMMA CommandBeginsTyped ==
  ASSUME TypedView, Commands \/ EndCommand, UNCHANGED guiVars, Remembers
  PROVE  TypedView'
<1> USE RegistryViewAssumption, CommandLineAssumption
<1>1. TypeOK /\ Shaped /\ Apart /\ ViewTypeOK
  BY DEF TypedView, ViewTypeOK, CommandTypeOK
<1>2. /\ TypeOK' /\ Shaped' /\ commands' \in 0 .. MaxCommands /\ changes' \in 0 .. MaxChanges
      /\ work'[Cli] # None => work'[Cli].reg = CliRegistry
      /\ \A d \in Clients \ {Cli} : work'[d] = work[d]
  <2>1. CASE Commands
    <3>1. PICK op \in Operations, n \in Names \cup {None}, x \in Projects \cup {None},
               origin \in Names \cup {None} :
                /\ Command(op, n, x, origin)
                /\ op # "scan" => x \in Projects
                /\ op \in {"backup", "restore"} => n \in Names
      BY <1>1, <2>1, CommandsBegin
    <3>2. PICK v : v = Opening(op, n, x, origin)
      OBVIOUS
    <3>3. v.reg = CliRegistry
      BY <3>1, <3>2, OpeningTyped
    <3>4. /\ work' = [work EXCEPT ![Cli] = v] /\ commands < MaxCommands /\ commands' = commands + 1
          /\ UNCHANGED changes
      BY <3>1, <3>2, CommandOpens DEF Continue
    <3>5. work'[Cli] = v /\ \A d \in Clients \ {Cli} : work'[d] = work[d]
      BY <1>1, <3>4 DEF TypeOK
    <3>6. commands' \in 0 .. MaxCommands /\ changes' \in 0 .. MaxChanges
      BY <1>1, <3>4 DEF ViewTypeOK, CommandTypeOK
    <3> QED BY <1>1, <2>1, <3>3, <3>5, <3>6, CommandsTyped
  <2>2. CASE EndCommand
    <3>1. work' = [work EXCEPT ![Cli] = None] /\ UNCHANGED <<commands, changes>> /\ Exit
      BY <2>2 DEF EndCommand, Exit
    <3>2. work'[Cli] = None /\ \A d \in Clients \ {Cli} : work'[d] = work[d]
      BY <1>1, <3>1 DEF TypeOK
    <3>3. files' \in [Files -> Projects \cup {"Absent", "Broken"}]
      BY <1>1, <2>2 DEF EndCommand, TypeOK
    <3> QED BY <1>1, <3>1, <3>2, <3>3, ExitTyped DEF ViewTypeOK, CommandTypeOK
  <2> QED BY <2>1, <2>2
<1>3. Apart'
  BY <1>1, <1>2 DEF Apart, Fit, guiVars
<1>4. held' \in [Files -> SUBSET Projects]
  BY <1>1 DEF ViewTypeOK, Remembers
<1> QED BY <1>1, <1>2, <1>3, <1>4 DEF TypedView, ViewTypeOK, CommandTypeOK, guiVars

LEMMA TypedStep == TypedView /\ [ViewNext]_viewVars => TypedView'
<1> SUFFICES ASSUME TypedView, [ViewNext]_viewVars PROVE TypedView'
  OBVIOUS
<1>1. CASE Worker
  BY <1>1, TakeScanTyped, TakeOperationTyped, AnswersTyped, ClientStepTyped DEF Worker
<1>2. CASE Handle \/ User
  BY <1>2, ShowTyped, HandleTyped, UserTyped DEF Handle
<1>3. CASE CommandRuns /\ UNCHANGED guiVars /\ Remembers
  BY <1>3, CommandBeginsTyped, ClientStepTyped DEF CommandRuns
<1>4. CASE UNCHANGED viewVars
  BY <1>4 DEF viewVars, commandVars, guiVars, TypedView, ViewTypeOK, CommandTypeOK, TypeOK, Shaped,
     Shape, Apart, Fit
<1> QED BY <1>1, <1>2, <1>3, <1>4 DEF ViewNext

\* The registry shown, the jobs and the answers are of the kinds the code has: in
\* particular the worker is never given a job without the project or the name that
\* the job needs, and the GUI and a command never work with one registry.
THEOREM TheViewIsTyped == ViewSpec => []ViewTypeOK
<1>1. TypedView => ViewTypeOK
  BY DEF TypedView
<1> QED BY <1>1, InitTyped, TypedStep, PTL DEF ViewSpec

-----------------------------------------------------------------------------
(* Of which projects a file has been a snapshot.                           *)

\* The archives, the cache, the lists, and the jobs, know a file as a snapshot of
\* a project that it has been.
FilesHeld == \A f \in Files : files[f] \in Projects => files[f] \in held[f]

RowsHeld == \A n \in Names : rows[n] # None => rows[n].of \in held[FileOf[n]]

Known(e) == e.of \in held[FileOf[e.name]] /\ rows[e.name] # None

ListsHeld == \A r \in Registries : \A i \in DOMAIN lists[r] : Known(lists[r][i])

WorkHeld ==
    \A c \in Clients : work[c] # None =>
        /\ work[c].pc = "storing" => work[c].loaded.of \in held[FileOf[work[c].loaded.name]]
        /\ work[c].op = "restore" => work[c].of \in held[FileOf[work[c].name]]

Holding == FilesHeld /\ RowsHeld /\ ListsHeld /\ WorkHeld

\* What a file has been is never forgotten.
Grows == FilesHeld' /\ \A f \in Files : held[f] \subseteq held'[f]

LEMMA RemembersGrows ==
  ASSUME TypedView, FilesHeld, Remembers \/ UNCHANGED <<files, held>>
  PROVE  Grows
<1>1. CASE Remembers
  BY <1>1 DEF Remembers, Grows, FilesHeld
<1>2. CASE UNCHANGED <<files, held>>
  BY <1>2 DEF Grows, FilesHeld
<1> QED BY <1>1, <1>2

LEMMA HistoryGrows ==
  ASSUME TypedView, FilesHeld, [ViewNext]_viewVars
  PROVE  Grows
<1>1. Remembers \/ UNCHANGED <<files, held>>
  BY DEF ViewNext, Worker, Handle, User, TakeScan, TakeOperation, TakeInVain, Complete, ShowRegistry,
     HandleCompletion, ClickRefresh, ClickUninstall, ClickBackup, ClickRestore, Click, Asks, Restart,
     viewVars, commandVars, beside, disk
<1> QED BY <1>1, RemembersGrows

\* The rows stay, and keep their status.
RowsRest ==
    \A n \in Names : /\ rows[n] # None <=> rows'[n] # None
                     /\ rows[n] # None => /\ rows'[n].of = rows[n].of
                                          /\ rows'[n].status = rows[n].status

\* A list is as it was, and what it missed before it has missed now.
Rests(r) == lists'[r] = lists[r] /\ \A x \in Projects : <<r, x>> \in stale => <<r, x>> \in stale'

ListsRest == \A r \in Registries : lists'[r] = <<>> \/ Rests(r)

LEMMA EntryOf ==
  ASSUME TypeOK, NEW r \in Registries, NEW i \in DOMAIN lists[r]
  PROVE  /\ lists[r] \in Seq(Entry) /\ lists[r][i] \in Entry
         /\ lists[r][i].name \in Names /\ lists[r][i].of \in Projects
         /\ lists[r][i].status \in Statuses /\ FileOf[lists[r][i].name] \in Files
         /\ i \in Nat
<1>1. lists[r] \in Seq(Entry)
  BY DEF TypeOK
<1>2. lists[r][i] \in Entry /\ i \in Nat
  BY <1>1
<1> QED BY <1>1, <1>2, RegistryAssumption DEF Entry

LEMMA KnownStays ==
  ASSUME TypeOK, Grows, NEW e \in Entry, Known(e),
         \A n \in Names : rows[n] # None => rows'[n] # None
  PROVE  Known(e)'
<1>1. e.name \in Names /\ FileOf[e.name] \in Files
  BY RegistryAssumption DEF Entry
<1> QED BY <1>1 DEF Known, Grows

\* When rows and lists rest, they are known as before.
LEMMA RestHeld ==
  ASSUME TypeOK, RowsHeld, ListsHeld, Grows, RowsRest, ListsRest
  PROVE  RowsHeld' /\ ListsHeld'
<1>1. \A n \in Names : FileOf[n] \in Files
  BY RegistryAssumption
<1>2. RowsHeld'
  BY <1>1 DEF RowsHeld, RowsRest, Grows
<1>3. ASSUME NEW r \in Registries, NEW i \in DOMAIN lists'[r] PROVE Known(lists[r][i])'
  <2>1. lists'[r] = lists[r]
    BY <1>3 DEF ListsRest, Rests
  <2>2. lists[r][i] \in Entry /\ Known(lists[r][i])
    BY <1>3, <2>1, EntryOf DEF ListsHeld
  <2>3. PICK e \in Entry : e = lists[r][i] /\ Known(e)
    BY <2>2
  <2>4. Known(e)'
    BY <2>3, KnownStays DEF RowsRest
  <2>5. lists'[r][i] = e
    BY <2>1, <2>3
  <2> QED BY <2>4, <2>5 DEF Known
<1>4. ListsHeld'
  BY <1>3 DEF ListsHeld
<1> QED BY <1>2, <1>4

-----------------------------------------------------------------------------
(* What a list tells.                                                      *)

\* The first entry of its name.
Leads(list, i) == \A j \in DOMAIN list : list[j].name = list[i].name => i <= j

\* An entry for the name n that is the first, has missed nothing, and is plain.
Counts(r, i, n) ==
    LET e == lists[r][i] IN
    e.name = n /\ Leads(lists[r], i) /\ <<r, e.of>> \notin stale /\ Plain(e)

Tells(r, n, s) == \A i \in DOMAIN lists[r] : Counts(r, i, n) => lists[r][i].status = s

\* Of such a name every list tells the status that the cache has.
AllAgree ==
    \A r \in Registries, n \in Names, s \in Statuses :
        (rows[n] # None /\ rows[n].status = s) => Tells(r, n, s)

\* The status with which an archive was loaded is what the list still tells when
\* the row is written.
Storing ==
    \A c \in Clients, r \in Registries, n \in Names, s \in Statuses :
        (/\ work[c] # None /\ work[c].pc = "storing" /\ work[c].reg = r
         /\ work[c].loaded.name = n /\ work[c].loaded.status = s) => Tells(r, n, s)

\* A file that is plain has been plain.
LEMMA PlainBefore ==
  ASSUME TypeOK, Grows, NEW e \in Entry, Known(e), Plain(e)'
  PROVE  Plain(e) /\ held'[FileOf[e.name]] = {e.of}
<1>1. FileOf[e.name] \in Files
  BY RegistryAssumption DEF Entry
<1>2. held[FileOf[e.name]] \subseteq {e.of} /\ e.of \in held[FileOf[e.name]]
  BY <1>1 DEF Grows, Plain, Known
<1> QED BY <1>2 DEF Plain

LEMMA TellsStill ==
  ASSUME TypeOK, ListsHeld, Grows, NEW r \in Registries, NEW n \in Names, NEW s \in Statuses,
         lists'[r] = <<>> \/ Rests(r), Tells(r, n, s)
  PROVE  Tells(r, n, s)'
<1>1. SUFFICES ASSUME NEW i \in DOMAIN lists'[r], Counts(r, i, n)' PROVE lists'[r][i].status = s
  BY DEF Tells
<1>2. Rests(r) /\ lists'[r] = lists[r]
  BY <1>1 DEF Rests
<1>3. PICK e \in Entry : e = lists[r][i] /\ Known(e) /\ e.of \in Projects
  BY <1>1, <1>2, EntryOf DEF ListsHeld
<1>4. lists'[r][i] = e
  BY <1>2, <1>3
<1>5. e.name = n /\ Leads(lists[r], i) /\ <<r, e.of>> \notin stale' /\ Plain(e)'
  BY <1>1, <1>2, <1>4 DEF Counts, Plain
<1>6. Plain(e)
  BY <1>3, <1>5, PlainBefore
<1>7. Counts(r, i, n)
  BY <1>2, <1>3, <1>5, <1>6 DEF Counts, Rests
<1> QED BY <1>1, <1>2, <1>3, <1>4, <1>7 DEF Tells

LEMMA RestAgrees ==
  ASSUME TypeOK, ListsHeld, AllAgree, Grows, RowsRest, ListsRest
  PROVE  AllAgree'
<1>1. SUFFICES ASSUME NEW r \in Registries, NEW n \in Names, NEW s \in Statuses,
                      rows'[n] # None, rows'[n].status = s
               PROVE  Tells(r, n, s)'
  BY DEF AllAgree
<1>2. rows[n] # None /\ rows[n].status = s
  BY <1>1 DEF RowsRest
<1> QED BY <1>2, TellsStill DEF AllAgree, ListsRest

\* An entry is added that has the status the others of its name are to have.
LEMMA AppendTells ==
  ASSUME TypeOK, ListsHeld, Grows, NEW r \in Registries, NEW n \in Names, NEW s \in Statuses,
         NEW e \in Entry, lists'[r] = Append(lists[r], e), e.name = n => e.status = s,
         \A x \in Projects : <<r, x>> \in stale => <<r, x>> \in stale',
         Tells(r, n, s)
  PROVE  Tells(r, n, s)'
<1>1. SUFFICES ASSUME NEW i \in DOMAIN lists'[r], Counts(r, i, n)' PROVE lists'[r][i].status = s
  BY DEF Tells
<1>2. PICK list \in Seq(Entry) : list = lists[r] /\ lists'[r] = Append(list, e)
  BY DEF TypeOK
<1>3. (i \in DOMAIN list /\ lists'[r][i] = list[i]) \/ (lists'[r][i] = e)
  BY <1>1, <1>2, QueueAppend
<1>4. CASE lists'[r][i] = e
  <2>1. e.name = n
    BY <1>1, <1>4 DEF Counts
  <2> QED BY <1>4, <2>1
<1>5. CASE i \in DOMAIN list /\ lists'[r][i] = list[i]
  <2>1. PICK d \in Entry : d = list[i] /\ Known(d) /\ d.of \in Projects
    BY <1>2, <1>5, EntryOf DEF ListsHeld
  <2>2. d.name = n /\ Leads(lists'[r], i) /\ <<r, d.of>> \notin stale' /\ Plain(d)'
    BY <1>1, <1>5, <2>1 DEF Counts, Plain, Leads
  <2>3. Plain(d)
    BY <2>1, <2>2, PlainBefore
  <2>4. Leads(list, i)
    <3>1. \A j \in DOMAIN list : j \in DOMAIN Append(list, e) /\ Append(list, e)[j] = list[j]
      OBVIOUS
    <3> QED BY <1>2, <1>5, <2>2, <3>1 DEF Leads
  <2>5. Counts(r, i, n)
    BY <1>2, <2>1, <2>2, <2>3, <2>4 DEF Counts
  <2> QED BY <1>2, <1>5, <2>5 DEF Tells
<1> QED BY <1>3, <1>4, <1>5

-----------------------------------------------------------------------------
(* The steps of a client.                                                  *)

\* The lists of other registries rest.
LEMMA ElsewhereRests ==
  ASSUME TypeOK, NEW c \in Clients, ClientStep(c), work[c] # None
  PROVE  \A r \in Registries \ {work[c].reg} : Rests(r)
<1>1. work[c].reg \in Registries
  BY WorkTyped
<1>2. \A r \in Registries \ {work[c].reg} : lists'[r] = lists[r]
  BY <1>1 DEF TypeOK, ClientStep, Scans, Operates, LookupHit, LookupLoads, LookupNothing, Store,
     LookupEnds, FailEarly, BeginBackup, FailBackup, FinishBackup, BeginChange, FailChange,
     FinishRestore, Credit, FinishClean, Admit, UnmarkAll
<1>3. \A r \in Registries \ {work[c].reg}, x \in Projects : <<r, x>> \in stale => <<r, x>> \in stale'
  BY <1>1 DEF ClientStep, Scans, Operates, LookupHit, LookupLoads, LookupNothing, Store,
     LookupEnds, FailEarly, BeginBackup, FailBackup, FinishBackup, BeginChange, FailChange,
     FinishRestore, Credit, FinishClean, UnmarkAll, Untold, Missed
<1> QED BY <1>2, <1>3 DEF Rests

\* The steps in which a client adds no entry, and tells nobody anything.
LEMMA OutdateRests ==
  ASSUME TypeOK, NEW f, Outdate(f)
  PROVE  RowsRest
<1>1. \A n \in Names : rows[n] # None => rows[n] \in Row
  BY DEF TypeOK
<1>2. \A row \in Row : LET v == [row EXCEPT !.fresh = FALSE] IN
                         v # None /\ v.of = row.of /\ v.status = row.status
  BY NoneAssumption DEF Row
<1> QED BY <1>1, <1>2 DEF Outdate, RowsRest

LEMMA SilentRests ==
  ASSUME TypeOK, NEW c \in Clients,
         \/ LookupLoads(c) \/ LookupNothing(c) \/ LookupEnds(c) \/ FailEarly(c) \/ BeginBackup(c)
         \/ FailBackup(c) \/ FinishBackup(c) \/ BeginChange(c) \/ FailChange(c)
  PROVE  RowsRest /\ ListsRest
<1>1. lists' = lists /\ stale' = stale
  BY DEF LookupLoads, LookupNothing, LookupEnds, FailEarly, BeginBackup, FailBackup, FinishBackup,
     BeginChange, FailChange
<1>2. rows' = rows \/ \E f : Outdate(f)
  BY DEF LookupLoads, LookupNothing, LookupEnds, FailEarly, BeginBackup, FailBackup, FinishBackup,
     BeginChange, FailChange, WriteArchive, disk
<1>3. RowsRest
  BY <1>2, OutdateRests DEF RowsRest
<1> QED BY <1>1, <1>3 DEF ListsRest, Rests

\* An entry is added, of what the file has been; the row may be written anew.
LEMMA AppendHeld ==
  ASSUME TypeOK, RowsHeld, ListsHeld, Grows, NEW c \in Clients, work[c] # None, NEW e \in Entry,
         Admit(c, e), e.of \in held[FileOf[e.name]], rows'[e.name] # None,
         rows'[e.name].of = e.of,
         \A n \in Names : n # e.name => rows'[n] = rows[n]
  PROVE  RowsHeld' /\ ListsHeld'
<1>1. \A n \in Names : FileOf[n] \in Files
  BY RegistryAssumption
<1>2. e.name \in Names
  BY DEF Entry
<1>3. RowsHeld'
  BY <1>1, <1>2 DEF RowsHeld, Grows
<1>4. Known(e)'
  BY <1>1, <1>2 DEF Known, Grows
<1>5. \A n \in Names : rows[n] # None => rows'[n] # None
  OBVIOUS
<1>6. PICK reg \in Registries : reg = work[c].reg
  BY WorkTyped
<1>7. lists' = [lists EXCEPT ![reg] = Append(@, e)]
  BY <1>6 DEF Admit
<1>8. ASSUME NEW r \in Registries, NEW i \in DOMAIN lists'[r] PROVE Known(lists[r][i])'
  <2>1. PICK list \in Seq(Entry) : list = lists[r]
    BY DEF TypeOK
  <2>2. lists'[r] = list \/ lists'[r] = Append(list, e)
    BY <1>7, <2>1 DEF TypeOK
  <2>3. (i \in DOMAIN list /\ lists'[r][i] = list[i]) \/ lists'[r][i] = e
    BY <1>8, <2>1, <2>2, QueueAppend
  <2>4. CASE i \in DOMAIN list /\ lists'[r][i] = list[i]
    <3>1. PICK d \in Entry : d = list[i] /\ Known(d)
      BY <2>1, <2>4, EntryOf DEF ListsHeld
    <3>2. Known(d)'
      BY <1>5, <3>1, KnownStays
    <3> QED BY <2>4, <3>1, <3>2 DEF Known
  <2>5. CASE lists'[r][i] = e
    BY <1>4, <2>5 DEF Known
  <2> QED BY <2>3, <2>4, <2>5
<1> QED BY <1>3, <1>8 DEF ListsHeld

\* A scan takes an entry from the cache.
LEMMA HitAgrees ==
  ASSUME TypeOK, Shaped, RowsHeld, ListsHeld, AllAgree, Grows, NEW c \in Clients, LookupHit(c)
  PROVE  RowsHeld' /\ ListsHeld' /\ AllAgree'
<1>1. PICK m : m = Head(work[c].todo)
  OBVIOUS
<1>2. PICK e : e = [name |-> m, of |-> rows[m].of, status |-> rows[m].status]
  OBVIOUS
<1>3. /\ work[c] # None /\ work[c].todo # <<>> /\ rows[m] # None
      /\ Admit(c, e) /\ UNCHANGED <<rows, stale>>
  BY <1>1, <1>2 DEF LookupHit, Looks, At, Fresh, disk
<1>4. m \in Names /\ rows[m] \in Row
  BY <1>1, <1>3, WorkTyped DEF TypeOK
<1>5. e \in Entry /\ e.name = m /\ e.of = rows[m].of /\ e.status = rows[m].status
  BY <1>2, <1>4 DEF Row, Entry
<1>6. RowsHeld' /\ ListsHeld'
  BY <1>3, <1>4, <1>5, AppendHeld DEF RowsHeld
<1>7. PICK reg \in Registries : reg = work[c].reg
  BY <1>3, WorkTyped
<1>8. lists' = [lists EXCEPT ![reg] = Append(@, e)]
  BY <1>3, <1>7 DEF Admit
<1>9. ASSUME NEW r \in Registries, NEW n \in Names, NEW s \in Statuses, rows'[n] # None,
             rows'[n].status = s
      PROVE  Tells(r, n, s)'
  <2>1. Tells(r, n, s)
    BY <1>3, <1>9 DEF AllAgree
  <2>2. CASE r = reg
    <3>1. lists'[r] = Append(lists[r], e)
      BY <1>8, <2>2 DEF TypeOK
    <3> QED BY <1>3, <1>5, <1>9, <2>1, <3>1, AppendTells
  <2>3. CASE r # reg
    <3>1. Rests(r)
      BY <1>3, <1>8, <2>3 DEF TypeOK, Rests
    <3> QED BY <2>1, <3>1, TellsStill
  <2> QED BY <2>2, <2>3
<1> QED BY <1>6, <1>9 DEF AllAgree

\* A scan writes a row anew, with the status that its archive was loaded with.
LEMMA StoreAgrees ==
  ASSUME TypeOK, Shaped, RowsHeld, ListsHeld, WorkHeld, AllAgree, Storing, Grows,
         NEW c \in Clients, Store(c)
  PROVE  RowsHeld' /\ ListsHeld' /\ AllAgree'
<1>1. PICK e : e = work[c].loaded
  OBVIOUS
<1>2. PICK row : row = [of |-> e.of, fresh |-> Content(e.name) = e.of, status |-> e.status]
  OBVIOUS
<1>3. /\ work[c] # None /\ work[c].pc = "storing" /\ e # None /\ Admit(c, e)
      /\ rows' = [rows EXCEPT ![e.name] = row]
      /\ \/ stale' = stale /\ StatusFor(e.name, "Unknown") = e.status
         \/ stale' = Missed(work[c].reg, e.of)
  BY <1>1, <1>2 DEF Store, At, TypeOK, Untold
<1>4. e \in Entry /\ e.of \in held[FileOf[e.name]]
  BY <1>1, <1>3, WorkTyped DEF WorkHeld
<1>5. e.name \in Names /\ e.status \in Statuses /\ e.of \in Projects /\ FileOf[e.name] \in Files
  BY <1>4, RegistryAssumption DEF Entry
<1>6. row \in Row /\ row.of = e.of /\ row.status = e.status /\ row # None
  <2>1. [of |-> e.of, fresh |-> Content(e.name) = e.of, status |-> e.status] \in Row
    BY <1>5 DEF Row
  <2>2. row.of = e.of /\ row.status = e.status
    BY <1>2
  <2> QED BY <1>2, <2>1, <2>2, NoneAssumption
<1>7. \A n \in Names : rows'[n] = IF n = e.name THEN row ELSE rows[n]
  BY <1>3, <1>5 DEF TypeOK
<1>8. RowsHeld' /\ ListsHeld'
  <2>1. rows'[e.name] # None /\ rows'[e.name].of = e.of
    BY <1>5, <1>6, <1>7
  <2>2. \A n \in Names : n # e.name => rows'[n] = rows[n]
    BY <1>7
  <2> QED BY <1>3, <1>4, <2>1, <2>2, AppendHeld
<1>9. PICK reg \in Registries : reg = work[c].reg
  BY <1>3, WorkTyped
<1>10. lists' = [lists EXCEPT ![reg] = Append(@, e)]
  BY <1>3, <1>9 DEF Admit
<1>11. \A t \in Registries, x \in Projects : <<t, x>> \in stale => <<t, x>> \in stale'
  BY <1>3 DEF Missed
<1>12. ASSUME NEW r \in Registries, NEW n \in Names, NEW s \in Statuses, rows'[n] # None,
              rows'[n].status = s
       PROVE  Tells(r, n, s)'
  <2>1. CASE r = reg
    <3>1. lists'[r] = Append(lists[r], e)
      BY <1>10, <2>1 DEF TypeOK
    <3>2. e.name = n => e.status = s
      BY <1>6, <1>7, <1>12
    <3>3. Tells(r, n, s)
      <4>1. CASE n = e.name
        BY <1>1, <1>3, <1>9, <2>1, <3>2, <4>1 DEF Storing
      <4>2. CASE n # e.name
        BY <1>7, <1>12, <4>2 DEF AllAgree
      <4> QED BY <4>1, <4>2
    <3> QED BY <1>4, <1>11, <3>1, <3>2, <3>3, AppendTells
  <2>2. CASE r # reg
    <3>1. Rests(r)
      BY <1>10, <1>11, <2>2 DEF TypeOK, Rests
    <3>2. CASE Tells(r, n, s)
      BY <3>1, <3>2, TellsStill
    <3>3. CASE rows[n] # None /\ rows[n].status = s
      BY <3>1, <3>3, TellsStill DEF AllAgree
    <3>4. CASE n = e.name /\ rows[n] = None
      <4>1. \A i \in DOMAIN lists[r] : lists[r][i].name # n
        BY <3>4 DEF ListsHeld, Known
      <4>2. Tells(r, n, s)
        BY <4>1 DEF Tells, Counts
      <4> QED BY <4>2, <3>2
    <3>5. CASE n = e.name /\ rows[n] # None /\ rows[n].status # s
      <4>1. stale' = Missed(reg, e.of)
        BY <1>3, <1>6, <1>7, <1>9, <1>12, <3>5 DEF StatusFor
      <4>2. SUFFICES ASSUME NEW i \in DOMAIN lists'[r], Counts(r, i, n)' PROVE FALSE
        BY DEF Tells
      <4>3. PICK d \in Entry : d = lists[r][i] /\ d = lists'[r][i] /\ i \in DOMAIN lists[r] /\ Known(d)
                               /\ d.of \in Projects
        BY <3>1, <4>2, EntryOf DEF Rests, ListsHeld
      <4>4. d.name = n /\ <<r, d.of>> \notin stale' /\ Plain(d)'
        BY <4>2, <4>3 DEF Counts, Plain
      <4>5. held'[FileOf[n]] = {d.of}
        BY <4>3, <4>4, PlainBefore
      <4>6. e.of = d.of
        BY <1>4, <1>5, <3>5, <4>5 DEF Grows
      <4>7. Holds(lists[r], e.of)
        BY <4>3, <4>6 DEF Holds
      <4> QED BY <2>2, <4>1, <4>4, <4>6, <4>7 DEF Missed
    <3>6. rows'[n] = rows[n] \/ n = e.name
      BY <1>7
    <3> QED BY <1>12, <3>3, <3>4, <3>5, <3>6
  <2> QED BY <2>1, <2>2
<1> QED BY <1>8, <1>12 DEF AllAgree

\* When a restore or a clean has succeeded, nothing of its project is marked any more,
\* in the list of the job and in the cache; what the other lists tell of it is missed.
LEMMA UnmarkAgrees ==
  ASSUME TypeOK, Shaped, RowsHeld, ListsHeld, AllAgree, Grows,
         NEW c \in Clients, FinishRestore(c) \/ FinishClean(c)
  PROVE  RowsHeld' /\ ListsHeld' /\ AllAgree'
<1>1. PICK x : x = work[c].of
  OBVIOUS
<1>2. work[c] # None /\ work[c].op # "scan" /\ UnmarkAll(c)
  BY DEF FinishRestore, FinishClean, Executes, At
<1>3. PICK reg \in Registries : reg = work[c].reg
  BY <1>2, WorkTyped
<1>4. x \in Projects
  BY <1>1, <1>2 DEF Shaped, Shape
<1>5. \A n \in Names : rows'[n] = IF rows[n] # None /\ x \in Mentions[rows[n].of]
                                 THEN [rows[n] EXCEPT !.status = "NotInstalled"] ELSE rows[n]
  BY <1>1, <1>2 DEF UnmarkAll, MarkAllNotInstalled
<1>6. \A row \in Row : LET v == [row EXCEPT !.status = "NotInstalled"] IN
                         v # None /\ v.of = row.of /\ v.status = "NotInstalled"
  BY NoneAssumption DEF Row, Statuses
<1>7. \A n \in Names : /\ rows'[n] # None <=> rows[n] # None
                       /\ rows[n] # None => rows'[n].of = rows[n].of
                       /\ rows[n] # None /\ x \in Mentions[rows[n].of] => rows'[n].status = "NotInstalled"
                       /\ rows[n] # None /\ x \notin Mentions[rows[n].of] => rows'[n] = rows[n]
  <2>1. SUFFICES ASSUME NEW n \in Names, rows[n] # None
                 PROVE  /\ rows'[n] # None /\ rows'[n].of = rows[n].of
                        /\ x \in Mentions[rows[n].of] => rows'[n].status = "NotInstalled"
                        /\ x \notin Mentions[rows[n].of] => rows'[n] = rows[n]
    BY <1>5
  <2>2. PICK row \in Row : row = rows[n]
    BY <2>1 DEF TypeOK
  <2>3. PICK v : v = [row EXCEPT !.status = "NotInstalled"]
    OBVIOUS
  <2>4. v # None /\ v.of = row.of /\ v.status = "NotInstalled"
    BY <1>6, <2>3
  <2>5. rows'[n] = IF x \in Mentions[row.of] THEN v ELSE row
    BY <1>5, <2>1, <2>2, <2>3
  <2> QED BY <2>1, <2>2, <2>4, <2>5
<1>8. lists' = [lists EXCEPT ![reg] = Unmarked(@, x)]
  BY <1>1, <1>2, <1>3 DEF UnmarkAll
<1>9. stale' = Missed(reg, x) \ {<<reg, x>>}
  BY <1>1, <1>2, <1>3 DEF UnmarkAll
<1>10. ASSUME NEW r \in Registries
       PROVE  /\ DOMAIN lists'[r] = DOMAIN lists[r]
              /\ \A i \in DOMAIN lists[r] :
                    /\ lists'[r][i].name = lists[r][i].name /\ lists'[r][i].of = lists[r][i].of
                    /\ IF r = reg /\ lists[r][i].of = x THEN lists'[r][i].status = "NotInstalled"
                                                        ELSE lists'[r][i] = lists[r][i]
  <2>1. PICK list \in Seq(Entry) : list = lists[r]
    BY DEF TypeOK
  <2>2. \A d \in Entry : LET v == [d EXCEPT !.status = "NotInstalled"] IN
                           v.name = d.name /\ v.of = d.of /\ v.status = "NotInstalled"
    BY DEF Entry
  <2>3. CASE r # reg
    BY <1>8, <2>3 DEF TypeOK
  <2>4. CASE r = reg
    <3>1. lists'[r] = Unmarked(list, x)
      BY <1>8, <2>1, <2>4 DEF TypeOK
    <3>2. \A i \in DOMAIN list : list[i] \in Entry
      OBVIOUS
    <3>3. /\ DOMAIN Unmarked(list, x) = DOMAIN list
          /\ \A i \in DOMAIN list :
                Unmarked(list, x)[i] = IF list[i].of = x THEN [list[i] EXCEPT !.status = "NotInstalled"]
                                                         ELSE list[i]
      BY DEF Unmarked
    <3>4. ASSUME NEW i \in DOMAIN list
          PROVE  LET v == Unmarked(list, x)[i] IN
                 /\ v.name = list[i].name /\ v.of = list[i].of
                 /\ IF list[i].of = x THEN v.status = "NotInstalled" ELSE v = list[i]
      <4>1. PICK d \in Entry : d = list[i]
        BY <3>2, <3>4
      <4>2. PICK v : v = [d EXCEPT !.status = "NotInstalled"]
        OBVIOUS
      <4>3. v.name = d.name /\ v.of = d.of /\ v.status = "NotInstalled"
        BY <2>2, <4>2
      <4>4. Unmarked(list, x)[i] = IF d.of = x THEN v ELSE d
        BY <3>3, <3>4, <4>1, <4>2
      <4> QED BY <4>1, <4>3, <4>4
    <3> QED BY <2>1, <2>4, <3>1, <3>3, <3>4
  <2> QED BY <2>3, <2>4
<1>11. RowsHeld'
  <2>1. \A n \in Names : FileOf[n] \in Files
    BY RegistryAssumption
  <2> QED BY <1>7, <2>1 DEF RowsHeld, Grows
<1>12. ListsHeld'
  <2>1. SUFFICES ASSUME NEW r \in Registries, NEW i \in DOMAIN lists'[r] PROVE Known(lists[r][i])'
    BY DEF ListsHeld
  <2>2. PICK d \in Entry : d = lists[r][i] /\ Known(d)
    BY <1>10, <2>1, EntryOf DEF ListsHeld
  <2>3. Known(d)'
    BY <1>7, <2>2, KnownStays
  <2> QED BY <1>10, <2>1, <2>2, <2>3 DEF Known
<1>13. ASSUME NEW r \in Registries, NEW n \in Names, NEW s \in Statuses, rows'[n] # None,
              rows'[n].status = s
       PROVE  Tells(r, n, s)'
  <2>1. SUFFICES ASSUME NEW i \in DOMAIN lists'[r], Counts(r, i, n)' PROVE lists'[r][i].status = s
    BY DEF Tells
  <2>2. PICK d \in Entry : d = lists[r][i] /\ i \in DOMAIN lists[r] /\ Known(d) /\ d.of \in Projects
    BY <1>10, <2>1, EntryOf DEF ListsHeld
  <2>3. /\ lists'[r][i].name = d.name /\ lists'[r][i].of = d.of
        /\ IF r = reg /\ d.of = x THEN lists'[r][i].status = "NotInstalled" ELSE lists'[r][i] = d
    BY <1>10, <2>2
  <2>4. d.name = n /\ Leads(lists'[r], i) /\ <<r, d.of>> \notin stale' /\ Plain(d)'
    BY <2>1, <2>3 DEF Counts, Plain
  <2>5. Plain(d) /\ held'[FileOf[n]] = {d.of}
    BY <2>2, <2>4, PlainBefore
  <2>6. rows[n] # None /\ rows[n].of = d.of
    <3>1. rows[n] # None /\ FileOf[n] \in Files
      BY <1>7, <1>13, RegistryAssumption
    <3>2. rows[n].of \in held[FileOf[n]]
      BY <3>1 DEF RowsHeld
    <3> QED BY <2>4, <2>5, <3>1, <3>2 DEF Plain
  <2>7. Mentions[d.of] = {d.of}
    BY <2>5 DEF Plain
  <2>8. CASE d.of = x
    <3>1. r = reg
      <4>1. Holds(lists[r], x)
        BY <2>2, <2>8 DEF Holds
      <4> QED BY <1>9, <2>4, <2>8, <4>1 DEF Missed
    <3>2. s = "NotInstalled"
      BY <1>7, <1>13, <2>6, <2>7, <2>8
    <3> QED BY <2>3, <2>8, <3>1, <3>2
  <2>9. CASE d.of # x
    <3>1. rows'[n] = rows[n]
      BY <1>7, <2>6, <2>7, <2>9
    <3>2. Tells(r, n, s)
      BY <1>13, <2>6, <3>1 DEF AllAgree
    <3>3. <<r, d.of>> \notin stale
      BY <1>9, <2>4, <2>9 DEF Missed
    <3>4. Leads(lists[r], i)
      BY <1>10, <2>2, <2>4 DEF Leads
    <3>5. Counts(r, i, n)
      BY <2>2, <2>4, <2>5, <3>3, <3>4 DEF Counts
    <3> QED BY <2>2, <2>3, <2>9, <3>2, <3>5 DEF Tells
  <2> QED BY <2>8, <2>9
<1> QED BY <1>11, <1>12, <1>13 DEF AllAgree

\* The first entry is one that leads.
LEMMA FirstLeads ==
  ASSUME NEW list \in Seq(Entry), NEW n, Positions(list, n) # {}
  PROVE  /\ FirstFor(list, n) \in DOMAIN list /\ list[FirstFor(list, n)].name = n
         /\ \A j \in DOMAIN list : list[j].name = n => FirstFor(list, n) <= j
<1>1. Positions(list, n) \subseteq Nat
  BY DEF Positions
<1>2. \E i \in Positions(list, n) : \A j \in Positions(list, n) : i <= j
  BY <1>1, LeastExists
<1> QED BY <1>2 DEF FirstFor, Positions

\* The snapshot that was restored is marked in the list of the job and in the cache.
LEMMA CreditAgrees ==
  ASSUME TypeOK, Shaped, RowsHeld, ListsHeld, WorkHeld, AllAgree, Grows,
         NEW c \in Clients, Credit(c)
  PROVE  RowsHeld' /\ ListsHeld' /\ AllAgree'
<1>1. PICK m, x : m = work[c].name /\ x = work[c].of
  OBVIOUS
<1>2. work[c] # None /\ work[c].pc = "crediting"
  BY DEF Credit, At
<1>3. PICK reg \in Registries : reg = work[c].reg
  BY <1>2, WorkTyped
<1>4. work[c].op = "restore" /\ m \in Names /\ x \in Projects /\ x \in held[FileOf[m]]
      /\ FileOf[m] \in Files
  BY <1>1, <1>2, RegistryAssumption DEF Shaped, Shape, WorkHeld
<1>5. /\ lists' = [lists EXCEPT ![reg] = Marked(@, m)]
      /\ rows' = IF Positions(lists[reg], m) # {} /\ rows[m] # None
                 THEN [rows EXCEPT ![m].status = "Installed"] ELSE rows
      /\ stale' = Missed(reg, x)
  BY <1>1, <1>3 DEF Credit, Untold
<1>6. PICK list \in Seq(Entry) : list = lists[reg]
  BY DEF TypeOK
<1>7. lists'[reg] = Marked(list, m) /\ \A r \in Registries \ {reg} : lists'[r] = lists[r]
  BY <1>5, <1>6 DEF TypeOK
<1>8. \A t \in Registries, y \in Projects : <<t, y>> \in stale => <<t, y>> \in stale'
  BY <1>5 DEF Missed
<1>9. CASE Positions(list, m) = {}
  <2>1. rows' = rows /\ lists'[reg] = list
    BY <1>5, <1>6, <1>7, <1>9 DEF Marked
  <2>2. RowsRest /\ ListsRest
    BY <1>6, <1>7, <1>8, <2>1 DEF RowsRest, ListsRest, Rests
  <2> QED BY <2>2, RestHeld, RestAgrees
<1>10. CASE Positions(list, m) # {}
  <2>1. PICK k : k = FirstFor(list, m)
    OBVIOUS
  <2>2. k \in DOMAIN list /\ list[k].name = m /\ \A j \in DOMAIN list : list[j].name = m => k <= j
    BY <1>10, <2>1, FirstLeads
  <2>3. Marked(list, m) = [list EXCEPT ![k] = [list[k] EXCEPT !.status = "Installed"]]
    BY <1>10, <2>1 DEF Marked
  <2>4. \A d \in Entry : LET v == [d EXCEPT !.status = "Installed"] IN
                           v.name = d.name /\ v.of = d.of /\ v.status = "Installed"
    BY DEF Entry
  <2>5. /\ DOMAIN lists'[reg] = DOMAIN list
        /\ \A i \in DOMAIN list :
              /\ lists'[reg][i].name = list[i].name /\ lists'[reg][i].of = list[i].of
              /\ IF i = k THEN lists'[reg][i].status = "Installed" ELSE lists'[reg][i] = list[i]
    <3>1. PICK d \in Entry : d = list[k]
      BY <2>2
    <3>2. PICK v : v = [d EXCEPT !.status = "Installed"]
      OBVIOUS
    <3>3. v.name = d.name /\ v.of = d.of /\ v.status = "Installed"
      BY <2>4, <3>2
    <3>4. lists'[reg] = [list EXCEPT ![k] = v]
      BY <1>7, <2>3, <3>1, <3>2
    <3> QED BY <2>2, <3>1, <3>3, <3>4
  <2>6. rows[m] # None
    BY <1>6, <2>2 DEF ListsHeld, Known
  <2>7. \A row \in Row : LET v == [row EXCEPT !.status = "Installed"] IN
                           v # None /\ v.of = row.of /\ v.status = "Installed"
    BY NoneAssumption DEF Row, Statuses
  <2>8. /\ rows'[m] # None /\ rows'[m].of = rows[m].of /\ rows'[m].status = "Installed"
        /\ \A n \in Names \ {m} : rows'[n] = rows[n]
    <3>1. rows' = [rows EXCEPT ![m] = [rows[m] EXCEPT !.status = "Installed"]]
      BY <1>5, <1>6, <1>10, <2>6
    <3>2. rows[m] \in Row
      BY <1>4, <2>6 DEF TypeOK
    <3> QED BY <1>4, <2>7, <3>1, <3>2 DEF TypeOK
  <2>9. RowsHeld'
    <3>1. \A n \in Names : FileOf[n] \in Files
      BY RegistryAssumption
    <3> QED BY <2>6, <2>8, <3>1 DEF RowsHeld, Grows
  <2>10. ASSUME NEW r \in Registries, NEW i \in DOMAIN lists'[r]
         PROVE  /\ i \in DOMAIN lists[r]
                /\ lists'[r][i].name = lists[r][i].name /\ lists'[r][i].of = lists[r][i].of
    BY <1>6, <1>7, <2>5, <2>10
  <2>11. ListsHeld'
    <3>1. SUFFICES ASSUME NEW r \in Registries, NEW i \in DOMAIN lists'[r] PROVE Known(lists[r][i])'
      BY DEF ListsHeld
    <3>2. PICK d \in Entry : d = lists[r][i] /\ Known(d)
      BY <2>10, <3>1, EntryOf DEF ListsHeld
    <3>3. Known(d)'
      BY <2>6, <2>8, <3>2, KnownStays
    <3> QED BY <2>10, <3>1, <3>2, <3>3 DEF Known
  <2>12. ASSUME NEW r \in Registries, NEW n \in Names, NEW s \in Statuses, rows'[n] # None,
                rows'[n].status = s
         PROVE  Tells(r, n, s)'
    <3>1. CASE r # reg /\ n # m
      BY <1>7, <1>8, <2>8, <2>12, <3>1, TellsStill DEF AllAgree, Rests
    <3>2. CASE r # reg /\ n = m
      <4>1. SUFFICES ASSUME NEW i \in DOMAIN lists'[r], Counts(r, i, n)' PROVE FALSE
        BY DEF Tells
      <4>2. PICK d \in Entry : d = lists[r][i] /\ d = lists'[r][i] /\ i \in DOMAIN lists[r] /\ Known(d)
                               /\ d.of \in Projects
        BY <1>7, <3>2, <4>1, EntryOf DEF ListsHeld
      <4>3. d.name = n /\ <<r, d.of>> \notin stale' /\ Plain(d)'
        BY <4>1, <4>2 DEF Counts, Plain
      <4>4. held'[FileOf[n]] = {d.of}
        BY <4>2, <4>3, PlainBefore
      <4>5. x = d.of
        BY <1>4, <3>2, <4>4 DEF Grows
      <4>6. Holds(lists[r], x)
        BY <4>2, <4>5 DEF Holds
      <4> QED BY <1>5, <3>2, <4>3, <4>5, <4>6 DEF Missed
    <3>3. CASE r = reg
      <4>1. SUFFICES ASSUME NEW i \in DOMAIN lists'[r], Counts(r, i, n)' PROVE lists'[r][i].status = s
        BY DEF Tells
      <4>2. PICK d \in Entry : d = list[i] /\ i \in DOMAIN list /\ Known(d) /\ d.of \in Projects /\ i \in Nat
        BY <1>6, <2>5, <3>3, <4>1, EntryOf DEF ListsHeld
      <4>3. lists'[r][i].name = d.name /\ lists'[r][i].of = d.of
        BY <2>5, <3>3, <4>2
      <4>4. d.name = n /\ Leads(lists'[r], i) /\ <<r, d.of>> \notin stale' /\ Plain(d)'
        BY <4>1, <4>3 DEF Counts, Plain
      <4>5. Leads(list, i)
        BY <2>5, <3>3, <4>2, <4>4 DEF Leads
      <4>6. CASE n = m
        <5>1. i = k
          <6>1. i <= k /\ k <= i /\ k \in Nat
            BY <2>2, <4>2, <4>4, <4>5, <4>6 DEF Leads
          <6> QED BY <4>2, <6>1
        <5> QED BY <2>5, <2>8, <2>12, <3>3, <4>2, <4>6, <5>1
      <4>7. CASE n # m
        <5>1. i # k
          BY <2>2, <4>2, <4>4, <4>7
        <5>2. lists'[r][i] = d
          BY <2>5, <3>3, <4>2, <5>1
        <5>3. Tells(r, n, s)
          BY <2>8, <2>12, <4>7 DEF AllAgree
        <5>4. Plain(d)
          BY <4>2, <4>4, PlainBefore
        <5>5. Counts(r, i, n)
          BY <1>6, <1>8, <3>3, <4>2, <4>4, <4>5, <5>4 DEF Counts
        <5> QED BY <1>6, <3>3, <4>2, <5>2, <5>3, <5>5 DEF Tells
      <4> QED BY <4>6, <4>7
    <3> QED BY <3>1, <3>2, <3>3
  <2> QED BY <2>9, <2>11, <2>12 DEF AllAgree
<1> QED BY <1>9, <1>10

\* What is loaded from an archive has the status that the lists tell.
LEMMA LoadsStores ==
  ASSUME TypeOK, Shaped, FilesHeld, ListsHeld, AllAgree, Grows,
         NEW c \in Clients, LookupLoads(c)
  PROVE  /\ work'[c].loaded.of \in held'[FileOf[work'[c].loaded.name]]
         /\ \A r \in Registries, n \in Names, s \in Statuses :
                (/\ work'[c].reg = r /\ work'[c].loaded.name = n
                 /\ work'[c].loaded.status = s) => Tells(r, n, s)'
<1>1. PICK m : m = Head(work[c].todo)
  OBVIOUS
<1>2. PICK e : e = [name |-> m, of |-> Content(m), status |-> StatusFor(m, work[c].assumed)]
  OBVIOUS
<1>3. /\ work[c] # None /\ work[c].todo # <<>> /\ Content(m) \in Projects
      /\ Continue(c, [work[c] EXCEPT !.pc = "storing", !.loaded = e])
      /\ UNCHANGED <<rows, lists, stale>>
  BY <1>1, <1>2 DEF LookupLoads, Looks, At, disk
<1>4. work[c] \in Work /\ work[c].reg \in Registries /\ m \in Names /\ FileOf[m] \in Files
  BY <1>1, <1>3, WorkTyped, RegistryAssumption
<1>5. PICK v : v = [work[c] EXCEPT !.pc = "storing", !.loaded = e]
  OBVIOUS
<1>6. v.loaded = e /\ v.reg = work[c].reg
  BY <1>4, <1>5 DEF Work
<1>7. work'[c] = v
  BY <1>3, <1>5 DEF Continue, TypeOK
<1>8. e.name = m /\ e.of \in held'[FileOf[m]]
  BY <1>2, <1>3, <1>4 DEF Content, FilesHeld, Grows
<1>9. ASSUME NEW s \in Statuses, e.status = s PROVE Tells(work[c].reg, m, s)
  <2>1. CASE rows[m] # None
    BY <1>2, <1>4, <1>9, <2>1 DEF AllAgree, StatusFor
  <2>2. CASE rows[m] = None
    <3>1. \A i \in DOMAIN lists[work[c].reg] : lists[work[c].reg][i].name # m
      BY <1>4, <2>2 DEF ListsHeld, Known
    <3> QED BY <3>1 DEF Tells, Counts
  <2> QED BY <2>1, <2>2
<1>10. PICK r \in Registries : r = work[c].reg
  BY <1>4
<1>11. Rests(r)
  BY <1>3 DEF Rests
<1>12. \A s \in Statuses : e.status = s => Tells(r, m, s)'
  BY <1>4, <1>9, <1>10, <1>11, TellsStill
<1> QED BY <1>6, <1>7, <1>8, <1>10, <1>12

\* A client keeps the files known, and lists and cache in agreement.
LEMMA ClientAgrees ==
  ASSUME TypedView, Holding, AllAgree, Storing, Grows, NEW c \in {Cli, Gui}, ClientStep(c)
  PROVE  Holding' /\ AllAgree' /\ Storing'
<1> USE RegistryViewAssumption, CommandLineAssumption
<1>1. /\ TypeOK /\ Shaped /\ Apart
      /\ FilesHeld /\ RowsHeld /\ ListsHeld /\ WorkHeld
  BY DEF TypedView, ViewTypeOK, CommandTypeOK, Holding
<1>2. RowsHeld' /\ ListsHeld' /\ AllAgree'
  <2>1. CASE \/ LookupLoads(c) \/ LookupNothing(c) \/ LookupEnds(c) \/ FailEarly(c) \/ BeginBackup(c)
             \/ FailBackup(c) \/ FinishBackup(c) \/ BeginChange(c) \/ FailChange(c)
    BY <1>1, <2>1, SilentRests, RestHeld, RestAgrees
  <2> QED BY <1>1, <2>1, HitAgrees, StoreAgrees, UnmarkAgrees, CreditAgrees
          DEF ClientStep, Scans, Operates
<1>3. /\ work[c] # None /\ Same(work'[c], work[c])
      /\ \A d \in Clients \ {c} : work'[d] = work[d]
      /\ work'[c].pc = "storing" => LookupLoads(c)
  BY <1>1, SameJob
<1>4. LookupLoads(c) => /\ work'[c].loaded.of \in held'[FileOf[work'[c].loaded.name]]
                        /\ \A r \in Registries, n \in Names, s \in Statuses :
                              (/\ work'[c].reg = r /\ work'[c].loaded.name = n
                               /\ work'[c].loaded.status = s) => Tells(r, n, s)'
  BY <1>1, LoadsStores
<1>5. \A n \in Names : FileOf[n] \in Files
  BY RegistryAssumption
<1>6. WorkHeld'
  <2>1. SUFFICES ASSUME NEW d \in Clients, work'[d] # None
                 PROVE  /\ work'[d].pc = "storing" =>
                              work'[d].loaded.of \in held'[FileOf[work'[d].loaded.name]]
                        /\ work'[d].op = "restore" => work'[d].of \in held'[FileOf[work'[d].name]]
    BY DEF WorkHeld
  <2>2. CASE d # c
    <3>1. work'[d] = work[d]
      BY <1>3, <2>2
    <3>2. work[d].pc = "storing" => work[d].loaded.name \in Names
      <4>1. work[d].pc = "storing" => work[d].loaded \in Entry
        BY <1>1, <2>1, <3>1, WorkTyped DEF TypeOK
      <4> QED BY <4>1 DEF Entry
    <3>3. work[d].op = "restore" => work[d].name \in Names
      BY <1>1, <2>1, <3>1 DEF Shaped, Shape
    <3> QED BY <1>1, <1>5, <2>1, <3>1, <3>2, <3>3 DEF WorkHeld, Grows
  <2>3. CASE d = c
    <3>1. work'[c].op = "restore" => work[c].op = "restore" /\ work[c].name \in Names
      BY <1>1, <1>3 DEF Shaped, Shape, Same
    <3>2. work'[c].op = "restore" => work'[c].of \in held'[FileOf[work'[c].name]]
      BY <1>1, <1>3, <1>5, <3>1 DEF WorkHeld, Grows, Same
    <3> QED BY <1>3, <1>4, <2>3, <3>2
  <2> QED BY <2>2, <2>3
<1>7. Storing'
  <2>1. SUFFICES ASSUME NEW d \in Clients, NEW r \in Registries, NEW n \in Names, NEW s \in Statuses,
                        work'[d] # None, work'[d].pc = "storing", work'[d].reg = r,
                        work'[d].loaded.name = n, work'[d].loaded.status = s
                 PROVE  Tells(r, n, s)'
    BY DEF Storing
  <2>2. CASE d = c
    <3>1. LookupLoads(c)
      BY <1>3, <2>1, <2>2
    <3> QED BY <1>4, <2>1, <2>2, <3>1
  <2>3. CASE d # c
    <3>1. work'[d] = work[d]
      BY <1>3, <2>3
    <3>2. Tells(r, n, s)
      BY <2>1, <3>1 DEF Storing
    <3>3. r # work[c].reg
      BY <1>1, <1>3, <2>1, <2>3, <3>1 DEF Apart
    <3>4. Rests(r)
      BY <1>1, <1>3, <3>3, ElsewhereRests
    <3> QED BY <1>1, <3>2, <3>4, TellsStill
  <2> QED BY <2>2, <2>3
<1> QED BY <1>2, <1>6, <1>7 DEF Holding, Grows

-----------------------------------------------------------------------------
(* The other steps.                                                        *)

\* A job goes on, or one begins that has nothing in hand, and restores what its
\* file is.
Begins(v) ==
    /\ v.pc # "storing"
    /\ v.op = "restore" => v.name \in Names /\ Content(v.name) \in Projects /\ v.of = Content(v.name)

LEMMA OthersAgree ==
  ASSUME TypedView, Holding, AllAgree, Storing, Grows, RowsRest, ListsRest,
         \A c \in Clients : work'[c] # None => (work'[c] = work[c] \/ Begins(work'[c]))
  PROVE  Holding' /\ AllAgree' /\ Storing'
<1>1. /\ TypeOK /\ Shaped
      /\ FilesHeld /\ RowsHeld /\ ListsHeld /\ WorkHeld
  BY DEF TypedView, ViewTypeOK, CommandTypeOK, Holding
<1>2. RowsHeld' /\ ListsHeld' /\ AllAgree'
  BY <1>1, RestHeld, RestAgrees
<1>3. \A n \in Names : FileOf[n] \in Files
  BY RegistryAssumption
<1>4. WorkHeld'
  <2>1. SUFFICES ASSUME NEW d \in Clients, work'[d] # None
                 PROVE  /\ work'[d].pc = "storing" =>
                              work'[d].loaded.of \in held'[FileOf[work'[d].loaded.name]]
                        /\ work'[d].op = "restore" => work'[d].of \in held'[FileOf[work'[d].name]]
    BY DEF WorkHeld
  <2>2. CASE work'[d] = work[d]
    <3>1. work[d].pc = "storing" => work[d].loaded.name \in Names
      <4>1. work[d].pc = "storing" => work[d].loaded \in Entry
        BY <1>1, <2>1, <2>2, WorkTyped DEF TypeOK
      <4> QED BY <4>1 DEF Entry
    <3>2. work[d].op = "restore" => work[d].name \in Names
      BY <1>1, <2>1, <2>2 DEF Shaped, Shape
    <3> QED BY <1>1, <1>3, <2>1, <2>2, <3>1, <3>2 DEF WorkHeld, Grows
  <2>3. CASE Begins(work'[d])
    BY <1>1, <1>3, <2>3 DEF Begins, FilesHeld, Grows, Content
  <2> QED BY <2>1, <2>2, <2>3
<1>5. Storing'
  <2>1. SUFFICES ASSUME NEW d \in Clients, NEW r \in Registries, NEW n \in Names, NEW s \in Statuses,
                        work'[d] # None, work'[d].pc = "storing", work'[d].reg = r,
                        work'[d].loaded.name = n, work'[d].loaded.status = s
                 PROVE  Tells(r, n, s)'
    BY DEF Storing
  <2>2. work'[d] = work[d]
    BY <2>1 DEF Begins
  <2>3. Tells(r, n, s)
    BY <2>1, <2>2 DEF Storing
  <2> QED BY <1>1, <2>3, TellsStill DEF ListsRest
<1> QED BY <1>2, <1>4, <1>5 DEF Holding, Grows

LEMMA EmptyRests ==
  ASSUME NEW rs, Empty(rs)
  PROVE  ListsRest
<1>1. \A r \in Registries : lists'[r] = IF r \in rs THEN <<>> ELSE lists[r]
  BY DEF Empty
<1>2. \A r \in Registries, x \in Projects : r \notin rs /\ <<r, x>> \in stale => <<r, x>> \in stale'
  BY DEF Empty
<1> QED BY <1>1, <1>2 DEF ListsRest, Rests

LEMMA ListsUnchangedRest ==
  ASSUME UNCHANGED <<lists, stale>>
  PROVE  ListsRest
BY DEF ListsRest, Rests

LEMMA WorkerAgrees ==
  ASSUME TypedView, Holding, AllAgree, Storing, Grows,
         TakeScan \/ TakeOperation \/ TakeInVain \/ Complete
  PROVE  Holding' /\ AllAgree' /\ Storing'
<1> USE RegistryViewAssumption
<1>1. TypeOK /\ Shaped /\ Apart /\ ViewTypeOK
  BY DEF TypedView, ViewTypeOK, CommandTypeOK
<1>2. RowsRest
  BY DEF TakeScan, TakeOperation, TakeInVain, Complete, beside, disk, RowsRest
<1>3. CASE TakeScan
  <2>1. PICK r \in Unused : Continue(Gui, Scanning(r)) /\ Empty({r})
    BY <1>1, <1>3, ScanTakes
  <2>2. PICK v : v = Scanning(r)
    OBVIOUS
  <2>3. v.pc = "looking" /\ v.op = "scan"
    BY <2>1, <2>2, ScanningTyped DEF Unused
  <2>4. \A c \in Clients : work'[c] = work[c] \/ work'[c] = v
    BY <1>1, <2>1, <2>2 DEF Continue, TypeOK
  <2>5. Begins(v)
    BY <2>3 DEF Begins
  <2> QED BY <1>2, <2>1, <2>4, <2>5, EmptyRests, OthersAgree
<1>4. CASE TakeOperation
  <2>1. PICK j : j = Head(jobs)
    OBVIOUS
  <2>2. /\ jobs # <<>> /\ j.op # "scan" /\ (j.op = "restore" => Content(j.name) \in Projects)
        /\ Continue(Gui, Opened(j)) /\ UNCHANGED <<lists, stale>>
    BY <1>4, <2>1 DEF TakeOperation, Free, Opened
  <2>3. j \in Job /\ Fit(j)
    BY <1>1, <2>1, <2>2, QueueTail DEF ViewTypeOK, Apart
  <2>4. PICK v : v = Opened(j)
    OBVIOUS
  <2>5. /\ v.pc = "ready" /\ v.op = j.op /\ v.name = j.name
        /\ v.of = IF j.op = "restore" THEN Content(j.name) ELSE j.of
    BY <1>1, <2>2, <2>3, <2>4, OpenedTyped
  <2>6. Begins(v)
    BY <2>2, <2>3, <2>5 DEF Begins, Fit
  <2>7. \A c \in Clients : work'[c] = work[c] \/ work'[c] = v
    BY <1>1, <2>2, <2>4 DEF Continue, TypeOK
  <2> QED BY <1>2, <2>2, <2>6, <2>7, ListsUnchangedRest, OthersAgree
<1>5. CASE TakeInVain \/ Complete
  <2>1. Release /\ (work' = work \/ work' = [work EXCEPT ![Gui] = None])
    BY <1>5 DEF TakeInVain, Complete
  <2>2. \A c \in Clients : work'[c] # None => work'[c] = work[c]
    BY <1>1, <2>1 DEF TypeOK
  <2>3. ListsRest
    BY <2>1, EmptyRests DEF Release
  <2> QED BY <1>2, <2>2, <2>3, OthersAgree
<1> QED BY <1>3, <1>4, <1>5

LEMMA UserAgrees ==
  ASSUME TypedView, Holding, AllAgree, Storing, Grows, Handle \/ User
  PROVE  Holding' /\ AllAgree' /\ Storing'
<1> USE RegistryViewAssumption
<1>1. TypeOK
  BY DEF TypedView, ViewTypeOK, CommandTypeOK
<1>2. CASE ShowRegistry \/ Restart
  <2>1. Release /\ rows' = rows /\ (work' = work \/ work' = [work EXCEPT ![Gui] = None])
    BY <1>2 DEF ShowRegistry, Restart, beside, disk
  <2>2. \A c \in Clients : work'[c] # None => work'[c] = work[c]
    BY <1>1, <2>1 DEF TypeOK
  <2>3. ListsRest /\ RowsRest
    BY <2>1, EmptyRests DEF Release, RowsRest
  <2> QED BY <2>2, <2>3, OthersAgree
<1>3. CASE UNCHANGED <<rows, lists, work, stale>>
  <2>1. ListsRest /\ RowsRest
    BY <1>3, ListsUnchangedRest DEF RowsRest
  <2> QED BY <1>3, <2>1, OthersAgree
<1>4. HandleCompletion => UNCHANGED <<rows, lists, work, stale>>
  BY DEF HandleCompletion, commandVars
<1>5. ASSUME NEW job, Asks(job) PROVE UNCHANGED <<rows, lists, work, stale>>
  BY <1>5 DEF Asks, commandVars
<1> QED BY <1>2, <1>3, <1>4, <1>5 DEF Handle, User, ClickRefresh, ClickUninstall, ClickBackup,
                                      ClickRestore, Click

LEMMA CommandsAgree ==
  ASSUME TypedView, Holding, AllAgree, Storing, Grows, Commands \/ EndCommand
  PROVE  Holding' /\ AllAgree' /\ Storing'
<1> USE CommandLineAssumption
<1>1. TypeOK /\ Shaped
  BY DEF TypedView, ViewTypeOK, CommandTypeOK
<1>2. CASE Commands
  <2>1. PICK op \in Operations, n \in Names \cup {None}, x \in Projects \cup {None},
             origin \in Names \cup {None} :
              /\ Command(op, n, x, origin)
              /\ op # "scan" => x \in Projects
              /\ op \in {"backup", "restore"} => n \in Names
              /\ op = "restore" => x = Content(n)
    BY <1>1, <1>2, CommandsBegin
  <2>2. PICK v : v = Opening(op, n, x, origin)
    OBVIOUS
  <2>3. v.pc = "looking" /\ v.op = op /\ v.name = n /\ v.of = x
    BY <2>2 DEF Opening, Asked
  <2>4. Continue(Cli, v) /\ Empty({CliRegistry}) /\ rows' = rows
    BY <2>1, <2>2, CommandOpens DEF disk
  <2>5. Begins(v)
    BY <2>1, <2>3 DEF Begins
  <2>6. \A c \in Clients : work'[c] = work[c] \/ work'[c] = v
    BY <1>1, <2>4 DEF Continue, TypeOK
  <2>7. RowsRest /\ ListsRest
    BY <2>4, EmptyRests DEF RowsRest
  <2> QED BY <2>5, <2>6, <2>7, OthersAgree
<1>3. CASE EndCommand
  <2>1. rows' = rows /\ work' = [work EXCEPT ![Cli] = None] /\ Empty({CliRegistry})
    BY <1>3 DEF EndCommand, Exit
  <2>2. \A c \in Clients : work'[c] # None => work'[c] = work[c]
    BY <1>1, <2>1 DEF TypeOK
  <2>3. RowsRest /\ ListsRest
    BY <2>1, EmptyRests DEF RowsRest
  <2> QED BY <2>2, <2>3, OthersAgree
<1> QED BY <1>2, <1>3

\* The inductive invariant.
Agreed == TypedView /\ Holding /\ AllAgree /\ Storing

LEMMA AgreedInit == ViewInit => Agreed
<1> SUFFICES ASSUME ViewInit PROVE Agreed
  OBVIOUS
<1>1. /\ files = [f \in Files |-> "Absent"] /\ rows = [n \in Names |-> None]
      /\ lists = [r \in Registries |-> <<>>] /\ work = [c \in Clients |-> None]
  BY DEF ViewInit, CommandInit, Init
<1>2. FilesHeld /\ RowsHeld
  BY <1>1, RegistryAssumption DEF FilesHeld, RowsHeld
<1>3. \A r \in Registries : DOMAIN lists[r] = {}
  BY <1>1
<1>4. ListsHeld
  BY <1>3 DEF ListsHeld
<1>5. WorkHeld /\ Storing
  BY <1>1 DEF WorkHeld, Storing
<1>6. AllAgree
  BY <1>3 DEF AllAgree, Tells
<1> QED BY <1>2, <1>4, <1>5, <1>6, InitTyped DEF Agreed, Holding

LEMMA AgreedStep == Agreed /\ [ViewNext]_viewVars => Agreed'
<1> SUFFICES ASSUME Agreed, [ViewNext]_viewVars PROVE Agreed'
  OBVIOUS
<1>1. TypedView /\ Holding /\ AllAgree /\ Storing
  BY DEF Agreed
<1>2. Grows
  BY <1>1, HistoryGrows DEF Holding
<1>3. TypedView'
  BY <1>1, TypedStep
<1>4. CASE Worker
  BY <1>1, <1>2, <1>3, <1>4, WorkerAgrees, ClientAgrees DEF Worker, Agreed
<1>5. CASE Handle \/ User
  BY <1>1, <1>2, <1>3, <1>5, UserAgrees DEF Agreed
<1>6. CASE CommandRuns
  BY <1>1, <1>2, <1>3, <1>6, CommandsAgree, ClientAgrees DEF CommandRuns, Agreed
<1>7. CASE UNCHANGED viewVars
  <2>1. UNCHANGED <<rows, lists, work, stale>>
    BY <1>7 DEF viewVars, commandVars
  <2>2. RowsRest /\ ListsRest
    BY <2>1, ListsUnchangedRest DEF RowsRest
  <2> QED BY <1>1, <1>2, <1>3, <2>1, <2>2, OthersAgree DEF Agreed
<1> QED BY <1>4, <1>5, <1>6, <1>7 DEF ViewNext

\* What the GUI shows at rest of a snapshot is what the cache says of it, however
\* scans, operations, commands and restarts have interleaved, as long as the shown
\* registry has missed nothing of the project, and the file was never overwritten
\* by a snapshot of another project.
THEOREM WhatIsShownAgrees == ViewSpec => []ShownAgrees
<1>1. Agreed => ShownAgrees
  <2>1. SUFFICES ASSUME Agreed, shown # None, NEW i \in DOMAIN lists[shown],
                        <<shown, lists[shown][i].of>> \notin stale,
                        i = FirstFor(lists[shown], lists[shown][i].name), Plain(lists[shown][i])
                 PROVE  /\ rows[lists[shown][i].name] # None
                        /\ rows[lists[shown][i].name].of = lists[shown][i].of
                        /\ rows[lists[shown][i].name].status = lists[shown][i].status
    BY DEF ShownAgrees
  <2>2. TypeOK /\ RowsHeld /\ ListsHeld /\ AllAgree
    BY <2>1 DEF Agreed, TypedView, ViewTypeOK, CommandTypeOK, Holding
  <2>3. PICK r \in Registries : r = shown
    BY <2>1 DEF Agreed, TypedView, ViewTypeOK
  <2>4. PICK e \in Entry : e = lists[r][i] /\ Known(e) /\ e.name \in Names /\ lists[r] \in Seq(Entry)
    BY <2>1, <2>2, <2>3, EntryOf DEF ListsHeld
  <2>5. rows[e.name] # None /\ rows[e.name] \in Row
    BY <2>2, <2>4 DEF Known, TypeOK
  <2>6. rows[e.name].of = e.of
    BY <2>1, <2>2, <2>3, <2>4, <2>5 DEF RowsHeld, Plain
  <2>7. Leads(lists[r], i)
    <3>1. i \in Positions(lists[r], e.name)
      BY <2>1, <2>3, <2>4 DEF Positions
    <3>2. \A j \in DOMAIN lists[r] : lists[r][j].name = e.name => FirstFor(lists[r], e.name) <= j
      BY <2>4, <3>1, FirstLeads
    <3> QED BY <2>1, <2>3, <2>4, <3>2 DEF Leads
  <2>8. Counts(r, i, e.name)
    BY <2>1, <2>3, <2>4, <2>7 DEF Counts
  <2>9. rows[e.name].status \in Statuses
    BY <2>5 DEF Row
  <2>10. Tells(r, e.name, rows[e.name].status)
    BY <2>2, <2>4, <2>5, <2>9 DEF AllAgree
  <2> QED BY <2>1, <2>3, <2>4, <2>5, <2>6, <2>8, <2>10 DEF Tells
<1> QED BY <1>1, AgreedInit, AgreedStep, PTL DEF ViewSpec
=============================================================================
