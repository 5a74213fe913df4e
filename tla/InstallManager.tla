---------------------------- MODULE InstallManager ----------------------------
(***************************************************************************)
(* What insti promises its user, seen between operations: a backup saves   *)
(* what is on the machine, a restore puts the machine in the saved state,  *)
(* a clean leaves nothing, a dry run changes nothing.  Where failures can  *)
(* go unseen, an operation that succeeds may have left gaps; one that      *)
(* fails has done a part of its work, may have torn the slot it was at,    *)
(* and has done nothing else.                                              *)
(***************************************************************************)
CONSTANTS
    Slots,     \* the places a blueprint manages
    Machines,  \* the states the machine can be in: functions on Slots
    Image(_),  \* the part of such a state that a snapshot holds
    Absent,    \* nothing is at a slot
    Empty,     \* a slot that is there, with nothing in it
    Torn,      \* a part of what was to be written to a slot
    Unseen     \* whether a failure may go unseen by the code that meets it

VARIABLES
    machine,  \* what is at each slot
    saved,    \* {image} when there is a snapshot, {} when there is none
    outcome   \* which operation ended last, and how

vars == <<machine, saved, outcome>>

Init == machine \in Machines /\ saved = {} /\ outcome = <<"None", "none">>

Use == machine' \in Machines /\ outcome' = <<"None", "none">> /\ UNCHANGED saved

Succeeds(operation) == outcome' = <<operation, "success">>

Fails(operation) == outcome' = <<operation, "failure">>

\* The snapshots of a backup: of what is there, all, or where failures go unseen
\* no more than that.
Images ==
    IF Unseen
    THEN {image \in [Slots -> {Image(machine)[s] : s \in Slots} \cup {Absent}] :
             \A s \in Slots : image[s] \in {Image(machine)[s], Absent}}
    ELSE {Image(machine)}

\* What may be at each slot on the way: what was there or nothing, and in a
\* restore what the snapshot has, or nothing for what could not be read.
Emptying == [s \in Slots |-> {machine[s], Absent}]

Filling(image) ==
    [s \in Slots |-> {machine[s], Absent, image[s]} \cup (IF Unseen THEN {Empty} ELSE {})]

Partly(way) == \A s \in Slots : machine'[s] \in way[s]

\* The operation has come to slot t, and has torn it.
Broken(way) ==
    \E t \in Slots : machine'[t] \in {Empty, Torn} /\ \A s \in Slots \ {t} : machine'[s] \in way[s]

Backup == Succeeds("Backup") /\ (\E image \in Images : saved' = {image}) /\ UNCHANGED machine

\* The old snapshot may be gone, and the new one may be complete.
FailedBackup ==
    /\ Fails("Backup")
    /\ saved' \in {saved, {}} \cup {{image} : image \in Images}
    /\ UNCHANGED machine

Restore ==
    /\ Succeeds("Restore") /\ UNCHANGED saved
    /\ \E image \in saved : machine' = image \/ (Unseen /\ Partly(Filling(image)))

FailedRestore ==
    /\ Fails("Restore") /\ UNCHANGED saved
    /\ \E image \in saved : Partly(Filling(image)) \/ Broken(Filling(image))

Clean ==
    /\ Succeeds("Clean") /\ UNCHANGED saved
    /\ machine' = [s \in Slots |-> Absent] \/ (Unseen /\ Partly(Emptying))

FailedClean == Fails("Clean") /\ (Partly(Emptying) \/ Broken(Emptying)) /\ UNCHANGED saved

\* Dry runs, and operations that only run hooks.
ChangeNothing ==
    /\ \E o \in {"DryRun", "Startup", "Shutdown"} : Succeeds(o) \/ Fails(o)
    /\ UNCHANGED <<machine, saved>>

Next ==
    \/ Use \/ Backup \/ FailedBackup
    \/ Restore \/ FailedRestore \/ Clean \/ FailedClean \/ ChangeNothing

Spec == Init /\ [][Next]_vars
=============================================================================
