---------------------------- MODULE ListEntries ----------------------------
(***************************************************************************)
(* The entries that projects keep in a list they share with others: a      *)
(* REG_MULTI_SZ value (multistring_entry.cpp), or a string with delimiters *)
(* such as Path (delimited_entry.cpp).  Each change is read, modify and    *)
(* write, with nothing to keep another process from the value in between;  *)
(* and a value that cannot be read, or has another type, reads as empty.   *)
(*                                                                         *)
(* A value is the sequence of strings that it reads back as.  What an      *)
(* operation does around the entry is the subject of Orchestrator.         *)
(***************************************************************************)
EXTENDS Naturals, Sequences, SequencesExt

CONSTANTS
    Clients,        \* processes that operate on the value, each with an entry
    Strings,
    Entries,        \* the strings that a blueprint may have as an entry
    Folded,         \* Folded[s]: s in lower case (equals_nocase)
    Pieces,         \* Pieces[s]: what split_stripped makes of s
    None,
    MaxOperations,  \* bound: backups, restores and cleans
    MaxEdits        \* bound: changes by other programs

\* What a client is doing.  seen: the list as last read; new: the list to write;
\* blind: a read failed; disturbed: somebody else has changed the value meanwhile.
Work == [pc : {"adding", "writing", "done"}, op : {"restore", "clean"},
         seen : Seq(Strings), new : Seq(Strings),
         blind : BOOLEAN, disturbed : BOOLEAN, ok : BOOLEAN]

ASSUME ListAssumption ==
    /\ Entries \subseteq Strings
    /\ \A s \in Strings : /\ Pieces[s] \in Seq(Strings) \ {<<>>}
                          /\ \A i \in DOMAIN Pieces[s] : Pieces[Pieces[s][i]] = <<Pieces[s][i]>>
    /\ None \notin Clients \cup Work \cup Seq(Strings)
    /\ MaxOperations \in Nat /\ MaxEdits \in Nat

VARIABLES
    format, position, entry,    \* of the actions: type, insert position, entry of each client
    value,                      \* the registry value
    recorded,                   \* what the snapshot of each client says of its entry
    work,                       \* the operation of each client
    undo,                       \* history: the value before the client added its entry, if
                                \* both its reads were good and nobody changed it between
    operations, edits

blueprint == <<format, position, entry>>
vars == <<blueprint, value, recorded, work, undo, operations, edits>>

\* A value with delimiters consists of pieces without any.
TypeOK ==
    /\ format \in {"multi", "delimited"} /\ position \in {"Append", "Prepend"}
    /\ entry \in [Clients -> Entries]
    /\ value \in Seq(Strings)
    /\ format = "delimited" => \A i \in DOMAIN value : Pieces[value[i]] = <<value[i]>>
    /\ recorded \in [Clients -> {"none", "present", "absent"}]
    /\ work \in [Clients -> Work \cup {None}]
    /\ undo \in [Clients -> Seq(Strings) \cup {None}]
    /\ operations \in 0 .. MaxOperations /\ edits \in 0 .. MaxEdits

\* A multi-string has no insert position, and is appended to.  A snapshot may come
\* from another machine, where the variables gave the entry another value.
Init ==
    /\ format \in {"multi", "delimited"}
    /\ position \in {"Append", "Prepend"} /\ (format = "multi" => position = "Append")
    /\ entry \in [Clients -> Entries]
    /\ value = <<>>
    /\ recorded \in [Clients -> {"none", "present", "absent"}]
    /\ work = [c \in Clients |-> None]
    /\ undo = [c \in Clients |-> None]
    /\ operations = 0 /\ edits = 0

-----------------------------------------------------------------------------
(* The list.                                                               *)

IsEntry(c, s) == Folded[s] = Folded[entry[c]]

InList(c, list) == \E i \in DOMAIN list : IsEntry(c, list[i])

Occurrences(c, list) == Cardinality({i \in DOMAIN list : IsEntry(c, list[i])})

Others(c, list) ==
    FlattenSeq([i \in DOMAIN list |-> IF IsEntry(c, list[i]) THEN <<>> ELSE <<list[i]>>])

\* What write_multi_string, or join and write_value, leave in the registry.
Bug_Stored(list) == list

Stored(list) ==
    IF format = "multi" THEN list ELSE FlattenSeq([i \in DOMAIN list |-> Pieces[list[i]]])

\* Assigns to the first element where it should insert before it.
Bug_Added(c, list) ==
    IF position = "Prepend" /\ list # <<>> THEN [list EXCEPT ![1] = entry[c]]
                                           ELSE Append(list, entry[c])

Added(c, list) == IF position = "Prepend" THEN <<entry[c]>> \o list ELSE Append(list, entry[c])

\* Looks for the entry as it is spelled in the blueprint.
Bug_Removed(c, list) == SelectSeq(list, LAMBDA s : s # entry[c])

\* All of the equal entries, or the first.
Removed(c, list) ==
    IF format = "multi" THEN Others(c, list)
    ELSE RemoveFirstMatch(list, LAMBDA s : IsEntry(c, s))

\* What a read finds: the value, or nothing.
Readings == {value, <<>>}

-----------------------------------------------------------------------------
(* The operations.                                                         *)

Begins(c) ==
    /\ work[c] = None /\ operations < MaxOperations
    /\ operations' = operations + 1

\* The value keeps still.
Quiet == UNCHANGED <<blueprint, value, undo, edits>>

Goto(c, w) == work' = [work EXCEPT ![c] = w]

Begun(op, pc, seen, new) ==
    [pc |-> pc, op |-> op, seen |-> seen, new |-> new, blind |-> seen # value,
     disturbed |-> FALSE, ok |-> TRUE]

\* backup: the status is written, or the archive takes no more.
Backup(c) ==
    /\ Begins(c)
    /\ \/ \E list \in Readings :
            recorded' = [recorded EXCEPT ![c] = IF InList(c, list) THEN "present" ELSE "absent"]
       \/ UNCHANGED recorded
    /\ UNCHANGED work /\ Quiet

\* Does not look whether the entry is there.
Bug_CheckList(c) ==
    /\ Begins(c) /\ recorded[c] = "present"
    /\ \E list \in Readings : Goto(c, Begun("restore", "adding", list, <<>>))
    /\ UNCHANGED recorded /\ Quiet

\* restore of an entry that was present: add_to_list looks whether it is there ...
CheckList(c) ==
    /\ Begins(c) /\ recorded[c] = "present"
    /\ \E list \in Readings :
         Goto(c, Begun("restore", IF InList(c, list) THEN "done" ELSE "adding", list, <<>>))
    /\ UNCHANGED recorded /\ Quiet

\* ... and reads the list once more before it adds to it.
ReadToAdd(c) ==
    /\ work[c] # None /\ work[c].pc = "adding"
    /\ \E list \in Readings :
         Goto(c, [work[c] EXCEPT !.pc = "writing", !.seen = list, !.new = Added(c, list),
                                 !.blind = @ \/ list # value])
    /\ UNCHANGED <<recorded, operations>> /\ Quiet

\* restore of an entry that was absent, and clean: remove_from_list.
ReadToRemove(c, op) ==
    /\ Begins(c) /\ (op = "restore" => recorded[c] = "absent")
    /\ \E list \in Readings :
         Goto(c, Begun(op, IF InList(c, list) THEN "writing" ELSE "done", list, Removed(c, list)))
    /\ UNCHANGED recorded /\ Quiet

Disturbed(c) ==
    [d \in Clients |->
        IF d # c /\ work[d] # None THEN [work[d] EXCEPT !.disturbed = TRUE] ELSE work[d]]

Write(c) ==
    /\ work[c] # None /\ work[c].pc = "writing"
    /\ value' = Stored(work[c].new)
    /\ work' = [Disturbed(c) EXCEPT ![c] = [@ EXCEPT !.pc = "done"]]
    /\ undo' = [d \in Clients |->
                  IF d # c THEN None
                  ELSE IF work[c].op = "clean" THEN undo[c]
                  ELSE IF recorded[c] = "present" /\ ~work[c].blind /\ ~work[c].disturbed THEN value
                  ELSE None]
    /\ UNCHANGED <<blueprint, recorded, operations, edits>>

FailToWrite(c) ==
    /\ work[c] # None /\ work[c].pc = "writing"
    /\ Goto(c, [work[c] EXCEPT !.pc = "done", !.ok = FALSE])
    /\ UNCHANGED <<recorded, operations>> /\ Quiet

\* The operation goes on to other actions, or the process is killed.
Leave(c) ==
    /\ work[c] # None
    /\ Goto(c, None)
    /\ undo' = [undo EXCEPT ![c] = IF work[c].op = "clean" THEN None ELSE @]
    /\ UNCHANGED <<blueprint, value, recorded, operations, edits>>

\* Another program installs or removes an entry of its own.
Edit(list) ==
    /\ edits < MaxEdits
    /\ edits' = edits + 1
    /\ value' = list
    /\ work' = Disturbed(None)
    /\ undo' = [c \in Clients |-> None]
    /\ UNCHANGED <<blueprint, recorded, operations>>

Next ==
    \/ \E c \in Clients :
         \/ Backup(c) \/ CheckList(c) \/ ReadToAdd(c)
         \/ ReadToRemove(c, "restore") \/ ReadToRemove(c, "clean")
         \/ Write(c) \/ FailToWrite(c) \/ Leave(c)
    \/ \E s \in Strings : Pieces[s] = <<s>> /\ Edit(Append(value, s))
    \/ \E i \in DOMAIN value : Edit(RemoveAt(value, i))

Spec == Init /\ [][Next]_vars

-----------------------------------------------------------------------------

\* The entry is one piece for the value: it contains no delimiter.
Whole(c) == format = "multi" \/ Pieces[entry[c]] = <<entry[c]>>

Writes(c) == work[c] # None /\ work[c].pc = "writing" /\ work'[c] # None /\ work'[c].ok

\* A write keeps the entries of others, in their order, if the list is still what
\* was read; else nothing is lost but the own entry and what was not seen: what a
\* failed read hid, or what was added since.
KeepsOthers ==
    [][\A c \in Clients : (Writes(c) /\ work'[c].pc = "done") =>
          LET w == work[c] IN
          /\ (w.seen = value /\ Whole(c)) => Others(c, value') = Others(c, value)
          /\ \A i \in DOMAIN value :
               (~IsEntry(c, value[i]) /\ \E j \in DOMAIN w.seen : w.seen[j] = value[i]) =>
                   \E j \in DOMAIN value' : value'[j] = value[i]]_vars

Ended(c) == work[c] # None /\ work[c].pc = "done" /\ work[c].ok /\ ~work[c].blind

\* verify: the entry is in the list if and only if the snapshot says so.
Verify(c) == IF InList(c, value) <=> recorded[c] = "present" THEN "Match" ELSE "Mismatch"

\* After a restore that nobody disturbed the entry verifies.  Excepted are an entry
\* with a delimiter in it, which is never found again, and one that a value with
\* delimiters has more than once, of which only the first is removed.
RestoreVerifies ==
    \A c \in Clients :
        (Ended(c) /\ work[c].op = "restore" /\ ~work[c].disturbed /\ Whole(c)
            /\ (format = "delimited" => Occurrences(c, work[c].seen) < 2))
        => Verify(c) = "Match"

\* A clean takes back what the restore before it has added, and leaves the list as
\* it was before, if nobody else has changed it.
CleanUndoesRestore ==
    \A c \in Clients :
        (Ended(c) /\ work[c].op = "clean" /\ undo[c] # None /\ Whole(c)) => value = undo[c]
=============================================================================
