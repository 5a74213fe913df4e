----------------------------- MODULE Variables -----------------------------
(***************************************************************************)
(* The variables of a blueprint (blueprint.cpp): how the ones that refer   *)
(* to each other are resolved when it is loaded, how an override changes   *)
(* them afterwards, and how the text of a snapshot is made portable with   *)
(* them (unresolve) and local again (resolve).                             *)
(*                                                                         *)
(* A text is a sequence of symbols: letters, and the two that delimit a    *)
(* reference, "${" and "}".  Upper and lower case are not told apart, and  *)
(* the second form of a reference, %NAME%, is left out.                    *)
(***************************************************************************)
EXTENDS Naturals, FiniteSets, Sequences, SequencesExt

CONSTANTS
    Symbols,        \* letters and delimiters
    Names,          \* of variables
    Builtin,        \* the built-in variables, with their values
    User,           \* names of the variables that the blueprint defines
    Definitions,    \* the texts that they are defined by
    Skipped,        \* variables that unresolve does not look for: SYSTEMDRIVE, PROJECT_*
    Samples         \* texts of snapshots

\* The delimiters of a reference.
Opening == "${"
Closing == "}"

Text == Seq(Symbols)
Letters == Symbols \ {Opening, Closing}

ASSUME VariablesAssumption ==
    /\ {Opening, Closing} \subseteq Symbols
    /\ Names \subseteq Text /\ IsFiniteSet(Names)
    /\ User \subseteq Names /\ Builtin \in [Names \ User -> Text]
    /\ Definitions \subseteq Text /\ Samples \subseteq Text

VARIABLES
    raw,            \* m_user_variables
    order,          \* the order in which they are iterated
    resolved,       \* m_resolved_variables
    todo,           \* variables still to expand in this pass
    passes,         \* passes begun
    changed,        \* has this pass changed anything
    verdict         \* what resolve_user_variables returns

vars == <<raw, order, resolved, todo, passes, changed, verdict>>

Placeholder(n) == <<Opening>> \o n \o <<Closing>>

OccursAt(s, text, i) == i + Len(s) - 1 <= Len(text) /\ SubSeq(text, i, i + Len(s) - 1) = s

Occurs(s, text) == \E i \in DOMAIN text : OccursAt(s, text, i)

\* pnq::string::Expander: from left to right, what is put in is not looked at again,
\* and a name that is not known stays as it is.
Expand(text, values) ==
    LET From[i \in 1 .. Len(text) + 1] ==
            IF i > Len(text) THEN <<>>
            ELSE IF \E n \in DOMAIN values : OccursAt(Placeholder(n), text, i)
            THEN LET n == CHOOSE m \in DOMAIN values : OccursAt(Placeholder(m), text, i)
                 IN values[n] \o From[i + Len(Placeholder(n))]
            ELSE <<text[i]>> \o From[i + 1]
    IN From[1]

Init ==
    /\ raw \in [User -> Definitions]
    /\ order \in SetToSeqs(User)
    /\ resolved = [n \in Names |-> IF n \in User THEN raw[n] ELSE Builtin[n]]
    /\ todo = order
    /\ passes = 1 /\ changed = FALSE /\ verdict = "none"

\* One pass, as if the variables came in the order of their dependencies.
Bug_MaxIterations == 1

MaxIterations == Cardinality(User) + 1

\* Expands one variable, in place: the next one already sees its new value.
ExpandNext ==
    /\ verdict = "none" /\ todo # <<>> /\ passes <= MaxIterations
    /\ LET n == Head(todo)
           text == Expand(resolved[n], resolved) IN
       /\ resolved' = [resolved EXCEPT ![n] = text]
       /\ changed' = (changed \/ text # resolved[n])
    /\ todo' = Tail(todo)
    /\ UNCHANGED <<raw, order, passes, verdict>>

EndPass ==
    /\ verdict = "none" /\ todo = <<>> /\ passes <= MaxIterations
    /\ IF changed
       THEN /\ passes' = passes + 1 /\ changed' = FALSE
            /\ todo' = order
            /\ UNCHANGED verdict
       ELSE verdict' = "true" /\ UNCHANGED <<todo, passes, changed>>
    /\ UNCHANGED <<raw, order, resolved>>

\* After the last pass: a reference that is left means a cycle.
GiveUp ==
    /\ verdict = "none" /\ passes > MaxIterations
    /\ verdict' = IF \E n \in User : Occurs(<<Opening>>, resolved[n]) THEN "false" ELSE "true"
    /\ UNCHANGED <<raw, order, resolved, todo, passes, changed>>

\* The override is all that is left.
Bug_SetOverride(n, text) ==
    /\ verdict = "true"
    /\ resolved' = [m \in {n} |-> Expand(text, resolved)]
    /\ verdict' = "overridden"
    /\ UNCHANGED <<raw, order, todo, passes, changed>>

\* set_override, before a restore: the other variables are not resolved again.
SetOverride(n, text) ==
    /\ verdict = "true"
    /\ resolved' = [resolved EXCEPT ![n] = Expand(text, resolved)]
    /\ verdict' = "overridden"
    /\ UNCHANGED <<raw, order, todo, passes, changed>>

Next ==
    \/ ExpandNext \/ EndPass \/ GiveUp
    \/ \E n \in Names, text \in Definitions : SetOverride(n, text)

Spec == Init /\ [][Next]_vars

-----------------------------------------------------------------------------
(* Texts.                                                                  *)

Resolve(text) == Expand(text, resolved)

\* Goes on one symbol after the match.
Bug_Replace(text, value, placeholder) ==
    LET From[i \in 1 .. Len(text) + 1] ==
            IF i > Len(text) THEN <<>>
            ELSE IF OccursAt(value, text, i) THEN placeholder \o From[i + 1]
            ELSE <<text[i]>> \o From[i + 1]
    IN From[1]

\* Every occurrence of a value, from left to right, by its placeholder, which is not
\* searched again for this value.
Replace(text, value, placeholder) ==
    LET From[i \in 1 .. Len(text) + 1] ==
            IF i > Len(text) THEN <<>>
            ELSE IF OccursAt(value, text, i) THEN placeholder \o From[i + Len(value)]
            ELSE <<text[i]>> \o From[i + 1]
    IN From[1]

Valued == {n \in Names \ Skipped : resolved[n] # <<>>}

\* Sorts the wrong way round.
Bug_Shortest(left) == CHOOSE n \in left : \A m \in left : Len(resolved[m]) <= Len(resolved[n])

\* The last of these variables, when the longest value comes first.
Shortest(left) == CHOOSE n \in left : \A m \in left : Len(resolved[n]) <= Len(resolved[m])

\* One variable after the other, in the text that the ones before have made.
Unresolve(text) ==
    LET After[done \in SUBSET Valued] ==
            IF done = {} THEN text
            ELSE LET n == Shortest(done)
                 IN Replace(After[done \ {n}], resolved[n], Placeholder(n))
    IN After[Valued]

-----------------------------------------------------------------------------
(* The texts that blueprints have.                                         *)

\* Every "${" is followed by a "}", with no other delimiter in between.
Closed(text) ==
    \A i \in DOMAIN text : text[i] = Opening =>
        \E j \in DOMAIN text :
            i < j /\ text[j] = Closing /\ \A k \in i + 1 .. j - 1 : text[k] \in Letters

\* No delimiter in names, no reference in the values that Windows gives; those in
\* definitions are closed.
WellFormed ==
    /\ Names \subseteq Seq(Letters)
    /\ \A n \in DOMAIN Builtin : Builtin[n] \in Seq(Symbols \ {Opening})
    /\ \A text \in Definitions : Closed(text)

\* No delimiter outside of references either.
Tidy ==
    /\ WellFormed
    /\ \A n \in DOMAIN Builtin : Builtin[n] \in Seq(Letters)
    /\ \A text \in Definitions : Expand(text, [n \in Names |-> <<>>]) \in Seq(Letters)
    /\ Samples \subseteq Seq(Letters)

-----------------------------------------------------------------------------

\* Every variable has a value, a pass goes through the variables in their order, and
\* there are never more passes than MaxIterations.
TypeOK ==
    /\ raw \in [User -> Definitions] /\ resolved \in [Names -> Text]
    /\ order \in SetToSeqs(User)
    /\ \E i \in 0 .. Cardinality(User) : todo = SubSeq(order, i + 1, Cardinality(User))
    /\ passes \in 1 .. MaxIterations + 1
    /\ changed \in BOOLEAN /\ verdict \in {"none", "true", "false", "overridden"}

RefersTo(m, n) == Occurs(Placeholder(n), raw[m])

Acyclic ==
    \E rank \in [User -> 1 .. Cardinality(User)] :
        \A m, n \in User : RefersTo(m, n) => rank[n] < rank[m]

\* Variables without a cycle are resolved, whatever the order of the map, within
\* the passes the code allows itself, and each has the value that its definition asks for.
AcyclicIsResolved ==
    Acyclic => /\ verdict # "false"
               /\ verdict = "true" => \A n \in User : resolved[n] = Expand(raw[n], resolved)

\* A value that occurs in the placeholder of another variable: a user called "data"
\* turns ${APPDATA} into ${APP${USERNAME}}.
Clash == \E m \in Valued, n \in Names : m # n /\ Occurs(resolved[m], Placeholder(n))

\* What a backup makes portable, a restore on the same machine makes what it was,
\* unless values clash with placeholders.
RoundTrip ==
    (verdict \in {"true", "overridden"} /\ Acyclic /\ ~Clash) =>
        \A text \in Samples : Resolve(Unresolve(text)) = text

\* The value of a variable becomes one placeholder, and not the parts of it that are
\* values of shorter ones.
LongestIsKept ==
    (verdict = "true" /\ Acyclic /\ ~Clash) =>
        \A n \in Valued :
            \E m \in Valued : resolved[m] = resolved[n] /\ Unresolve(resolved[n]) = Placeholder(m)
=============================================================================
