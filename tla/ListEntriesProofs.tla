------------------------- MODULE ListEntriesProofs -------------------------
(***************************************************************************)
(* Theorems about ListEntries.  A list is changed as a sequence, and a     *)
(* value with delimiters is split again by whoever reads it next; so the   *)
(* first half is about sequences of sequences and what they flatten to.    *)
(***************************************************************************)
EXTENDS ListEntries, SequenceTheorems, FiniteSetTheorems, WellFoundedInduction, TLAPS

-----------------------------------------------------------------------------
(* Induction.                                                              *)

\* A set of numbers that is not empty has a least one.
LEMMA LeastNumber ==
  ASSUME NEW S \in SUBSET Nat, S # {}
  PROVE  \E i \in S : \A j \in S : i <= j
<1> DEFINE R == OpToRel(<, Nat)
<1>1. PICK i \in S : \A j \in S : ~(<<j, i>> \in R)
  BY NatLessThanWellFounded, WFMin
<1>2. \A j \in S : ~(j < i)
  BY <1>1 DEF OpToRel
<1> QED BY <1>2

\* What holds of the empty sequence, and of a longer one when it holds of the one
\* before, holds of every sequence.
LEMMA EverySequence ==
  ASSUME NEW T, NEW D \in SUBSET Seq(T), <<>> \in D,
         \A q \in D, x \in T : Append(q, x) \in D
  PROVE  D = Seq(T)
<1> SUFFICES ASSUME NEW r \in Seq(T), r \notin D PROVE FALSE
  OBVIOUS
<1> DEFINE S == {n \in Nat : \E q \in Seq(T) : q \notin D /\ Len(q) = n}
<1>1. S \in SUBSET Nat /\ S # {}
  <2>1. Len(r) \in S  BY LenProperties
  <2> QED BY <2>1
<1>2. PICK n \in S : \A m \in S : n <= m
  <2> HIDE DEF S
  <2> QED BY <1>1, LeastNumber
<1>3. PICK q \in Seq(T) : q \notin D /\ Len(q) = n  BY <1>2
<1>4. q # <<>>  BY <1>3
<1>5. PICK s \in Seq(T), x \in T : q = Append(s, x)  BY <1>4, SequenceEmptyOrAppend
<1>6. s \in D
  <2>1. Len(s) \in Nat /\ n = Len(s) + 1  BY <1>3, <1>5, AppendProperties, LenProperties
  <2>2. s \notin D => Len(s) \in S  BY <2>1
  <2> HIDE DEF S
  <2> QED BY <1>2, <2>1, <2>2
<1> QED BY <1>3, <1>5, <1>6

-----------------------------------------------------------------------------
(* Flattening.                                                             *)

\* f has the first k steps of the flattening of q.
Flattens(q, k, f) == f = [i \in 1..k |-> IF i = 1 THEN q[i] ELSE f[i-1] \o q[i]]

LEMMA FlattensSome ==
  ASSUME NEW T, NEW q \in Seq(Seq(T)), NEW k \in 0..Len(q)
  PROVE  \E f : Flattens(q, k, f)
<1> SUFFICES ASSUME ~\E f : Flattens(q, k, f) PROVE FALSE
  OBVIOUS
<1> DEFINE S == {m \in 0..Len(q) : ~\E f : Flattens(q, m, f)}
<1>1. S \in SUBSET Nat /\ S # {}  OBVIOUS
<1>2. PICK m \in S : \A j \in S : m <= j
  <2> HIDE DEF S
  <2> QED BY <1>1, LeastNumber
<1>3. m # 0
  <2>1. Flattens(q, 0, [i \in 1..0 |-> <<>>])  BY DEF Flattens
  <2> QED BY <2>1
<1>4. m - 1 \in 0..Len(q) /\ m - 1 \notin S
  <2>1. m \in Nat /\ m \in 0..Len(q) /\ Len(q) \in Nat  BY <1>2, LenProperties
  <2> HIDE DEF S
  <2>2. m - 1 \in Nat /\ m - 1 < m /\ m - 1 \in 0..Len(q)  BY <2>1, <1>3
  <2> QED BY <1>2, <2>1, <2>2
<1>5. PICK g : Flattens(q, m - 1, g)  BY <1>4
<1> DEFINE e == IF m = 1 THEN q[m] ELSE g[m-1] \o q[m]
           f == [i \in 1..m |-> IF i = m THEN e ELSE g[i]]
<1>6. \A i \in 1..m-1 : g[i] = IF i = 1 THEN q[i] ELSE g[i-1] \o q[i]
  BY <1>5 DEF Flattens
<1>7. \A i \in 1..m : f[i] = IF i = 1 THEN q[i] ELSE f[i-1] \o q[i]
  <2> SUFFICES ASSUME NEW i \in 1..m PROVE f[i] = IF i = 1 THEN q[i] ELSE f[i-1] \o q[i]
    OBVIOUS
  <2>1. i # 1 => f[i-1] = g[i-1]  OBVIOUS
  <2>2. CASE i = m
    <3>1. f[i] = e  BY <2>2
    <3> QED BY <3>1, <2>1, <2>2
  <2>3. CASE i # m
    <3>1. f[i] = g[i] /\ i \in 1..m-1  BY <2>3
    <3> QED BY <3>1, <2>1, <1>6
  <2> QED BY <2>2, <2>3
<1>8. Flattens(q, m, f)  BY <1>7 DEF Flattens
<1> QED BY <1>2, <1>8

LEMMA FlattenSeqIs ==
  ASSUME NEW T, NEW q \in Seq(Seq(T)), q # <<>>
  PROVE  \E f : Flattens(q, Len(q), f) /\ FlattenSeq(q) = f[Len(q)]
<1> DEFINE f == CHOOSE f : Flattens(q, Len(q), f)
<1>1. FlattenSeq(q) = f[Len(q)]
  BY DEF FlattenSeq, Flattens
<1>2. Flattens(q, Len(q), f)
  <2>1. \E h : Flattens(q, Len(q), h)
    BY FlattensSome
  <2> QED BY <2>1
<1> QED BY <1>1, <1>2

LEMMA FlattenEmpty == FlattenSeq(<<>>) = <<>>
BY DEF FlattenSeq

LEMMA FlattenAppend ==
  ASSUME NEW T, NEW q \in Seq(Seq(T)), NEW x \in Seq(T)
  PROVE  FlattenSeq(Append(q, x)) = FlattenSeq(q) \o x
<1> DEFINE p == Append(q, x)
           n == Len(q)
<1>1. /\ p \in Seq(Seq(T)) /\ p # <<>> /\ Len(p) = n + 1 /\ p[n + 1] = x /\ n \in Nat
      /\ \A i \in 1..n : p[i] = q[i]
  BY AppendProperties
<1>2. PICK f : Flattens(p, n + 1, f) /\ FlattenSeq(p) = f[n + 1]
  BY <1>1, FlattenSeqIs
<1>3. \A i \in 1..n+1 : f[i] = IF i = 1 THEN p[i] ELSE f[i-1] \o p[i]
  BY <1>2 DEF Flattens
<1>4. CASE q = <<>>
  <2>1. FlattenSeq(p) = x  BY <1>1, <1>2, <1>3, <1>4
  <2> QED BY <1>4, <2>1, FlattenEmpty, ConcatEmptySeq
<1>5. CASE q # <<>>
  <2>1. PICK g : Flattens(q, n, g) /\ FlattenSeq(q) = g[n]
    BY <1>5, FlattenSeqIs
  <2>2. \A i \in 1..n : g[i] = IF i = 1 THEN q[i] ELSE g[i-1] \o q[i]
    BY <2>1 DEF Flattens
  <2>3. n \in 1..n  BY <1>5
  <2>4. \A i \in 1..n : f[i] = g[i]
    <3> SUFFICES ASSUME NEW k \in 1..n, f[k] # g[k] PROVE FALSE
      OBVIOUS
    <3> DEFINE S == {i \in 1..n : f[i] # g[i]}
    <3>1. S \in SUBSET Nat /\ S # {}  OBVIOUS
    <3>2. PICK i \in S : \A j \in S : i <= j
      <4> HIDE DEF S
      <4> QED BY <3>1, LeastNumber
    <3>3. i # 1  BY <1>1, <1>3, <2>2
    <3>4. i - 1 \in 1..n /\ i - 1 \notin S  BY <3>2, <3>3
    <3> QED BY <1>1, <1>3, <2>2, <3>2, <3>3, <3>4
  <2>5. n + 1 # 1 /\ n + 1 \in 1..n+1 /\ (n + 1) - 1 = n  BY <2>3, <1>1
  <2>6. f[n + 1] = f[n] \o x  BY <1>1, <1>3, <2>5
  <2> QED BY <1>2, <2>1, <2>3, <2>4, <2>6
<1> QED BY <1>4, <1>5

-----------------------------------------------------------------------------
(* Lists in which each string is replaced by several.                      *)

Each(g, l) == FlattenSeq([i \in DOMAIN l |-> g[l[i]]])

\* x is one of the strings of the list.
Has(l, x) == \E i \in DOMAIN l : l[i] = x

LEMMA EachOfNone == ASSUME NEW g PROVE Each(g, <<>>) = <<>>
<1>1. [i \in DOMAIN <<>> |-> g[<<>>[i]]] = <<>>  OBVIOUS
<1> QED BY <1>1, FlattenEmpty DEF Each

LEMMA EachOfAppend ==
  ASSUME NEW T, NEW g, \A y \in T : g[y] \in Seq(T), NEW l \in Seq(T), NEW x \in T
  PROVE  Each(g, Append(l, x)) = Each(g, l) \o g[x]
<1> DEFINE q == [i \in DOMAIN l |-> g[l[i]]]
           p == [i \in DOMAIN Append(l, x) |-> g[Append(l, x)[i]]]
<1>1. /\ DOMAIN l = 1..Len(l) /\ Len(l) \in Nat /\ \A i \in 1..Len(l) : l[i] \in T
      /\ DOMAIN Append(l, x) = 1..Len(l) + 1 /\ Append(l, x)[Len(l) + 1] = x
      /\ \A i \in 1..Len(l) : Append(l, x)[i] = l[i]
  OBVIOUS
<1>2. q \in Seq(Seq(T)) /\ Len(q) = Len(l) /\ g[x] \in Seq(T)  BY <1>1
<1>3. p = Append(q, g[x])  BY <1>1, <1>2
<1> HIDE DEF p, q
<1>4. FlattenSeq(p) = FlattenSeq(q) \o g[x]  BY <1>2, <1>3, FlattenAppend
<1> QED BY <1>4 DEF Each, p, q

LEMMA EachTyped ==
  ASSUME NEW T, NEW g, \A y \in T : g[y] \in Seq(T), NEW l \in Seq(T)
  PROVE  Each(g, l) \in Seq(T)
<1> DEFINE Fine(k) == Each(g, k) \in Seq(T)
           D == {k \in Seq(T) : Fine(k)}
<1>1. D \in SUBSET Seq(T)  OBVIOUS
<1>2. <<>> \in D
  <2>1. Each(g, <<>>) = <<>>  BY EachOfNone
  <2>2. Fine(<<>>)  BY <2>1, EmptySeq
  <2> HIDE DEF Fine
  <2> QED BY <2>2
<1>3. ASSUME NEW k \in D, NEW x \in T PROVE Append(k, x) \in D
  <2>1. Each(g, Append(k, x)) = Each(g, k) \o g[x]  BY EachOfAppend
  <2>2. g[x] \in Seq(T) /\ Each(g, k) \in Seq(T) /\ Append(k, x) \in Seq(T)  OBVIOUS
  <2>3. Fine(Append(k, x))  BY <2>1, <2>2, ConcatProperties
  <2> HIDE DEF Fine
  <2> QED BY <2>2, <2>3
<1> HIDE DEF D
<1>4. D = Seq(T)  BY <1>1, <1>2, <1>3, EverySequence
<1> QED BY <1>4 DEF D

LEMMA EachOfConcat ==
  ASSUME NEW T, NEW g, \A y \in T : g[y] \in Seq(T), NEW l \in Seq(T), NEW m \in Seq(T)
  PROVE  Each(g, l \o m) = Each(g, l) \o Each(g, m)
<1> DEFINE Splits(k) == Each(g, l \o k) = Each(g, l) \o Each(g, k)
           D == {k \in Seq(T) : Splits(k)}
<1>1. D \in SUBSET Seq(T)  OBVIOUS
<1>2. <<>> \in D
  <2>1. Each(g, <<>>) = <<>>  BY EachOfNone
  <2>2. Each(g, l) \in Seq(T)  BY EachTyped
  <2>3. l \o <<>> = l /\ Each(g, l) \o <<>> = Each(g, l)  BY <2>2
  <2>4. Splits(<<>>)  BY <2>1, <2>3
  <2> HIDE DEF Splits
  <2> QED BY <2>4
<1>3. ASSUME NEW k \in D, NEW x \in T PROVE Append(k, x) \in D
  <2>1. l \o Append(k, x) = Append(l \o k, x) /\ l \o k \in Seq(T)
    OBVIOUS
  <2>2. Each(g, Append(l \o k, x)) = (Each(g, l) \o Each(g, k)) \o g[x]
    BY <2>1, EachOfAppend
  <2>3. Each(g, Append(k, x)) = Each(g, k) \o g[x]
    BY EachOfAppend
  <2>4. Each(g, l) \in Seq(T) /\ Each(g, k) \in Seq(T) /\ g[x] \in Seq(T)
    BY EachTyped
  <2>5. Each(g, l \o Append(k, x)) = Each(g, l) \o Each(g, Append(k, x))
    <3> DEFINE r == Each(g, l)
               s == Each(g, k)
               t == g[x]
    <3>1. r \in Seq(T) /\ s \in Seq(T) /\ t \in Seq(T)  BY <2>4
    <3>2. Each(g, l \o Append(k, x)) = (r \o s) \o t /\ Each(g, Append(k, x)) = s \o t
      BY <2>1, <2>2, <2>3
    <3> HIDE DEF D, Splits, r, s, t
    <3>3. (r \o s) \o t = r \o (s \o t)
      BY <3>1
    <3> QED BY <3>2, <3>3 DEF r
  <2>6. Append(k, x) \in Seq(T)  OBVIOUS
  <2> QED BY <2>5, <2>6
<1> HIDE DEF D
<1>4. D = Seq(T)  BY <1>1, <1>2, <1>3, EverySequence
<1> QED BY <1>4 DEF D

LEMMA HasConcat ==
  ASSUME NEW T, NEW l \in Seq(T), NEW m \in Seq(T), NEW x
  PROVE  Has(l \o m, x) <=> Has(l, x) \/ Has(m, x)
<1>1. ASSUME NEW i \in DOMAIN m PROVE Len(l) + i \in DOMAIN (l \o m) /\ (l \o m)[Len(l) + i] = m[i]
  OBVIOUS
<1>2. ASSUME NEW i \in DOMAIN l PROVE i \in DOMAIN (l \o m) /\ (l \o m)[i] = l[i]
  OBVIOUS
<1>3. ASSUME NEW i \in DOMAIN (l \o m), ~(i \in DOMAIN l)
      PROVE  i - Len(l) \in DOMAIN m /\ (l \o m)[i] = m[i - Len(l)]
  BY <1>3
<1> QED BY <1>1, <1>2, <1>3 DEF Has

LEMMA HasEach ==
  ASSUME NEW T, NEW g, \A y \in T : g[y] \in Seq(T), NEW l \in Seq(T), NEW x
  PROVE  Has(Each(g, l), x) <=> \E i \in DOMAIN l : Has(g[l[i]], x)
<1> DEFINE In(k) == \E i \in DOMAIN k : Has(g[k[i]], x)
           D == {k \in Seq(T) : Has(Each(g, k), x) <=> In(k)}
<1>1. D \in SUBSET Seq(T)  OBVIOUS
<1>2. <<>> \in D
  BY EachOfNone DEF Has
<1>3. ASSUME NEW k \in D, NEW y \in T PROVE Append(k, y) \in D
  <2>1. Has(Each(g, Append(k, y)), x) <=> Has(Each(g, k), x) \/ Has(g[y], x)
    <3>1. Each(g, Append(k, y)) = Each(g, k) \o g[y]  BY EachOfAppend
    <3>2. Each(g, k) \in Seq(T) /\ g[y] \in Seq(T)  BY EachTyped
    <3> QED BY <3>1, <3>2, HasConcat
  <2>2. In(Append(k, y)) <=> In(k) \/ Has(g[y], x)
    <3>1. /\ DOMAIN Append(k, y) = DOMAIN k \cup {Len(k) + 1}
          /\ Append(k, y)[Len(k) + 1] = y
          /\ \A i \in DOMAIN k : Append(k, y)[i] = k[i]
      OBVIOUS
    <3> QED BY <3>1
  <2>3. Append(k, y) \in Seq(T)  OBVIOUS
  <2> HIDE DEF In
  <2> QED BY <2>1, <2>2, <2>3
<1> HIDE DEF D
<1>4. D = Seq(T)  BY <1>1, <1>2, <1>3, EverySequence
<1> QED BY <1>4 DEF D

LEMMA EachIsSame ==
  ASSUME NEW T, NEW g, \A y \in T : g[y] \in Seq(T), NEW l \in Seq(T),
         \A i \in DOMAIN l : g[l[i]] = <<l[i]>>
  PROVE  Each(g, l) = l
<1> DEFINE Same(k) == \A i \in DOMAIN k : g[k[i]] = <<k[i]>>
           D == {k \in Seq(T) : Same(k) => Each(g, k) = k}
<1>1. D \in SUBSET Seq(T)  OBVIOUS
<1>2. <<>> \in D  BY EachOfNone
<1>3. ASSUME NEW k \in D, NEW y \in T PROVE Append(k, y) \in D
  <2>0. Append(k, y) \in Seq(T)  OBVIOUS
  <2> SUFFICES ASSUME Same(Append(k, y)) PROVE Each(g, Append(k, y)) = Append(k, y)
    BY <2>0
  <2>1. /\ DOMAIN Append(k, y) = DOMAIN k \cup {Len(k) + 1}
        /\ Append(k, y)[Len(k) + 1] = y
        /\ \A i \in DOMAIN k : Append(k, y)[i] = k[i]
    OBVIOUS
  <2>2. Same(k) /\ g[y] = <<y>>  BY <2>1
  <2>3. Each(g, k) = k  BY <2>2
  <2>4. Each(g, Append(k, y)) = Each(g, k) \o g[y]  BY EachOfAppend
  <2> QED BY <2>2, <2>3, <2>4, AppendIsConcat
<1> HIDE DEF D
<1>4. D = Seq(T)  BY <1>1, <1>2, <1>3, EverySequence
<1> QED BY <1>4 DEF D

-----------------------------------------------------------------------------
(* What the operations do to a list.                                       *)

Split == [s \in Strings |-> Pieces[s]]
Rest(c) == [s \in Strings |-> IF IsEntry(c, s) THEN <<>> ELSE <<s>>]

\* Read as a value with delimiters, the list is what was written.
Plain(list) == format = "delimited" => \A i \in DOMAIN list : Pieces[list[i]] = <<list[i]>>

LEMMA SplitTyped == \A s \in Strings : Split[s] \in Seq(Strings)
BY ListAssumption DEF Split

LEMMA RestTyped == ASSUME NEW c PROVE \A s \in Strings : Rest(c)[s] \in Seq(Strings)
BY DEF Rest

LEMMA StoredIsEach ==
  ASSUME NEW list \in Seq(Strings)
  PROVE  Stored(list) = IF format = "multi" THEN list ELSE Each(Split, list)
<1>1. [i \in DOMAIN list |-> Pieces[list[i]]] = [i \in DOMAIN list |-> Split[list[i]]]
  <2>1. \A i \in DOMAIN list : list[i] \in Strings  OBVIOUS
  <2> QED BY <2>1 DEF Split
<1> QED BY <1>1 DEF Stored, Each

LEMMA OthersIsEach ==
  ASSUME NEW c, NEW list \in Seq(Strings)
  PROVE  Others(c, list) = Each(Rest(c), list)
<1>1. \A i \in DOMAIN list :
        (IF IsEntry(c, list[i]) THEN <<>> ELSE <<list[i]>>) = Rest(c)[list[i]]
  <2>1. \A i \in DOMAIN list : list[i] \in Strings  OBVIOUS
  <2> QED BY <2>1 DEF Rest
<1>2. [i \in DOMAIN list |-> IF IsEntry(c, list[i]) THEN <<>> ELSE <<list[i]>>]
      = [i \in DOMAIN list |-> Rest(c)[list[i]]]
  BY <1>1
<1> QED BY <1>2 DEF Others, Each

\* What the registry holds after a write is a list of strings without a delimiter.
LEMMA StoredTyped ==
  ASSUME NEW list \in Seq(Strings)
  PROVE  Stored(list) \in Seq(Strings)
<1>1. Each(Split, list) \in Seq(Strings)  BY SplitTyped, EachTyped
<1> QED BY <1>1, StoredIsEach

LEMMA StoredPlain ==
  ASSUME NEW list \in Seq(Strings), format \in {"multi", "delimited"}
  PROVE  Plain(Stored(list))
<1> SUFFICES ASSUME format = "delimited", NEW i \in DOMAIN Stored(list)
             PROVE  Pieces[Stored(list)[i]] = <<Stored(list)[i]>>
  BY DEF Plain
<1> DEFINE x == Stored(list)[i]
<1>1. Stored(list) = Each(Split, list)  BY StoredIsEach
<1>2. Has(Each(Split, list), x)  BY <1>1 DEF Has
<1> HIDE DEF x
<1>3. PICK j \in DOMAIN list : Has(Split[list[j]], x)  BY <1>2, SplitTyped, HasEach
<1>4. list[j] \in Strings  BY <1>3
<1>5. Has(Pieces[list[j]], x)  BY <1>3, <1>4 DEF Split
<1>6. Pieces[x] = <<x>>  BY <1>4, <1>5, ListAssumption DEF Has
<1> QED BY <1>6 DEF x

\* A string without a delimiter survives the write.
LEMMA StoredKeeps ==
  ASSUME NEW list \in Seq(Strings), NEW x, Has(list, x),
         format # "multi" => Pieces[x] = <<x>>
  PROVE  Has(Stored(list), x)
<1>1. CASE format = "multi"  BY <1>1, StoredIsEach
<1>2. CASE format # "multi"
  <2>1. PICK i \in DOMAIN list : list[i] = x  BY DEF Has
  <2>2. x \in Strings  BY <2>1
  <2>3. Split[list[i]] = <<x>>  BY <1>2, <2>1, <2>2 DEF Split
  <2>4. Has(Split[list[i]], x)  BY <2>3 DEF Has
  <2>5. Has(Each(Split, list), x)  BY <2>4, SplitTyped, HasEach
  <2> QED BY <1>2, <2>5, StoredIsEach
<1> QED BY <1>1, <1>2

LEMMA StoredIsSame ==
  ASSUME NEW list \in Seq(Strings), Plain(list), format \in {"multi", "delimited"}
  PROVE  Stored(list) = list
<1>1. CASE format = "multi"  BY <1>1, StoredIsEach
<1>2. CASE format = "delimited"
  <2>1. \A i \in DOMAIN list : list[i] \in Strings  OBVIOUS
  <2>2. \A i \in DOMAIN list : Split[list[i]] = <<list[i]>>  BY <1>2, <2>1 DEF Plain, Split
  <2>3. Each(Split, list) = list  BY <2>2, SplitTyped, EachIsSame
  <2> QED BY <1>2, <2>3, StoredIsEach
<1> QED BY <1>1, <1>2

\* The entries of others, and what is done with the own one.
LEMMA OthersTyped ==
  ASSUME NEW c, NEW list \in Seq(Strings)
  PROVE  Others(c, list) \in Seq(Strings)
BY RestTyped, OthersIsEach, EachTyped

LEMMA OthersConcat ==
  ASSUME NEW c, NEW a \in Seq(Strings), NEW b \in Seq(Strings)
  PROVE  Others(c, a \o b) = Others(c, a) \o Others(c, b)
<1>1. a \o b \in Seq(Strings)  OBVIOUS
<1>2. Each(Rest(c), a \o b) = Each(Rest(c), a) \o Each(Rest(c), b)
  <2>1. \A s \in Strings : Rest(c)[s] \in Seq(Strings)  BY RestTyped
  <2> DEFINE g == Rest(c)
  <2> HIDE DEF g
  <2>2. \A s \in Strings : g[s] \in Seq(Strings)  BY <2>1 DEF g
  <2>3. Each(g, a \o b) = Each(g, a) \o Each(g, b)  BY <2>2, EachOfConcat
  <2> QED BY <2>3 DEF g
<1>3. Others(c, a) = Each(Rest(c), a) /\ Others(c, b) = Each(Rest(c), b)  BY OthersIsEach
<1>4. Others(c, a \o b) = Each(Rest(c), a \o b)  BY <1>1, OthersIsEach
<1> QED BY <1>2, <1>3, <1>4

LEMMA OthersOfEntry ==
  ASSUME NEW c, NEW s \in Strings, IsEntry(c, s)
  PROVE  Others(c, <<s>>) = <<>>
<1>1. <<s>> = Append(<<>>, s) /\ <<s>> \in Seq(Strings) /\ <<>> \in Seq(Strings)  OBVIOUS
<1>2. Rest(c)[s] = <<>>  BY DEF Rest
<1>3. Each(Rest(c), Append(<<>>, s)) = Each(Rest(c), <<>>) \o Rest(c)[s]
  BY <1>1, RestTyped, EachOfAppend
<1>4. Each(Rest(c), <<>>) = <<>>  BY EachOfNone
<1>5. Each(Rest(c), <<s>>) = <<>>  BY <1>1, <1>2, <1>3, <1>4
<1> QED BY <1>1, <1>5, OthersIsEach

LEMMA OthersHas ==
  ASSUME NEW c, NEW list \in Seq(Strings), NEW x
  PROVE  Has(Others(c, list), x) <=> Has(list, x) /\ ~IsEntry(c, x)
<1>1. Has(Others(c, list), x) <=> \E i \in DOMAIN list : Has(Rest(c)[list[i]], x)
  BY RestTyped, OthersIsEach, HasEach
<1>2. \A i \in DOMAIN list : list[i] \in Strings  OBVIOUS
<1>3. ASSUME NEW s \in Strings
      PROVE  Has(Rest(c)[s], x) <=> s = x /\ ~IsEntry(c, x)
  <2>1. CASE IsEntry(c, s)
    <3>1. Rest(c)[s] = <<>>  BY <2>1 DEF Rest
    <3>2. ~Has(<<>>, x)  BY DEF Has
    <3> QED BY <2>1, <3>1, <3>2
  <2>2. CASE ~IsEntry(c, s)
    <3>1. Rest(c)[s] = <<s>>  BY <2>2 DEF Rest
    <3>2. Has(<<s>>, x) <=> s = x  BY DEF Has
    <3> QED BY <2>2, <3>1, <3>2
  <2> QED BY <2>1, <2>2
<1> QED BY <1>1, <1>2, <1>3 DEF Has

LEMMA InListHas ==
  ASSUME NEW c, NEW list
  PROVE  InList(c, list) <=> \E x : Has(list, x) /\ IsEntry(c, x)
BY DEF InList, Has

LEMMA OthersIsSame ==
  ASSUME NEW c, NEW list \in Seq(Strings), ~InList(c, list)
  PROVE  Others(c, list) = list
<1>1. \A i \in DOMAIN list : list[i] \in Strings /\ ~IsEntry(c, list[i])  BY DEF InList
<1>2. \A i \in DOMAIN list : Rest(c)[list[i]] = <<list[i]>>  BY <1>1 DEF Rest
<1>3. Each(Rest(c), list) = list  BY <1>2, RestTyped, EachIsSame
<1> QED BY <1>3, OthersIsEach

Around(a, s, b) == (a \o <<s>>) \o b
Joined(a, b) == a \o b
Without(c, list) == RemoveFirstMatch(list, LAMBDA s : IsEntry(c, s))

\* find_if looks for the first of the equal entries, and erase takes it away.
LEMMA FirstIsRemoved ==
  ASSUME NEW c, NEW a \in Seq(Strings), NEW s \in Strings, NEW b \in Seq(Strings),
         IsEntry(c, s), ~InList(c, a), NEW list, list = Around(a, s, b)
  PROVE  Without(c, list) = Joined(a, b)
<1> DEFINE n == Len(a) + 1
           I == {i \in 1..Len(list) : IsEntry(c, list[i])}
<1>1. /\ list \in Seq(Strings) /\ Len(list) = Len(a) + 1 + Len(b) /\ list[n] = s
      /\ \A i \in 1..Len(a) : list[i] = a[i]
      /\ \A i \in 1..Len(b) : list[n + i] = b[i]
      /\ Len(a) \in Nat /\ Len(b) \in Nat
  BY DEF Around
<1>2. n \in I  BY <1>1
<1>3. \A i \in I : n <= i
  <2> SUFFICES ASSUME NEW i \in I, i < n PROVE FALSE
    BY <1>1
  <2>1. i \in 1..Len(a) /\ IsEntry(c, a[i])  BY <1>1
  <2> QED BY <2>1 DEF InList
<1>4. Min(I) = n
  <2>1. n \in Nat /\ I \subseteq Nat  BY <1>1
  <2> HIDE DEF n, I
  <2> DEFINE m == CHOOSE x \in I : \A y \in I : x <= y
  <2>2. m \in I /\ \A y \in I : m <= y  BY <1>2, <1>3
  <2>3. Min(I) = m  BY DEF Min
  <2> HIDE DEF m
  <2>4. m <= n /\ n <= m /\ m \in Nat  BY <1>2, <1>3, <2>1, <2>2
  <2> QED BY <2>1, <2>3, <2>4
<1>5. Without(c, list) = RemoveAt(list, n)
  <2>1. Without(c, list) = IF \E i \in 1..Len(list) : IsEntry(c, list[i])
                           THEN RemoveAt(list, IF I # {} THEN Min(I) ELSE 0) ELSE list
    BY DEF Without, RemoveFirstMatch, SelectInSeq
  <2>2. \E i \in 1..Len(list) : IsEntry(c, list[i])  BY <1>2
  <2> QED BY <1>2, <1>4, <2>1, <2>2
<1>6. SubSeq(list, 1, n - 1) = a
  <2> DEFINE p == SubSeq(list, 1, n - 1)
  <2>1. p \in Seq(Strings) /\ Len(p) = Len(a) /\ \A i \in 1..Len(a) : p[i] = a[i]
    BY <1>1
  <2> HIDE DEF p
  <2>2. p = a  BY <2>1, SeqEqual
  <2> QED BY <2>2 DEF p
<1>7. SubSeq(list, n + 1, Len(list)) = b
  <2> DEFINE p == SubSeq(list, n + 1, Len(list))
  <2>1. p \in Seq(Strings) /\ Len(p) = Len(b) /\ \A i \in 1..Len(b) : p[i] = b[i]
    BY <1>1
  <2> HIDE DEF p
  <2>2. p = b  BY <2>1, SeqEqual
  <2> QED BY <2>2 DEF p
<1> QED BY <1>5, <1>6, <1>7 DEF RemoveAt, Joined

LEMMA Rejoined ==
  ASSUME NEW T, NEW list \in Seq(T), NEW n \in 1..Len(list), NEW a \in Seq(T), NEW b \in Seq(T),
         Len(a) = n - 1, \A i \in 1..n-1 : a[i] = list[i],
         Len(b) = Len(list) - n, \A i \in 1..Len(list)-n : b[i] = list[n + i]
  PROVE  list = Around(a, list[n], b)
<1> DEFINE r == a \o <<list[n]>>
           q == r \o b
<1>1. r \in Seq(T) /\ Len(r) = n /\ \A i \in 1..n : r[i] = list[i]  OBVIOUS
<1>0. n \in Nat /\ Len(list) \in Nat /\ n <= Len(list)  OBVIOUS
<1> HIDE DEF r
<1>2. q \in Seq(T) /\ Len(q) = Len(list)
  <2>1. q \in Seq(T) /\ Len(q) = n + Len(b)  BY <1>1, ConcatProperties
  <2> QED BY <2>1, <1>0
<1>3. ASSUME NEW i \in 1..Len(list) PROVE q[i] = list[i]
  <2>1. CASE i <= n
    BY <1>1, <2>1
  <2>2. CASE i > n
    <3>1. i - n \in 1..Len(list)-n /\ b[i - n] = list[n + (i - n)]  BY <2>2
    <3>2. q[i] = b[i - n]  BY <1>1, <2>2
    <3>3. n + (i - n) = i  OBVIOUS
    <3> QED BY <3>1, <3>2, <3>3
  <2>3. i <= n \/ i > n  BY <1>0
  <2> QED BY <2>1, <2>2, <2>3
<1> HIDE DEF q
<1>4. q = list  BY <1>2, <1>3, SeqEqual
<1> QED BY <1>4 DEF q, r, Around

LEMMA FirstSplits ==
  ASSUME NEW c, NEW list \in Seq(Strings), InList(c, list)
  PROVE  \E a, b \in Seq(Strings), s \in Strings :
            list = Around(a, s, b) /\ IsEntry(c, s) /\ ~InList(c, a)
<1> DEFINE I == {i \in 1..Len(list) : IsEntry(c, list[i])}
<1>1. I \in SUBSET Nat /\ I # {}  BY DEF InList
<1>2. PICK n \in I : \A i \in I : n <= i
  <2> HIDE DEF I
  <2> QED BY <1>1, LeastNumber
<1> DEFINE a == SubSeq(list, 1, n - 1)
           b == SubSeq(list, n + 1, Len(list))
           s == list[n]
<1>3. n \in 1..Len(list) /\ Len(list) \in Nat /\ \A i \in 1..Len(list) : list[i] \in Strings
  BY <1>2
<1>4. /\ a \in Seq(Strings) /\ Len(a) = n - 1 /\ \A i \in 1..n-1 : a[i] = list[i]
      /\ b \in Seq(Strings) /\ Len(b) = Len(list) - n
      /\ \A i \in 1..Len(list)-n : b[i] = list[n + i]
  BY <1>3
<1>5. s \in Strings /\ IsEntry(c, s)  BY <1>2, <1>3
<1>6. ~InList(c, a)
  <2> SUFFICES ASSUME NEW i \in DOMAIN a, IsEntry(c, a[i]) PROVE FALSE
    BY DEF InList
  <2>1. i \in 1..n-1
    <3>1. DOMAIN a = 1..Len(a)  BY <1>4
    <3> HIDE DEF a
    <3> QED BY <1>4, <3>1
  <2>2. n \in Nat /\ n <= Len(list) /\ Len(list) \in Nat  BY <1>3
  <2>3. a[i] = list[i]  BY <1>4, <2>1
  <2>4. i \in 1..Len(list) /\ i < n
    <3> HIDE DEF a, b, I
    <3> QED BY <2>1, <2>2
  <2>5. i \in I  BY <2>3, <2>4
  <2>6. n <= i  BY <1>2, <2>5
  <2> HIDE DEF a, b, I
  <2> QED BY <2>1, <2>2, <2>4, <2>6
<1>7. list = Around(a, s, b)
  <2> HIDE DEF a, b, I
  <2> QED BY <1>3, <1>4, Rejoined
<1> HIDE DEF a, b, s
<1> QED BY <1>4, <1>5, <1>6, <1>7

\* An entry of a value with delimiters is removed where it is met first.
LEMMA RemovedSplits ==
  ASSUME NEW c, NEW list \in Seq(Strings), InList(c, list), format # "multi"
  PROVE  \E a, b \in Seq(Strings), s \in Strings :
            /\ list = Around(a, s, b) /\ IsEntry(c, s) /\ ~InList(c, a)
            /\ Removed(c, list) = Joined(a, b)
<1>1. PICK a \in Seq(Strings), b \in Seq(Strings), s \in Strings :
         list = Around(a, s, b) /\ IsEntry(c, s) /\ ~InList(c, a)
  BY FirstSplits
<1>2. Without(c, list) = Joined(a, b)  BY <1>1, FirstIsRemoved
<1>3. Removed(c, list) = Without(c, list)  BY DEF Removed, Without, RemoveFirstMatch, SelectInSeq
<1> QED BY <1>1, <1>2, <1>3

LEMMA AroundHas ==
  ASSUME NEW a \in Seq(Strings), NEW s \in Strings, NEW b \in Seq(Strings), NEW x
  PROVE  /\ Has(Around(a, s, b), x) <=> Has(a, x) \/ s = x \/ Has(b, x)
         /\ Has(Joined(a, b), x) <=> Has(a, x) \/ Has(b, x)
<1>1. a \o <<s>> \in Seq(Strings) /\ <<s>> \in Seq(Strings)  OBVIOUS
<1>2. Has(<<s>>, x) <=> s = x  BY DEF Has
<1>3. Has(a \o <<s>>, x) <=> Has(a, x) \/ s = x  BY <1>1, <1>2, HasConcat
<1>4. Has((a \o <<s>>) \o b, x) <=> Has(a \o <<s>>, x) \/ Has(b, x)  BY <1>1, HasConcat
<1>5. Has(a \o b, x) <=> Has(a, x) \/ Has(b, x)  BY HasConcat
<1> QED BY <1>3, <1>4, <1>5 DEF Around, Joined

LEMMA AroundOthers ==
  ASSUME NEW c, NEW a \in Seq(Strings), NEW s \in Strings, NEW b \in Seq(Strings), IsEntry(c, s)
  PROVE  Others(c, Around(a, s, b)) = Others(c, Joined(a, b))
<1> DEFINE r == a \o <<s>>
<1>1. <<s>> \in Seq(Strings) /\ r \in Seq(Strings)  OBVIOUS
<1>2. Others(c, r) = Others(c, a) \o Others(c, <<s>>)  BY <1>1, OthersConcat
<1>3. Others(c, <<s>>) = <<>>  BY OthersOfEntry
<1>4. Others(c, a) \in Seq(Strings)  BY OthersTyped
<1>5. Others(c, r) = Others(c, a)  BY <1>2, <1>3, <1>4
<1> HIDE DEF r
<1>6. Others(c, r \o b) = Others(c, r) \o Others(c, b)  BY <1>1, OthersConcat
<1>7. Others(c, a \o b) = Others(c, a) \o Others(c, b)  BY OthersConcat
<1>8. Others(c, r \o b) = Others(c, a \o b)  BY <1>5, <1>6, <1>7
<1> QED BY <1>8 DEF Around, Joined, r

\* Where the entry is not in the list nothing is removed.
LEMMA RemovedIsSame ==
  ASSUME NEW c, NEW list \in Seq(Strings), ~InList(c, list)
  PROVE  Removed(c, list) = list
<1>1. ~\E i \in 1..Len(list) : IsEntry(c, list[i])  BY DEF InList
<1>2. Others(c, list) = list  BY OthersIsSame
<1> QED BY <1>1, <1>2 DEF Removed, RemoveFirstMatch

LEMMA RemovedTyped ==
  ASSUME NEW c, NEW list \in Seq(Strings)
  PROVE  Removed(c, list) \in Seq(Strings)
<1>1. CASE format = "multi"  BY <1>1, OthersTyped DEF Removed
<1>2. CASE format # "multi" /\ InList(c, list)
  <2>1. PICK a \in Seq(Strings), b \in Seq(Strings) : Removed(c, list) = Joined(a, b)
    BY <1>2, RemovedSplits
  <2> QED BY <2>1 DEF Joined
<1>3. CASE ~InList(c, list)  BY <1>3, RemovedIsSame
<1> QED BY <1>1, <1>2, <1>3

\* remove_from_list removes nothing but the entry.
LEMMA RemovedHas ==
  ASSUME NEW c, NEW list \in Seq(Strings), NEW x
  PROVE  /\ Has(Removed(c, list), x) => Has(list, x)
         /\ Has(list, x) /\ ~IsEntry(c, x) => Has(Removed(c, list), x)
<1>1. CASE format = "multi"  BY <1>1, OthersHas DEF Removed
<1>2. CASE format # "multi" /\ InList(c, list)
  <2>1. PICK a \in Seq(Strings), b \in Seq(Strings), s \in Strings :
           list = Around(a, s, b) /\ IsEntry(c, s) /\ Removed(c, list) = Joined(a, b)
    BY <1>2, RemovedSplits
  <2> QED BY <2>1, AroundHas
<1>3. CASE ~InList(c, list)  BY <1>3, RemovedIsSame
<1> QED BY <1>1, <1>2, <1>3

LEMMA RemovedOthers ==
  ASSUME NEW c, NEW list \in Seq(Strings)
  PROVE  Others(c, Removed(c, list)) = Others(c, list)
<1>1. CASE format = "multi"
  <2>1. ~InList(c, Others(c, list))  BY OthersHas, InListHas
  <2>2. Others(c, Others(c, list)) = Others(c, list)  BY <2>1, OthersTyped, OthersIsSame
  <2> QED BY <1>1, <2>2 DEF Removed
<1>2. CASE format # "multi" /\ InList(c, list)
  <2>1. PICK a \in Seq(Strings), b \in Seq(Strings), s \in Strings :
           list = Around(a, s, b) /\ IsEntry(c, s) /\ Removed(c, list) = Joined(a, b)
    BY <1>2, RemovedSplits
  <2> QED BY <2>1, AroundOthers
<1>3. CASE ~InList(c, list)  BY <1>3, RemovedIsSame
<1> QED BY <1>1, <1>2, <1>3

\* An entry that is there at most once, or in a multi-string, is gone afterwards.
LEMMA RemovedNone ==
  ASSUME NEW c, NEW list \in Seq(Strings), format = "multi" \/ Occurrences(c, list) < 2
  PROVE  ~InList(c, Removed(c, list))
<1>1. CASE format = "multi"
  <2>1. ~InList(c, Others(c, list))  BY OthersHas, InListHas
  <2> QED BY <1>1, <2>1 DEF Removed
<1>2. CASE format # "multi" /\ InList(c, list)
  <2>1. PICK a \in Seq(Strings), b \in Seq(Strings), s \in Strings :
           /\ list = Around(a, s, b) /\ IsEntry(c, s) /\ ~InList(c, a)
           /\ Removed(c, list) = Joined(a, b)
    BY <1>2, RemovedSplits
  <2> SUFFICES ASSUME InList(c, Joined(a, b)) PROVE FALSE
    BY <2>1
  <2>2. PICK x : Has(Joined(a, b), x) /\ IsEntry(c, x)  BY InListHas
  <2>3. Has(b, x)  BY <2>1, <2>2, AroundHas, InListHas
  <2>4. PICK j \in DOMAIN b : b[j] = x  BY <2>3 DEF Has
  <2> DEFINE I == {i \in DOMAIN list : IsEntry(c, list[i])}
             m == Len(a) + 1
             n == Len(a) + 1 + j
  <2>5. /\ Len(a) \in Nat /\ Len(b) \in Nat /\ j \in 1..Len(b)
        /\ Len(list) = Len(a) + 1 + Len(b) /\ list[m] = s /\ list[n] = x
        /\ DOMAIN list = 1..Len(list)
    BY <2>1, <2>4 DEF Around
  <2>6. m \in I /\ n \in I /\ m # n  BY <2>1, <2>2, <2>5
  <2>7. IsFiniteSet(I)
    <3>1. IsFiniteSet(1..Len(list))  BY <2>5, FS_Interval
    <3> QED BY <3>1, <2>5, FS_Subset
  <2> HIDE DEF m, n
  <2> DEFINE T == {m} \cup {n}
  <2>8. Cardinality(T) = 2
    <3>1. Cardinality({m}) = 1 /\ IsFiniteSet({m})  BY FS_Singleton
    <3>2. n \notin {m}  BY <2>6
    <3>3. Cardinality(T) = Cardinality({m}) + 1  BY <3>1, <3>2, FS_AddElement
    <3> HIDE DEF T
    <3> QED BY <3>1, <3>3
  <2>9. Cardinality(T) <= Cardinality(I)
    <3>1. T \subseteq I  BY <2>6
    <3> HIDE DEF T
    <3> QED BY <3>1, <2>7, FS_Subset
  <2>10. Cardinality(I) \in Nat /\ Occurrences(c, list) = Cardinality(I)
    BY <2>7, FS_CardinalityType DEF Occurrences
  <2> QED BY <1>2, <2>8, <2>9, <2>10
<1>3. CASE ~InList(c, list)  BY <1>3, RemovedIsSame
<1> QED BY <1>1, <1>2, <1>3

-----------------------------------------------------------------------------
(* The entry is added.                                                     *)

\* To add is to put the entry before all others, or behind them.
LEMMA AddedIsAround ==
  ASSUME NEW c, entry[c] \in Strings, NEW list \in Seq(Strings)
  PROVE  \E a, b \in Seq(Strings) : Added(c, list) = Around(a, entry[c], b) /\ list = Joined(a, b)
<1>1. <<>> \in Seq(Strings) /\ list \o <<>> = list /\ <<>> \o list = list  OBVIOUS
<1>2. CASE position = "Prepend"
  <2>1. (<<>> \o <<entry[c]>>) \o list = <<entry[c]>> \o list  OBVIOUS
  <2>2. Added(c, list) = Around(<<>>, entry[c], list) /\ list = Joined(<<>>, list)
    BY <1>1, <1>2, <2>1 DEF Added, Around, Joined
  <2> QED BY <1>1, <2>2
<1>3. CASE position # "Prepend"
  <2>1. (list \o <<entry[c]>>) \o <<>> = Append(list, entry[c])  OBVIOUS
  <2>2. Added(c, list) = Around(list, entry[c], <<>>) /\ list = Joined(list, <<>>)
    BY <1>1, <1>3, <2>1 DEF Added, Around, Joined
  <2> QED BY <1>1, <2>2
<1> QED BY <1>2, <1>3

LEMMA AddedTyped ==
  ASSUME NEW c, entry[c] \in Strings, NEW list \in Seq(Strings)
  PROVE  Added(c, list) \in Seq(Strings)
BY DEF Added

LEMMA AddedHas ==
  ASSUME NEW c, entry[c] \in Strings, NEW list \in Seq(Strings), NEW x
  PROVE  Has(Added(c, list), x) <=> x = entry[c] \/ Has(list, x)
<1>1. PICK a \in Seq(Strings), b \in Seq(Strings) :
         Added(c, list) = Around(a, entry[c], b) /\ list = Joined(a, b)
  BY AddedIsAround
<1> QED BY <1>1, AroundHas

LEMMA AddedOthers ==
  ASSUME NEW c, entry[c] \in Strings, NEW list \in Seq(Strings)
  PROVE  Others(c, Added(c, list)) = Others(c, list)
<1>1. PICK a \in Seq(Strings), b \in Seq(Strings) :
         Added(c, list) = Around(a, entry[c], b) /\ list = Joined(a, b)
  BY AddedIsAround
<1>2. IsEntry(c, entry[c])  BY DEF IsEntry
<1> QED BY <1>1, <1>2, AroundOthers

\* remove_from_list takes back what add_to_list has added.
LEMMA AddedIsRemoved ==
  ASSUME NEW c, entry[c] \in Strings, NEW list \in Seq(Strings), ~InList(c, list)
  PROVE  Removed(c, Added(c, list)) = list
<1>1. CASE format = "multi"
  <2>1. Others(c, Added(c, list)) = list  BY AddedOthers, OthersIsSame
  <2> QED BY <1>1, <2>1 DEF Removed
<1>2. CASE format # "multi"
  <2>1. PICK a \in Seq(Strings), b \in Seq(Strings) :
           Added(c, list) = Around(a, entry[c], b) /\ list = Joined(a, b)
    BY AddedIsAround
  <2>2. IsEntry(c, entry[c])  BY DEF IsEntry
  <2>3. ~InList(c, a)  BY <2>1, AroundHas, InListHas
  <2>4. Without(c, Added(c, list)) = list  BY <2>1, <2>2, <2>3, FirstIsRemoved
  <2> QED BY <1>2, <2>4 DEF Removed, Without, RemoveFirstMatch, SelectInSeq
<1> QED BY <1>1, <1>2

LEMMA AddedPlain ==
  ASSUME NEW c, entry[c] \in Strings, NEW list \in Seq(Strings), Plain(list), Whole(c),
         format \in {"multi", "delimited"}
  PROVE  Plain(Added(c, list))
<1> SUFFICES ASSUME format = "delimited", NEW i \in DOMAIN Added(c, list)
             PROVE  Pieces[Added(c, list)[i]] = <<Added(c, list)[i]>>
  BY DEF Plain
<1>1. Has(Added(c, list), Added(c, list)[i])  BY DEF Has
<1>2. Added(c, list)[i] = entry[c] \/ Has(list, Added(c, list)[i])  BY <1>1, AddedHas
<1> QED BY <1>2 DEF Has, Plain, Whole

LEMMA RemovedPlain ==
  ASSUME NEW c, NEW list \in Seq(Strings), Plain(list)
  PROVE  Plain(Removed(c, list))
<1> SUFFICES ASSUME format = "delimited", NEW i \in DOMAIN Removed(c, list)
             PROVE  Pieces[Removed(c, list)[i]] = <<Removed(c, list)[i]>>
  BY DEF Plain
<1>1. Has(Removed(c, list), Removed(c, list)[i])  BY DEF Has
<1>2. Has(list, Removed(c, list)[i])  BY <1>1, RemovedHas
<1> QED BY <1>2 DEF Has, Plain

-----------------------------------------------------------------------------
(* The invariant.                                                          *)

Adds(w, r) == w.op = "restore" /\ r = "present"

\* What client c is doing, w, fits the value, v, and what it has recorded, r: it
\* writes what its operation makes of the list it has read, which is still the
\* value unless a read failed or somebody else has changed it.
Doing(c, w, v, r) ==
    /\ Plain(w.seen)
    /\ w.pc # "done" => w.ok
    /\ w.pc = "adding" => Adds(w, r) /\ ~InList(c, w.seen)
    /\ w.pc = "writing" =>
          w.new = IF Adds(w, r) THEN Added(c, w.seen) ELSE Removed(c, w.seen)
    /\ (w.pc # "done" /\ ~w.blind /\ ~w.disturbed) =>
          w.seen = v /\ (Adds(w, r) => ~InList(c, v))
    /\ (/\ w.pc = "done" /\ w.ok /\ w.op = "restore" /\ ~w.blind /\ ~w.disturbed /\ Whole(c)
        /\ (format = "delimited" => Occurrences(c, w.seen) < 2)) => (InList(c, v) <=> r = "present")

Cleaned(w) == w # None /\ w.op = "clean" /\ w.pc = "done"

\* What client c can undo, u, is the list to which its entry has been added, until a
\* clean has removed it.
Undoes(c, w, v, u) ==
    (u # None /\ Whole(c)) =>
        /\ Plain(u) /\ ~InList(c, u)
        /\ w # None => ~w.disturbed
        /\ (Cleaned(w) /\ w.ok /\ ~w.blind) => v = u
        /\ ~Cleaned(w) => v = Added(c, u)

Fit(c, w, v, r, u) == (w # None => Doing(c, w, v, r)) /\ Undoes(c, w, v, u)

\* The inductive invariant.
Orderly ==
    TypeOK /\ \A c \in Clients : Fit(c, work[c], value, recorded[c], undo[c])

\* The blueprint does not change, so neither does what is said of lists.
LEMMA SameBlueprint ==
  ASSUME UNCHANGED blueprint, NEW c, NEW list
  PROVE  /\ InList(c, list)' <=> InList(c, list)
         /\ Plain(list)' <=> Plain(list)
         /\ Whole(c)' <=> Whole(c)
         /\ Added(c, list)' = Added(c, list)
         /\ Removed(c, list)' = Removed(c, list)
         /\ Occurrences(c, list)' = Occurrences(c, list)
<1> USE DEF blueprint
<1>1. \A s : IsEntry(c, s)' <=> IsEntry(c, s)  BY DEF IsEntry
<1>2. InList(c, list)' <=> InList(c, list)  BY <1>1 DEF InList
<1>3. (Plain(list)' <=> Plain(list)) /\ (Whole(c)' <=> Whole(c))  BY DEF Plain, Whole
<1>4. Added(c, list)' = Added(c, list)  BY DEF Added
<1>5. Others(c, list)' = Others(c, list)
  <2>1. [i \in DOMAIN list |-> IF IsEntry(c, list[i]) THEN <<>> ELSE <<list[i]>>]'
        = [i \in DOMAIN list |-> IF IsEntry(c, list[i]) THEN <<>> ELSE <<list[i]>>]
    BY <1>1
  <2> QED BY <2>1 DEF Others
<1>6. {i \in 1..Len(list) : IsEntry(c, list[i])}' = {i \in 1..Len(list) : IsEntry(c, list[i])}
  BY <1>1
<1>7. Without(c, list)' = Without(c, list)
  <2> DEFINE I == {i \in 1..Len(list) : IsEntry(c, list[i])}
             At == IF I # {} THEN Min(I) ELSE 0
  <2>1. Without(c, list) = IF \E i \in 1..Len(list) : IsEntry(c, list[i])
                           THEN RemoveAt(list, At) ELSE list
    BY DEF Without, RemoveFirstMatch, SelectInSeq
  <2>2. Without(c, list)' = IF \E i \in 1..Len(list) : IsEntry(c, list[i])'
                            THEN RemoveAt(list, At') ELSE list
    BY DEF Without, RemoveFirstMatch, SelectInSeq
  <2>3. At' = At  BY <1>6
  <2> HIDE DEF At
  <2> QED BY <1>1, <2>1, <2>2, <2>3
<1>8. Removed(c, list) = IF format = "multi" THEN Others(c, list) ELSE Without(c, list)
  BY DEF Removed, Without, RemoveFirstMatch, SelectInSeq
<1>9. Removed(c, list)' = IF format' = "multi" THEN Others(c, list)' ELSE Without(c, list)'
  BY DEF Removed, Without, RemoveFirstMatch, SelectInSeq
<1>10. Removed(c, list)' = Removed(c, list)
  BY <1>5, <1>7, <1>8, <1>9
<1>11. Occurrences(c, list)' = Occurrences(c, list)
  <2>1. {i \in DOMAIN list : IsEntry(c, list[i])}' = {i \in DOMAIN list : IsEntry(c, list[i])}
    BY <1>1
  <2> QED BY <2>1 DEF Occurrences
<1> QED BY <1>2, <1>3, <1>4, <1>10, <1>11

LEMMA FitNext ==
  ASSUME UNCHANGED blueprint, NEW c, NEW w, NEW v, NEW r, NEW u, Fit(c, w, v, r, u),
         work'[c] = w, value' = v, recorded'[c] = r, undo'[c] = u
  PROVE  Fit(c, work[c], value, recorded[c], undo[c])'
<1>1. Fit(c, w, v, r, u)'
  <2>1. format' = format  BY DEF blueprint
  <2>2. Doing(c, w, v, r)' <=> Doing(c, w, v, r)
    BY <2>1, SameBlueprint DEF Doing, Adds
  <2>3. Undoes(c, w, v, u)' <=> Undoes(c, w, v, u)
    BY SameBlueprint DEF Undoes, Cleaned
  <2> QED BY <2>2, <2>3 DEF Fit
<1> QED BY <1>1 DEF Fit, Doing, Undoes, Adds, Cleaned

\* A client goes on, and the value keeps still.
LEMMA GoesOn ==
  ASSUME Orderly, NEW c \in Clients, NEW w \in Work \cup {None}, Goto(c, w), Quiet,
         UNCHANGED recorded, operations' \in 0 .. MaxOperations,
         Fit(c, w, value, recorded[c], undo[c])
  PROVE  Orderly'
<1>1. TypeOK /\ UNCHANGED <<blueprint, value, recorded, undo, edits>>
      /\ work' = [work EXCEPT ![c] = w]
  BY DEF Orderly, Quiet, Goto
<1>2. TypeOK'
  BY <1>1 DEF TypeOK, blueprint
<1>3. ASSUME NEW d \in Clients PROVE Fit(d, work[d], value, recorded[d], undo[d])'
  <2>1. CASE d = c
    <3>1. work'[c] = w  BY <1>1 DEF TypeOK
    <3> QED BY <1>1, <2>1, <3>1, FitNext
  <2>2. CASE d # c
    <3>1. work'[d] = work[d]  BY <1>1, <2>2 DEF TypeOK
    <3>2. Fit(d, work[d], value, recorded[d], undo[d])  BY DEF Orderly
    <3> QED BY <1>1, <3>1, <3>2, FitNext
  <2> QED BY <2>1, <2>2
<1> QED BY <1>2, <1>3 DEF Orderly

\* A value reads back as a list without delimiters, and so does nothing.
LEMMA ReadingTyped ==
  ASSUME TypeOK, NEW list \in Readings
  PROVE  list \in Seq(Strings) /\ Plain(list)
<1>1. CASE list = value  BY <1>1 DEF TypeOK, Plain
<1>2. CASE list = <<>>
  <2>1. DOMAIN list = {}  BY <1>2
  <2> QED BY <1>2, <2>1, EmptySeq DEF Plain
<1> QED BY <1>1, <1>2 DEF Readings

LEMMA BeginsTyped ==
  ASSUME TypeOK, NEW c, Begins(c)
  PROVE  operations' \in 0 .. MaxOperations /\ work[c] = None
BY ListAssumption DEF TypeOK, Begins

LEMMA BegunTyped ==
  ASSUME NEW op \in {"restore", "clean"}, NEW pc \in {"adding", "writing", "done"},
         NEW seen \in Seq(Strings), NEW new \in Seq(Strings)
  PROVE  /\ Begun(op, pc, seen, new) \in Work
         /\ Begun(op, pc, seen, new) # None
<1>1. Begun(op, pc, seen, new) \in Work
  <2>1. (seen # value) \in BOOLEAN  OBVIOUS
  <2> QED BY <2>1 DEF Begun, Work
<1> QED BY <1>1, ListAssumption

\* What can be undone has the entry in it.
LEMMA UndoneIsThere ==
  ASSUME TypeOK, NEW c \in Clients, NEW u \in Seq(Strings)
  PROVE  InList(c, Added(c, u))
<1>1. entry[c] \in Strings  BY ListAssumption DEF TypeOK
<1>2. Has(Added(c, u), entry[c])  BY <1>1, AddedHas
<1>3. IsEntry(c, entry[c])  BY DEF IsEntry
<1> QED BY <1>1, <1>2, <1>3, AddedTyped, InListHas

\* add_to_list begins.
LEMMA CheckListStep ==
  ASSUME Orderly, NEW c \in Clients, CheckList(c)
  PROVE  Orderly'
<1>1. TypeOK /\ Fit(c, work[c], value, recorded[c], undo[c])  BY DEF Orderly
<1>2. PICK list \in Readings :
         Goto(c, Begun("restore", IF InList(c, list) THEN "done" ELSE "adding", list, <<>>))
  BY DEF CheckList
<1> DEFINE w == Begun("restore", IF InList(c, list) THEN "done" ELSE "adding", list, <<>>)
<1>3. list \in Seq(Strings) /\ Plain(list)  BY <1>1, <1>2, ReadingTyped
<1>4. w \in Work /\ w # None
  <2>1. <<>> \in Seq(Strings)  BY EmptySeq
  <2> QED BY <1>3, <2>1, BegunTyped
<1>5. /\ w.op = "restore" /\ w.pc = IF InList(c, list) THEN "done" ELSE "adding"
      /\ w.seen = list /\ w.blind = (list # value) /\ w.disturbed = FALSE /\ w.ok = TRUE
  BY DEF Begun
<1>6. recorded[c] = "present" /\ work[c] = None /\ operations' \in 0 .. MaxOperations
      /\ UNCHANGED recorded /\ Quiet
  BY <1>1, BeginsTyped DEF CheckList
<1>7. Goto(c, w)  BY <1>2
<1> HIDE DEF w
<1>8. Doing(c, w, value, recorded[c])  BY <1>3, <1>5, <1>6 DEF Doing, Adds
<1>9. Undoes(c, w, value, undo[c])  BY <1>1, <1>4, <1>5, <1>6 DEF Fit, Undoes, Cleaned
<1> QED BY <1>4, <1>6, <1>7, <1>8, <1>9, GoesOn DEF Fit

\* add_to_list has found no entry, and reads again.
LEMMA ReadToAddStep ==
  ASSUME Orderly, NEW c \in Clients, ReadToAdd(c)
  PROVE  Orderly'
<1>1. TypeOK /\ Fit(c, work[c], value, recorded[c], undo[c])  BY DEF Orderly
<1> DEFINE v == work[c]
<1>2. v \in Work /\ v # None /\ v.pc = "adding"  BY <1>1 DEF ReadToAdd, TypeOK
<1>3. PICK list \in Readings :
         Goto(c, [v EXCEPT !.pc = "writing", !.seen = list, !.new = Added(c, list),
                           !.blind = @ \/ list # value])
  BY DEF ReadToAdd
<1> DEFINE w == [v EXCEPT !.pc = "writing", !.seen = list, !.new = Added(c, list),
                          !.blind = @ \/ list # value]
<1>4. list \in Seq(Strings) /\ Plain(list)  BY <1>1, <1>3, ReadingTyped
<1>5. Added(c, list) \in Seq(Strings)  BY <1>1, <1>4, AddedTyped, ListAssumption DEF TypeOK
<1>6. w \in Work /\ w # None  BY <1>2, <1>4, <1>5, ListAssumption DEF Work
<1>7. /\ w.op = v.op /\ w.pc = "writing" /\ w.seen = list /\ w.new = Added(c, list)
      /\ w.blind = (v.blind \/ list # value) /\ w.disturbed = v.disturbed /\ w.ok = v.ok
  BY <1>2 DEF Work
<1>8. Doing(c, v, value, recorded[c]) /\ Undoes(c, v, value, undo[c])  BY <1>1, <1>2 DEF Fit
<1>9. Goto(c, w)  BY <1>3
<1>10. UNCHANGED recorded /\ Quiet /\ operations' \in 0 .. MaxOperations
  BY <1>1 DEF ReadToAdd, TypeOK
<1> HIDE DEF w, v
<1>11. Doing(c, w, value, recorded[c])  BY <1>2, <1>4, <1>7, <1>8 DEF Doing, Adds
<1>12. Undoes(c, w, value, undo[c])  BY <1>2, <1>6, <1>7, <1>8 DEF Undoes, Cleaned
<1> QED BY <1>6, <1>9, <1>10, <1>11, <1>12, GoesOn DEF Fit

\* remove_from_list begins.  What could be undone has the entry in it, so a clean that
\* has read it goes on to write.
LEMMA ReadToRemoveStep ==
  ASSUME Orderly, NEW c \in Clients, NEW op \in {"restore", "clean"}, ReadToRemove(c, op)
  PROVE  Orderly'
<1>1. TypeOK /\ Fit(c, work[c], value, recorded[c], undo[c])  BY DEF Orderly
<1>2. PICK list \in Readings :
         Goto(c, Begun(op, IF InList(c, list) THEN "writing" ELSE "done", list, Removed(c, list)))
  BY DEF ReadToRemove
<1> DEFINE w == Begun(op, IF InList(c, list) THEN "writing" ELSE "done", list, Removed(c, list))
<1>3. list \in Seq(Strings) /\ Plain(list)  BY <1>1, <1>2, ReadingTyped
<1>4. w \in Work /\ w # None  BY <1>3, RemovedTyped, BegunTyped
<1>5. /\ w.op = op /\ w.pc = IF InList(c, list) THEN "writing" ELSE "done"
      /\ w.seen = list /\ w.new = Removed(c, list)
      /\ w.blind = (list # value) /\ w.disturbed = FALSE /\ w.ok = TRUE
  BY DEF Begun
<1>6. op = "restore" => recorded[c] = "absent"  BY DEF ReadToRemove
<1>7. /\ work[c] = None /\ operations' \in 0 .. MaxOperations
      /\ UNCHANGED recorded /\ Quiet
  BY <1>1, BeginsTyped DEF ReadToRemove
<1>8. Goto(c, w)  BY <1>2
<1> HIDE DEF w
<1>9. Doing(c, w, value, recorded[c])  BY <1>3, <1>5, <1>6 DEF Doing, Adds
<1>10. Undoes(c, w, value, undo[c])
  <2> SUFFICES ASSUME undo[c] # None, Whole(c) PROVE Undoes(c, w, value, undo[c])
    BY DEF Undoes
  <2>1. Plain(undo[c]) /\ ~InList(c, undo[c]) /\ value = Added(c, undo[c])
    BY <1>1, <1>7 DEF Fit, Undoes, Cleaned
  <2>2. InList(c, value)
    <3>1. undo[c] \in Seq(Strings)  BY <1>1 DEF TypeOK
    <3> QED BY <1>1, <2>1, <3>1, UndoneIsThere
  <2>3. ~(Cleaned(w) /\ w.ok /\ ~w.blind)  BY <1>5, <2>2 DEF Cleaned
  <2> QED BY <1>5, <2>1, <2>3 DEF Undoes
<1> QED BY <1>4, <1>7, <1>8, <1>9, <1>10, GoesOn DEF Fit

\* A write fails.
LEMMA FailToWriteStep ==
  ASSUME Orderly, NEW c \in Clients, FailToWrite(c)
  PROVE  Orderly'
<1>1. TypeOK /\ Fit(c, work[c], value, recorded[c], undo[c])  BY DEF Orderly
<1> DEFINE v == work[c]
           w == [v EXCEPT !.pc = "done", !.ok = FALSE]
<1>2. v \in Work /\ v # None /\ v.pc = "writing"  BY <1>1 DEF FailToWrite, TypeOK
<1>3. w \in Work /\ w # None  BY <1>2, ListAssumption DEF Work
<1>4. /\ w.op = v.op /\ w.pc = "done" /\ w.seen = v.seen /\ w.new = v.new
      /\ w.blind = v.blind /\ w.disturbed = v.disturbed /\ w.ok = FALSE
  BY <1>2 DEF Work
<1>5. Doing(c, v, value, recorded[c]) /\ Undoes(c, v, value, undo[c])  BY <1>1, <1>2 DEF Fit
<1>6. Goto(c, w)  BY DEF FailToWrite
<1>7. UNCHANGED recorded /\ Quiet /\ operations' \in 0 .. MaxOperations
  BY <1>1 DEF FailToWrite, TypeOK
<1> HIDE DEF w, v
<1>8. Doing(c, w, value, recorded[c])  BY <1>4, <1>5 DEF Doing, Adds
<1>9. Undoes(c, w, value, undo[c])  BY <1>2, <1>3, <1>4, <1>5 DEF Undoes, Cleaned
<1> QED BY <1>3, <1>6, <1>7, <1>8, <1>9, GoesOn DEF Fit

\* A client leaves; when it has cleaned, nothing is left to undo.
LEMMA LeaveStep ==
  ASSUME Orderly, NEW c \in Clients, Leave(c)
  PROVE  Orderly'
<1>1. TypeOK /\ UNCHANGED <<blueprint, value, recorded, operations, edits>>
      /\ work[c] # None /\ work' = [work EXCEPT ![c] = None]
      /\ undo' = [undo EXCEPT ![c] = IF work[c].op = "clean" THEN None ELSE @]
  BY DEF Orderly, Leave, Goto
<1>2. TypeOK'
  BY <1>1 DEF TypeOK, blueprint
<1>3. ASSUME NEW d \in Clients PROVE Fit(d, work[d], value, recorded[d], undo[d])'
  <2>1. Fit(d, work[d], value, recorded[d], undo[d])  BY DEF Orderly
  <2>2. CASE d = c
    <3> DEFINE u == IF work[c].op = "clean" THEN None ELSE undo[c]
    <3>1. work'[c] = None /\ undo'[c] = u  BY <1>1 DEF TypeOK
    <3>2. Fit(c, None, value, recorded[c], u)
      BY <1>1, <2>1, <2>2 DEF Fit, Undoes, Cleaned
    <3> HIDE DEF u
    <3> QED BY <1>1, <2>2, <3>1, <3>2, FitNext
  <2>3. CASE d # c
    <3>1. work'[d] = work[d] /\ undo'[d] = undo[d]  BY <1>1, <2>3 DEF TypeOK
    <3> QED BY <1>1, <2>1, <3>1, FitNext
  <2> QED BY <2>2, <2>3
<1> QED BY <1>2, <1>3 DEF Orderly

\* A backup records whether the entry is there; nothing is being done meanwhile.
LEMMA BackupStep ==
  ASSUME Orderly, NEW c \in Clients, Backup(c)
  PROVE  Orderly'
<1>1. TypeOK /\ UNCHANGED <<blueprint, value, work, undo, edits>> /\ work[c] = None
      /\ operations' \in 0 .. MaxOperations
  BY BeginsTyped DEF Orderly, Backup, Quiet
<1>2. PICK r \in {"none", "present", "absent"} : recorded' = [recorded EXCEPT ![c] = r]
  <2>1. recorded = [recorded EXCEPT ![c] = recorded[c]] /\ recorded[c] \in {"none", "present", "absent"}
    BY <1>1 DEF TypeOK
  <2>2. CASE UNCHANGED recorded  BY <2>1, <2>2
  <2>3. CASE \E list \in Readings :
               recorded' = [recorded EXCEPT ![c] = IF InList(c, list) THEN "present" ELSE "absent"]
    BY <2>3
  <2> QED BY <2>2, <2>3 DEF Backup
<1>3. TypeOK'
  BY <1>1, <1>2 DEF TypeOK, blueprint
<1>4. ASSUME NEW d \in Clients PROVE Fit(d, work[d], value, recorded[d], undo[d])'
  <2>1. Fit(d, work[d], value, recorded[d], undo[d])  BY DEF Orderly
  <2>2. CASE d = c
    <3>1. recorded'[c] = r  BY <1>1, <1>2 DEF TypeOK
    <3>2. Fit(c, work[c], value, r, undo[c])  BY <1>1, <2>1, <2>2 DEF Fit
    <3> QED BY <1>1, <2>2, <3>1, <3>2, FitNext
  <2>3. CASE d # c
    <3>1. recorded'[d] = recorded[d]  BY <1>1, <1>2, <2>3 DEF TypeOK
    <3> QED BY <1>1, <2>1, <3>1, FitNext
  <2> QED BY <2>2, <2>3
<1> QED BY <1>3, <1>4 DEF Orderly

\* Somebody else changes the value: what a client has read is no longer the list, and
\* what it has added cannot be undone.
Meanwhile(w) == IF w # None THEN [w EXCEPT !.disturbed = TRUE] ELSE w

LEMMA FitDisturbed ==
  ASSUME NEW c, NEW w \in Work \cup {None}, NEW v, NEW v2, NEW r, NEW u, Fit(c, w, v, r, u)
  PROVE  Meanwhile(w) \in Work \cup {None} /\ Fit(c, Meanwhile(w), v2, r, None)
<1>1. CASE w = None  BY <1>1 DEF Meanwhile, Fit, Undoes
<1>2. CASE w # None
  <2> DEFINE m == Meanwhile(w)
  <2>1. m \in Work  BY <1>2 DEF Meanwhile, Work
  <2>2. /\ m.op = w.op /\ m.pc = w.pc /\ m.seen = w.seen /\ m.new = w.new
        /\ m.disturbed = TRUE /\ m.ok = w.ok
    BY <1>2 DEF Meanwhile, Work
  <2>3. Doing(c, w, v, r)  BY <1>2 DEF Fit
  <2> HIDE DEF m
  <2>4. Doing(c, m, v2, r)  BY <2>2, <2>3 DEF Doing, Adds
  <2>5. Undoes(c, m, v2, None)  BY DEF Undoes
  <2> QED BY <2>1, <2>4, <2>5 DEF Fit, m
<1> QED BY <1>1, <1>2

\* Another program changes the list.
LEMMA EditStep ==
  ASSUME Orderly, NEW list \in Seq(Strings), Plain(list), Edit(list)
  PROVE  Orderly'
<1>1. TypeOK /\ UNCHANGED <<blueprint, recorded, operations>> /\ value' = list
      /\ work' = Disturbed(None) /\ undo' = [d \in Clients |-> None]
  BY DEF Orderly, Edit
<1>2. edits' \in 0 .. MaxEdits  BY ListAssumption DEF Orderly, TypeOK, Edit
<1>3. \A d \in Clients : work[d] \in Work \cup {None}  BY <1>1 DEF TypeOK
<1>4. None \notin Clients  BY ListAssumption
<1>5. \A d \in Clients : work'[d] = Meanwhile(work[d])
  BY <1>1, <1>4 DEF Disturbed, Meanwhile
<1>6. \A d \in Clients : Meanwhile(work[d]) \in Work \cup {None}
                          /\ Fit(d, Meanwhile(work[d]), list, recorded[d], None)
  BY <1>3, FitDisturbed DEF Orderly
<1>7. work' \in [Clients -> Work \cup {None}]
  BY <1>1, <1>5, <1>6 DEF Disturbed
<1>8. TypeOK'
  BY <1>1, <1>2, <1>7 DEF TypeOK, blueprint, Plain
<1>9. ASSUME NEW d \in Clients PROVE Fit(d, work[d], value, recorded[d], undo[d])'
  <2>1. undo'[d] = None /\ recorded'[d] = recorded[d]  BY <1>1
  <2> QED BY <1>1, <1>5, <1>6, <2>1, FitNext
<1> QED BY <1>8, <1>9 DEF Orderly

\* What is written, done as it is: pc goes on to "done".
Finished(w) == [w EXCEPT !.pc = "done"]

LEMMA FinishedIs ==
  ASSUME NEW w \in Work
  PROVE  /\ Finished(w) \in Work /\ Finished(w) # None
         /\ Finished(w).pc = "done" /\ Finished(w).op = w.op /\ Finished(w).seen = w.seen
         /\ Finished(w).blind = w.blind /\ Finished(w).disturbed = w.disturbed
         /\ Finished(w).ok = w.ok
<1>1. Finished(w) \in Work  BY DEF Finished, Work
<1> QED BY <1>1, ListAssumption DEF Finished, Work

\* After the write the entry is there if the operation was to add it, and gone if it was
\* to remove it.
LEMMA DoingWritten ==
  ASSUME TypeOK, NEW c \in Clients, NEW w \in Work, NEW v, NEW r,
         w.pc = "writing", Doing(c, w, v, r)
  PROVE  Doing(c, Finished(w), Stored(w.new), r)
<1> DEFINE f == Finished(w)
<1>1. /\ f.pc = "done" /\ f.op = w.op /\ f.seen = w.seen
      /\ f.blind = w.blind /\ f.disturbed = w.disturbed /\ f.ok = w.ok
  BY FinishedIs
<1>2. w.seen \in Seq(Strings) /\ w.new \in Seq(Strings)  BY DEF Work
<1>3. Plain(w.seen) /\ w.new = IF Adds(w, r) THEN Added(c, w.seen) ELSE Removed(c, w.seen)
  BY DEF Doing
<1>4. format \in {"multi", "delimited"} /\ entry[c] \in Strings
  BY ListAssumption DEF TypeOK
<1> HIDE DEF f
<1>5. ASSUME w.op = "restore", Whole(c), format = "delimited" => Occurrences(c, w.seen) < 2
      PROVE  InList(c, Stored(w.new)) <=> r = "present"
  <2>1. Stored(w.new) \in Seq(Strings)  BY <1>2, StoredTyped
  <2>2. CASE r = "present"
    <3>1. Has(w.new, entry[c])  BY <1>2, <1>3, <1>4, <1>5, <2>2, AddedHas DEF Adds
    <3>2. Has(Stored(w.new), entry[c])  BY <1>2, <1>5, <3>1, StoredKeeps DEF Whole
    <3>3. IsEntry(c, entry[c])  BY DEF IsEntry
    <3> QED BY <2>2, <3>2, <3>3, InListHas
  <2>3. CASE r # "present"
    <3>1. w.new = Removed(c, w.seen)  BY <1>3, <2>3 DEF Adds
    <3>2. Stored(w.new) = w.new  BY <1>2, <1>3, <1>4, <3>1, RemovedPlain, StoredIsSame
    <3>3. ~InList(c, w.new)  BY <1>2, <1>4, <1>5, <3>1, RemovedNone
    <3> QED BY <2>3, <3>2, <3>3
  <2> QED BY <2>2, <2>3
<1>6. Doing(c, f, Stored(w.new), r)  BY <1>1, <1>3, <1>5 DEF Doing
<1> QED BY <1>6 DEF f

\* A restore that has added the entry can be undone, and a clean has undone it.
LEMMA UndoesWritten ==
  ASSUME TypeOK, NEW c \in Clients, NEW w \in Work, NEW r,
         NEW u \in Seq(Strings) \cup {None},
         w.pc = "writing", Doing(c, w, value, r), Undoes(c, w, value, u)
  PROVE  Undoes(c, Finished(w), Stored(w.new),
                IF w.op = "clean" THEN u
                ELSE IF r = "present" /\ ~w.blind /\ ~w.disturbed THEN value
                ELSE None)
<1> DEFINE f == Finished(w)
<1>1. /\ f.pc = "done" /\ f.op = w.op /\ f.seen = w.seen /\ f # None
      /\ f.blind = w.blind /\ f.disturbed = w.disturbed /\ f.ok = w.ok
  BY FinishedIs
<1>2. w.new = IF Adds(w, r) THEN Added(c, w.seen) ELSE Removed(c, w.seen)
  BY DEF Doing
<1>3. format \in {"multi", "delimited"} /\ entry[c] \in Strings /\ value \in Seq(Strings)
  BY ListAssumption DEF TypeOK
<1>4. w # None  BY ListAssumption
<1> HIDE DEF f
<1>5. CASE w.op = "clean"
  <2> SUFFICES ASSUME u # None, Whole(c) PROVE Undoes(c, f, Stored(w.new), u)
    BY <1>5 DEF Undoes, f
  <2>1. u \in Seq(Strings) /\ Plain(u) /\ ~InList(c, u) /\ ~w.disturbed /\ value = Added(c, u)
    BY <1>4 DEF Undoes, Cleaned
  <2>2. ASSUME ~w.blind PROVE Stored(w.new) = u
    <3>1. w.new = Removed(c, value)  BY <1>2, <1>5, <2>1, <2>2 DEF Doing, Adds
    <3>2. w.new = u  BY <1>3, <2>1, <3>1, AddedIsRemoved
    <3> QED BY <1>3, <2>1, <3>2, StoredIsSame
  <2> QED BY <1>1, <1>5, <2>1, <2>2 DEF Undoes, Cleaned
<1>6. CASE w.op # "clean" /\ r = "present" /\ ~w.blind /\ ~w.disturbed
  <2>0. w.op = "restore"  BY <1>6 DEF Work
  <2> SUFFICES ASSUME Whole(c) PROVE Undoes(c, f, Stored(w.new), value)
    BY <1>6 DEF Undoes, f
  <2>1. /\ w.seen = value /\ Plain(value) /\ ~InList(c, value)
        /\ w.new = Added(c, value)
    BY <1>2, <1>6, <2>0 DEF Doing, Adds
  <2>2. Stored(w.new) = Added(c, value)
    BY <1>3, <2>1, AddedTyped, AddedPlain, StoredIsSame
  <2> QED BY <1>1, <1>6, <2>1, <2>2 DEF Undoes, Cleaned
<1>7. CASE w.op # "clean" /\ ~(r = "present" /\ ~w.blind /\ ~w.disturbed)
  BY <1>7 DEF Undoes
<1> QED BY <1>5, <1>6, <1>7 DEF f

\* A client writes its list back, which disturbs all others.
LEMMA WriteStep ==
  ASSUME Orderly, NEW c \in Clients, Write(c)
  PROVE  Orderly'
<1> DEFINE w == work[c]
           new == Stored(w.new)
           u == IF w.op = "clean" THEN undo[c]
                ELSE IF recorded[c] = "present" /\ ~w.blind /\ ~w.disturbed THEN value
                ELSE None
<1>1. TypeOK /\ Fit(c, work[c], value, recorded[c], undo[c])  BY DEF Orderly
<1>2. w \in Work /\ w # None /\ w.pc = "writing"  BY <1>1 DEF Write, TypeOK
<1>3. /\ UNCHANGED <<blueprint, recorded, operations, edits>> /\ value' = new
      /\ work' = [Disturbed(c) EXCEPT ![c] = [@ EXCEPT !.pc = "done"]]
      /\ undo' = [d \in Clients |-> IF d # c THEN None ELSE u]
  BY DEF Write
<1>4. work'[c] = Finished(w)  BY <1>3 DEF Disturbed, Finished
<1>5. \A d \in Clients : d # c => work'[d] = Meanwhile(work[d])
  BY <1>3 DEF Disturbed, Meanwhile
<1>6. w.new \in Seq(Strings)  BY <1>2 DEF Work
<1>7. new \in Seq(Strings) /\ Plain(new)  BY <1>1, <1>6, StoredTyped, StoredPlain DEF TypeOK
<1>8. u \in Seq(Strings) \cup {None}  BY <1>1 DEF TypeOK
<1>9. Fit(c, Finished(w), new, recorded[c], u)
  <2>1. Doing(c, w, value, recorded[c]) /\ Undoes(c, w, value, undo[c])  BY <1>1, <1>2 DEF Fit
  <2>2. undo[c] \in Seq(Strings) \cup {None}  BY <1>1 DEF TypeOK
  <2> HIDE DEF w
  <2>3. Doing(c, Finished(w), new, recorded[c])  BY <1>1, <1>2, <2>1, DoingWritten
  <2>4. Undoes(c, Finished(w), new, u)  BY <1>1, <1>2, <2>1, <2>2, UndoesWritten
  <2> QED BY <2>3, <2>4 DEF Fit
<1>10. \A d \in Clients : Meanwhile(work[d]) \in Work \cup {None}
                           /\ Fit(d, Meanwhile(work[d]), new, recorded[d], None)
  <2>1. \A d \in Clients : work[d] \in Work \cup {None}  BY <1>1 DEF TypeOK
  <2> HIDE DEF new
  <2> QED BY <2>1, FitDisturbed DEF Orderly
<1> HIDE DEF w, new, u
<1>11. work' \in [Clients -> Work \cup {None}]
  <2>1. \A d \in Clients : work'[d] \in Work \cup {None}
    BY <1>2, <1>4, <1>5, <1>10, FinishedIs
  <2>2. work' = [d \in Clients |-> work'[d]]  BY <1>3 DEF Disturbed
  <2> QED BY <2>1, <2>2
<1>12. TypeOK'
  <2>1. format' = "delimited" => \A i \in DOMAIN value' : Pieces[value'[i]] = <<value'[i]>>
    BY <1>3, <1>7 DEF Plain, blueprint
  <2>2. undo' \in [Clients -> Seq(Strings) \cup {None}]  BY <1>3, <1>8
  <2> QED BY <1>1, <1>3, <1>7, <1>11, <2>1, <2>2 DEF TypeOK, blueprint
<1>13. ASSUME NEW d \in Clients PROVE Fit(d, work[d], value, recorded[d], undo[d])'
  <2>1. recorded'[d] = recorded[d]  BY <1>3
  <2>2. CASE d = c
    <3>1. undo'[c] = u  BY <1>3
    <3> QED BY <1>3, <1>4, <1>9, <2>1, <2>2, <3>1, FitNext
  <2>3. CASE d # c
    <3>1. undo'[d] = None  BY <1>3, <2>3
    <3> QED BY <1>3, <1>5, <1>10, <2>1, <2>3, <3>1, FitNext
  <2> QED BY <2>2, <2>3
<1> QED BY <1>12, <1>13 DEF Orderly

\* Another program appends an entry of its own, or removes one.
LEMMA EditedTyped ==
  ASSUME TypeOK
  PROVE  /\ \A s \in Strings : Pieces[s] = <<s>> =>
               Append(value, s) \in Seq(Strings) /\ Plain(Append(value, s))
         /\ \A i \in DOMAIN value : RemoveAt(value, i) \in Seq(Strings) /\ Plain(RemoveAt(value, i))
<1>1. value \in Seq(Strings) /\ Plain(value)  BY DEF TypeOK, Plain
<1>2. ASSUME NEW s \in Strings, Pieces[s] = <<s>>
      PROVE  Append(value, s) \in Seq(Strings) /\ Plain(Append(value, s))
  <2>1. Append(value, s) \in Seq(Strings)  BY <1>1
  <2>2. \A i \in DOMAIN Append(value, s) :
          Append(value, s)[i] = s \/ (i \in DOMAIN value /\ Append(value, s)[i] = value[i])
    BY <1>1
  <2> QED BY <1>1, <1>2, <2>1, <2>2 DEF Plain
<1>3. ASSUME NEW i \in DOMAIN value
      PROVE  RemoveAt(value, i) \in Seq(Strings) /\ Plain(RemoveAt(value, i))
  <2> DEFINE a == SubSeq(value, 1, i - 1)
             b == SubSeq(value, i + 1, Len(value))
  <2>1. /\ a \in Seq(Strings) /\ b \in Seq(Strings)
        /\ \A x : Has(a, x) \/ Has(b, x) => Has(value, x)
    <3>1. i \in 1..Len(value) /\ Len(value) \in Nat /\ DOMAIN value = 1..Len(value)  BY <1>1
    <3>0. /\ a \in Seq(Strings) /\ Len(a) = i - 1 /\ \A k \in 1..i-1 : a[k] = value[k]
      <4> USE <1>1, <3>1
      <4>1. a \in Seq(Strings)  OBVIOUS
      <4>2. Len(a) = i - 1  OBVIOUS
      <4>3. \A k \in 1..i-1 : a[k] = value[k]  OBVIOUS
      <4> QED BY <4>1, <4>2, <4>3
    <3>2. /\ b \in Seq(Strings) /\ Len(b) = Len(value) - i
          /\ \A k \in 1..Len(value)-i : b[k] = value[i + k]
      <4> USE <1>1, <3>1
      <4>1. b \in Seq(Strings)  OBVIOUS
      <4>2. Len(b) = Len(value) - i  OBVIOUS
      <4>3. \A k \in 1..Len(value)-i : b[k] = value[i + k]  OBVIOUS
      <4> QED BY <4>1, <4>2, <4>3
    <3> HIDE DEF a, b
    <3>3. ASSUME NEW k \in DOMAIN a PROVE k \in DOMAIN value /\ a[k] = value[k]
      BY <3>0, <3>1, <3>2
    <3>4. ASSUME NEW k \in DOMAIN b PROVE i + k \in DOMAIN value /\ b[k] = value[i + k]
      BY <3>0, <3>1, <3>2
    <3> QED BY <3>0, <3>2, <3>3, <3>4 DEF Has
  <2>2. RemoveAt(value, i) = a \o b  BY DEF RemoveAt
  <2> HIDE DEF a, b
  <2>3. a \o b \in Seq(Strings)  BY <2>1
  <2>4. \A x : Has(a \o b, x) => Has(value, x)  BY <2>1, HasConcat
  <2>5. Plain(a \o b)
    <3> SUFFICES ASSUME format = "delimited", NEW k \in DOMAIN (a \o b)
                 PROVE  Pieces[(a \o b)[k]] = <<(a \o b)[k]>>
      BY DEF Plain
    <3>1. Has(a \o b, (a \o b)[k])  BY DEF Has
    <3>2. Has(value, (a \o b)[k])  BY <2>4, <3>1
    <3> QED BY <1>1, <3>2 DEF Has, Plain
  <2> QED BY <2>2, <2>3, <2>5
<1> QED BY <1>2, <1>3

LEMMA OrderlyInit == Init => Orderly
<1> SUFFICES ASSUME Init PROVE Orderly
  OBVIOUS
<1>1. TypeOK
  <2>1. <<>> \in Seq(Strings) /\ DOMAIN <<>> = {}  BY EmptySeq
  <2> QED BY <2>1, ListAssumption DEF Init, TypeOK
<1>2. \A c \in Clients : Fit(c, work[c], value, recorded[c], undo[c])
  BY DEF Init, Fit, Undoes
<1> QED BY <1>1, <1>2 DEF Orderly

LEMMA OrderlyNext == Orderly /\ [Next]_vars => Orderly'
<1> SUFFICES ASSUME Orderly, [Next]_vars PROVE Orderly'
  OBVIOUS
<1>1. CASE UNCHANGED vars
  <2>1. UNCHANGED <<blueprint, value, recorded, work, undo, operations, edits>>
    BY <1>1 DEF vars
  <2>2. TypeOK'  BY <2>1 DEF Orderly, TypeOK, blueprint
  <2>3. ASSUME NEW c \in Clients PROVE Fit(c, work[c], value, recorded[c], undo[c])'
    BY <2>1, FitNext DEF Orderly
  <2> QED BY <2>2, <2>3 DEF Orderly
<1>2. ASSUME NEW c \in Clients, Backup(c) PROVE Orderly'  BY <1>2, BackupStep
<1>3. ASSUME NEW c \in Clients, CheckList(c) PROVE Orderly'  BY <1>3, CheckListStep
<1>4. ASSUME NEW c \in Clients, ReadToAdd(c) PROVE Orderly'  BY <1>4, ReadToAddStep
<1>5. ASSUME NEW c \in Clients, ReadToRemove(c, "restore") \/ ReadToRemove(c, "clean")
      PROVE  Orderly'
  BY <1>5, ReadToRemoveStep
<1>6. ASSUME NEW c \in Clients, Write(c) PROVE Orderly'  BY <1>6, WriteStep
<1>7. ASSUME NEW c \in Clients, FailToWrite(c) PROVE Orderly'  BY <1>7, FailToWriteStep
<1>8. ASSUME NEW c \in Clients, Leave(c) PROVE Orderly'  BY <1>8, LeaveStep
<1>9. ASSUME NEW s \in Strings, Pieces[s] = <<s>>, Edit(Append(value, s)) PROVE Orderly'
  BY <1>9, EditedTyped, EditStep DEF Orderly
<1>10. ASSUME NEW i \in DOMAIN value, Edit(RemoveAt(value, i)) PROVE Orderly'
  BY <1>10, EditedTyped, EditStep DEF Orderly
<1> QED BY <1>1, <1>2, <1>3, <1>4, <1>5, <1>6, <1>7, <1>8, <1>9, <1>10 DEF Next

LEMMA AlwaysOrderly == Spec => []Orderly
BY OrderlyInit, OrderlyNext, PTL DEF Spec

-----------------------------------------------------------------------------
(* The theorems.                                                           *)

\* Whatever is read, written, added by others or lost, the value stays a list of
\* strings, and one with delimiters a list of strings without any.
THEOREM ListTypeOK == Spec => []TypeOK
<1>1. Orderly => TypeOK  BY DEF Orderly
<1> QED BY <1>1, AlwaysOrderly, PTL

\* After a restore that nobody disturbed verify finds the entry as the snapshot has it,
\* with the two exceptions that the property names.
THEOREM RestoredVerifies == Spec => []RestoreVerifies
<1>1. Orderly => RestoreVerifies
  <2> SUFFICES ASSUME Orderly, NEW c \in Clients,
                      Ended(c), work[c].op = "restore", ~work[c].disturbed, Whole(c),
                      format = "delimited" => Occurrences(c, work[c].seen) < 2
               PROVE  Verify(c) = "Match"
    BY DEF RestoreVerifies
  <2>1. Doing(c, work[c], value, recorded[c])  BY DEF Orderly, Fit, Ended
  <2>2. InList(c, value) <=> recorded[c] = "present"  BY <2>1 DEF Doing, Ended
  <2> QED BY <2>2 DEF Verify
<1> QED BY <1>1, AlwaysOrderly, PTL

\* A clean after a restore, with nobody else in between, leaves the list as it was
\* before the restore, order and spelling included.
THEOREM CleanedIsUndone == Spec => []CleanUndoesRestore
<1>1. Orderly => CleanUndoesRestore
  <2> SUFFICES ASSUME Orderly, NEW c \in Clients,
                      Ended(c), work[c].op = "clean", undo[c] # None, Whole(c)
               PROVE  value = undo[c]
    BY DEF CleanUndoesRestore
  <2>1. Undoes(c, work[c], value, undo[c])  BY DEF Orderly, Fit
  <2> QED BY <2>1 DEF Undoes, Cleaned, Ended
<1> QED BY <1>1, AlwaysOrderly, PTL

\* Only the client itself can bring its write to an end that succeeds.
LEMMA OnlyWrite ==
  ASSUME Orderly, [Next]_vars, NEW c \in Clients, Writes(c), work'[c].pc = "done"
  PROVE  Write(c)
<1>1. work[c] \in Work /\ \A d \in Clients : work[d] \in Work \cup {None}
  BY DEF Orderly, TypeOK, Writes
<1>2. work[c] # None /\ work[c].pc = "writing" /\ work'[c] # None /\ work'[c].ok
  BY DEF Writes
<1>3. work'[c] # work[c]  BY <1>2
<1>4. work'[c] # Meanwhile(work[c])
  <2>1. Meanwhile(work[c]).pc = work[c].pc  BY <1>1, <1>2 DEF Meanwhile, Work
  <2> QED BY <1>2, <2>1
<1>5. work = [d \in Clients |-> work[d]]  BY DEF Orderly, TypeOK
<1>6. ASSUME NEW d \in Clients, NEW w, Goto(d, w), d # c PROVE FALSE
  BY <1>3, <1>5, <1>6 DEF Goto
<1>7. ASSUME NEW w, Goto(c, w) PROVE work'[c] = w
  BY <1>5, <1>7 DEF Goto
<1>8. ~UNCHANGED work  BY <1>3
<1>9. \A d \in Clients : ~Backup(d)  BY <1>8 DEF Backup
<1>10. ASSUME NEW d \in Clients, CheckList(d) PROVE FALSE
  BY <1>2, <1>6, <1>10 DEF CheckList, Begins
<1>11. ASSUME NEW d \in Clients, ReadToAdd(d) PROVE FALSE
  BY <1>2, <1>6, <1>11 DEF ReadToAdd
<1>12. ASSUME NEW d \in Clients, ReadToRemove(d, "restore") \/ ReadToRemove(d, "clean") PROVE FALSE
  BY <1>2, <1>6, <1>12 DEF ReadToRemove, Begins
<1>13. ASSUME NEW d \in Clients, Write(d), d # c PROVE FALSE
  <2>1. work' = [Disturbed(d) EXCEPT ![d] = [@ EXCEPT !.pc = "done"]]  BY <1>13 DEF Write
  <2>2. work'[c] = Meanwhile(work[c])  BY <1>13, <2>1 DEF Disturbed, Meanwhile
  <2> QED BY <1>4, <2>2
<1>14. ASSUME NEW d \in Clients, FailToWrite(d) PROVE FALSE
  <2>1. Goto(d, [work[d] EXCEPT !.pc = "done", !.ok = FALSE])  BY <1>14 DEF FailToWrite
  <2>2. d = c  BY <1>6, <2>1
  <2>3. work'[c] = [work[c] EXCEPT !.pc = "done", !.ok = FALSE]  BY <1>7, <2>1, <2>2
  <2> QED BY <1>1, <1>2, <2>3 DEF Work
<1>15. ASSUME NEW d \in Clients, Leave(d) PROVE FALSE
  BY <1>2, <1>6, <1>7, <1>15 DEF Leave
<1>16. ASSUME NEW list, Edit(list) PROVE FALSE
  <2>1. work'[c] = Meanwhile(work[c])
    BY <1>16, ListAssumption DEF Edit, Disturbed, Meanwhile
  <2> QED BY <1>4, <2>1
<1>17. ~UNCHANGED vars  BY <1>8 DEF vars
<1> QED BY <1>9, <1>10, <1>11, <1>12, <1>13, <1>14, <1>15, <1>16, <1>17 DEF Next

\* What other entries were in the list that a client has read are in the list it writes,
\* in their order if that was the value.
LEMMA WriteKeepsOthers ==
  ASSUME Orderly, NEW c \in Clients, Write(c)
  PROVE  /\ (work[c].seen = value /\ Whole(c)) => Others(c, value') = Others(c, value)
         /\ \A i \in DOMAIN value :
               (~IsEntry(c, value[i]) /\ Has(work[c].seen, value[i])) => Has(value', value[i])
<1> DEFINE w == work[c]
<1>1. TypeOK /\ w \in Work /\ w.pc = "writing" /\ w # None /\ value' = Stored(w.new)
  BY DEF Orderly, TypeOK, Write
<1>2. Doing(c, w, value, recorded[c])  BY <1>1 DEF Orderly, Fit
<1>3. w.seen \in Seq(Strings) /\ w.new \in Seq(Strings)  BY <1>1 DEF Work
<1>4. Plain(w.seen) /\ w.new \in {Added(c, w.seen), Removed(c, w.seen)}
  BY <1>1, <1>2 DEF Doing
<1>5. format \in {"multi", "delimited"} /\ entry[c] \in Strings
  BY <1>1, ListAssumption DEF TypeOK
<1> HIDE DEF w
<1>6. ASSUME w.seen = value, Whole(c) PROVE Others(c, value') = Others(c, value)
  <2>1. Plain(w.new)  BY <1>3, <1>4, <1>5, <1>6, AddedPlain, RemovedPlain
  <2>2. value' = w.new  BY <1>1, <1>3, <1>5, <2>1, StoredIsSame
  <2>3. Others(c, w.new) = Others(c, w.seen)
    BY <1>3, <1>4, <1>5, AddedOthers, RemovedOthers
  <2> QED BY <1>6, <2>2, <2>3
<1>7. ASSUME NEW i \in DOMAIN value, ~IsEntry(c, value[i]), Has(w.seen, value[i])
      PROVE  Has(value', value[i])
  <2>1. Has(w.new, value[i])  BY <1>3, <1>4, <1>5, <1>7, AddedHas, RemovedHas
  <2>2. format # "multi" => Pieces[value[i]] = <<value[i]>>  BY <1>1, <1>5, <1>7 DEF TypeOK
  <2>3. Has(Stored(w.new), value[i])  BY <1>3, <2>1, <2>2, StoredKeeps
  <2> QED BY <1>1, <2>3
<1> QED BY <1>6, <1>7 DEF w

\* A write takes nothing from the list but the own entry and what the client had not
\* seen; from a list that is still what was read, nothing but the own entry.
THEOREM OthersAreKept == Spec => KeepsOthers
<1> DEFINE Keeps(c) ==
      (Writes(c) /\ work'[c].pc = "done") =>
        /\ (work[c].seen = value /\ Whole(c)) => Others(c, value') = Others(c, value)
        /\ \A i \in DOMAIN value :
             (~IsEntry(c, value[i]) /\ \E j \in DOMAIN work[c].seen : work[c].seen[j] = value[i]) =>
                 \E j \in DOMAIN value' : value'[j] = value[i]
<1>1. Orderly /\ [Next]_vars => [\A c \in Clients : Keeps(c)]_vars
  <2> SUFFICES ASSUME Orderly, [Next]_vars, NEW c \in Clients PROVE Keeps(c)
    OBVIOUS
  <2>1. CASE Writes(c) /\ work'[c].pc = "done"
    <3>1. Write(c)  BY <2>1, OnlyWrite
    <3> QED BY <3>1, WriteKeepsOthers DEF Has
  <2>2. CASE ~(Writes(c) /\ work'[c].pc = "done")  BY <2>2
  <2> QED BY <2>1, <2>2
<1> QED BY <1>1, AlwaysOrderly, PTL DEF Spec, KeepsOthers
=============================================================================
