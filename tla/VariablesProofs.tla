-------------------------- MODULE VariablesProofs --------------------------
(***************************************************************************)
(* Theorems about Variables.  Both ways through a text, Expand and         *)
(* Replace, go from left to right; so the first half says what they do     *)
(* with the first piece of a text, and what follows from it for the texts  *)
(* in which every reference is closed.                                     *)
(***************************************************************************)
EXTENDS Variables, SequenceTheorems, FiniteSetTheorems, WellFoundedInduction, TLAPS

-----------------------------------------------------------------------------
(* Induction.                                                              *)

\* A set of numbers that is not empty has a least one.
LEMMA LeastNumber ==
  ASSUME NEW S \in SUBSET Nat, S # {}
  PROVE  \E i \in S : \A j \in S : i <= j
<1> DEFINE R == OpToRel(<, Nat)
<1>1. PICK i \in S : \A j \in S : ~(<<j, i>> \in R)
  BY NatLessThanWellFounded, WFMin
<1>2. \A j \in S : ~(j < i)
  BY <1>1 DEF OpToRel
<1> QED BY <1>2

\* What holds of a text when it holds of every shorter one holds of every text.
LEMMA EveryText ==
  ASSUME NEW T, NEW A \in SUBSET Seq(T), NEW G,
         \A t \in A : (\A r \in A : Len(r) < Len(t) => r \in G) => t \in G
  PROVE  \A t \in A : t \in G
<1> SUFFICES ASSUME NEW r \in A, r \notin G PROVE FALSE
  OBVIOUS
<1> DEFINE S == {n \in Nat : \E q \in A : q \notin G /\ Len(q) = n}
<1>1. S \in SUBSET Nat /\ S # {}
  <2>1. Len(r) \in S  BY LenProperties
  <2> QED BY <2>1
<1>2. PICK n \in S : \A m \in S : n <= m
  <2> HIDE DEF S
  <2> QED BY <1>1, LeastNumber
<1>3. PICK q \in A : q \notin G /\ Len(q) = n  BY <1>2
<1>4. ASSUME NEW s \in A, Len(s) < Len(q), s \notin G PROVE FALSE
  <2>1. Len(s) \in Nat /\ Len(q) \in Nat  BY LenProperties
  <2>2. Len(s) \in S  BY <1>4, <2>1
  <2> HIDE DEF S
  <2> QED BY <1>2, <1>3, <1>4, <2>1, <2>2
<1> QED BY <1>3, <1>4

-----------------------------------------------------------------------------
(* From left to right.                                                     *)

\* f[i] is what a pass over n symbols makes of the ones from i on: it puts piece[i] for
\* the ones before next[i] (the recursions in Expand and in Replace).
Chains(f, n, piece, next) ==
    f = [i \in 1 .. n + 1 |-> IF i > n THEN <<>> ELSE piece[i] \o f[next[i]]]

\* It goes forward, and not beyond the end.
Forward(n, next) == \A i \in 1..n : next[i] \in i+1..n+1

\* The same, d symbols later.
Shifted(n, d, piece, next, piece2, next2) ==
    \A i \in 1..n : piece2[i + d] = piece[i] /\ next2[i + d] = next[i] + d

\* The last k symbols of such a pass.
ChainsEnd(f, n, k, piece, next) ==
    f = [i \in n + 1 - k .. n + 1 |-> IF i > n THEN <<>> ELSE piece[i] \o f[next[i]]]

\* A pass reaches the end of the text.
LEMMA ChainsSome ==
  ASSUME NEW n \in Nat, NEW piece, NEW next, Forward(n, next)
  PROVE  \E f : Chains(f, n, piece, next)
<1>1. SUFFICES \E f : ChainsEnd(f, n, n, piece, next)
  <2>1. n + 1 - n = 1  OBVIOUS
  <2> QED BY <2>1 DEF Chains, ChainsEnd
<1> DEFINE S == {m \in 0..n : ~\E f : ChainsEnd(f, n, m, piece, next)}
<1> SUFFICES ASSUME S # {} PROVE FALSE
  <2>1. n \in 0..n  OBVIOUS
  <2> QED BY <2>1
<1>2. PICK m \in S : \A j \in S : m <= j
  <2>1. S \in SUBSET Nat  OBVIOUS
  <2> HIDE DEF S
  <2> QED BY <2>1, LeastNumber
<1>3. m # 0
  <2> DEFINE h == [i \in n + 1 .. n + 1 |-> <<>>]
  <2>2. n + 1 - 0 = n + 1 /\ \A i \in n + 1 .. n + 1 : i > n  OBVIOUS
  <2>3. h = [i \in n + 1 .. n + 1 |-> IF i > n THEN <<>> ELSE piece[i] \o h[next[i]]]  BY <2>2
  <2>1. ChainsEnd(h, n, 0, piece, next)  BY <2>2, <2>3 DEF ChainsEnd
  <2> QED BY <2>1
<1>4. m - 1 \in 0..n /\ m - 1 \notin S
  <2>1. m \in 0..n  BY <1>2
  <2> HIDE DEF S
  <2>2. m - 1 \in Nat /\ m - 1 < m /\ m - 1 \in 0..n  BY <2>1, <1>3
  <2> QED BY <1>2, <2>1, <2>2
<1>5. PICK g : ChainsEnd(g, n, m - 1, piece, next)  BY <1>4
<1> DEFINE k == n + 1 - m
           e == piece[k] \o g[next[k]]
           f == [i \in k .. n + 1 |-> IF i = k THEN e ELSE g[i]]
<1>6. k \in 1..n /\ n + 1 - (m - 1) = k + 1
  BY <1>2, <1>3
<1>7. \A i \in k+1..n+1 : g[i] = IF i > n THEN <<>> ELSE piece[i] \o g[next[i]]
  BY <1>5, <1>6 DEF ChainsEnd
<1>8. \A i \in k..n+1 : f[i] = IF i > n THEN <<>> ELSE piece[i] \o f[next[i]]
  <2> SUFFICES ASSUME NEW i \in k..n+1 PROVE f[i] = IF i > n THEN <<>> ELSE piece[i] \o f[next[i]]
    OBVIOUS
  <2>1. i <= n => f[next[i]] = g[next[i]]
    <3>1. i <= n => next[i] \in i+1..n+1  BY <1>6 DEF Forward
    <3> QED BY <3>1, <1>6
  <2>2. CASE i = k
    <3>1. i <= n /\ ~(i > n)  BY <2>2, <1>6
    <3>2. f[i] = e  BY <2>2
    <3>3. e = piece[i] \o g[next[i]]  BY <2>2
    <3> HIDE DEF e, f
    <3> QED BY <3>1, <3>2, <3>3, <2>1
  <2>3. CASE i # k
    <3>1. f[i] = g[i] /\ i \in k+1..n+1 /\ (~(i > n) => i <= n)  BY <2>3, <1>6
    <3> HIDE DEF e, f
    <3>2. g[i] = IF i > n THEN <<>> ELSE piece[i] \o g[next[i]]  BY <3>1, <1>7
    <3> QED BY <3>1, <3>2, <2>1
  <2> QED BY <2>2, <2>3
<1>9. ChainsEnd(f, n, m, piece, next)  BY <1>8 DEF ChainsEnd
<1> QED BY <1>2, <1>9

\* A pass makes a text.
LEMMA ChainsTyped ==
  ASSUME NEW T, NEW n \in Nat, NEW piece, NEW next, NEW f, Chains(f, n, piece, next),
         Forward(n, next), \A i \in 1..n : piece[i] \in Seq(T)
  PROVE  \A i \in 1..n+1 : f[i] \in Seq(T)
<1> DEFINE S == {d \in 0..n : f[n + 1 - d] \notin Seq(T)}
<1> SUFFICES ASSUME S # {} PROVE FALSE
  <2> SUFFICES ASSUME NEW i \in 1..n+1, f[i] \notin Seq(T) PROVE S # {}
    OBVIOUS
  <2>1. n + 1 - i \in 0..n /\ n + 1 - (n + 1 - i) = i  OBVIOUS
  <2>2. n + 1 - i \in S  BY <2>1
  <2> QED BY <2>2
<1>1. PICK d \in S : \A j \in S : d <= j
  <2>1. S \in SUBSET Nat  OBVIOUS
  <2> HIDE DEF S
  <2> QED BY <2>1, LeastNumber
<1> DEFINE i == n + 1 - d
<1>2. i \in 1..n+1 /\ f[i] \notin Seq(T) /\ d \in 0..n  BY <1>1
<1>3. f[i] = IF i > n THEN <<>> ELSE piece[i] \o f[next[i]]
  BY <1>2 DEF Chains
<1>4. i <= n
  <2>1. <<>> \in Seq(T)  BY EmptySeq
  <2> QED BY <1>2, <1>3, <2>1
<1>5. next[i] \in i+1..n+1  BY <1>2, <1>4 DEF Forward
<1>6. f[next[i]] \in Seq(T)
  <2>1. n + 1 - next[i] \in 0..n /\ n + 1 - (n + 1 - next[i]) = next[i]
        /\ n + 1 - next[i] < d  BY <1>2, <1>5
  <2>2. f[next[i]] \notin Seq(T) => n + 1 - next[i] \in S  BY <2>1
  <2> HIDE DEF S, i
  <2> QED BY <1>1, <1>2, <2>1, <2>2
<1>7. piece[i] \in Seq(T)  BY <1>2, <1>4
<1>8. piece[i] \o f[next[i]] \in Seq(T)
  <2> HIDE DEF i
  <2> QED BY <1>6, <1>7, ConcatProperties
<1> QED BY <1>2, <1>3, <1>4, <1>8

\* What is made of the end of a text does not depend on what is before it.
LEMMA ChainsShift ==
  ASSUME NEW n \in Nat, NEW d \in Nat,
         NEW piece, NEW next, NEW f, Chains(f, n, piece, next),
         NEW piece2, NEW next2, NEW f2, Chains(f2, n + d, piece2, next2),
         Forward(n, next), Shifted(n, d, piece, next, piece2, next2)
  PROVE  \A i \in 1..n+1 : f2[i + d] = f[i]
<1> DEFINE S == {k \in 0..n : f2[n + 1 - k + d] # f[n + 1 - k]}
<1> SUFFICES ASSUME S # {} PROVE FALSE
  <2> SUFFICES ASSUME NEW i \in 1..n+1, f2[i + d] # f[i] PROVE S # {}
    OBVIOUS
  <2>1. n + 1 - i \in 0..n /\ n + 1 - (n + 1 - i) = i  OBVIOUS
  <2>2. n + 1 - i \in S  BY <2>1
  <2> QED BY <2>2
<1>1. PICK k \in S : \A j \in S : k <= j
  <2>1. S \in SUBSET Nat  OBVIOUS
  <2> HIDE DEF S
  <2> QED BY <2>1, LeastNumber
<1> DEFINE i == n + 1 - k
<1>2. i \in 1..n+1 /\ f2[i + d] # f[i] /\ k \in 0..n  BY <1>1
<1>3. f[i] = IF i > n THEN <<>> ELSE piece[i] \o f[next[i]]
  BY <1>2 DEF Chains
<1>4. f2[i + d] = IF i + d > n + d THEN <<>> ELSE piece2[i + d] \o f2[next2[i + d]]
  <2>1. i + d \in 1..n+d+1  BY <1>2
  <2> HIDE DEF i
  <2> QED BY <2>1 DEF Chains
<1>5. i <= n /\ ~(i > n) /\ ~(i + d > n + d)
  <2>1. i > n <=> i + d > n + d  BY <1>2
  <2> QED BY <1>2, <1>3, <1>4, <2>1
<1>6. next[i] \in i+1..n+1  BY <1>2, <1>5 DEF Forward
<1>7. f2[next[i] + d] = f[next[i]]
  <2>1. n + 1 - next[i] \in 0..n /\ n + 1 - (n + 1 - next[i]) = next[i]
        /\ n + 1 - next[i] < k  BY <1>2, <1>6
  <2>2. f2[next[i] + d] # f[next[i]] => n + 1 - next[i] \in S  BY <2>1
  <2> HIDE DEF S, i
  <2> QED BY <1>1, <1>2, <2>1, <2>2
<1>8. piece2[i + d] = piece[i] /\ next2[i + d] = next[i] + d  BY <1>2, <1>5 DEF Shifted
<1> HIDE DEF i
<1>9. f[i] = piece[i] \o f[next[i]]  BY <1>3, <1>5
<1>10. f2[i + d] = piece2[i + d] \o f2[next2[i + d]]  BY <1>4, <1>5
<1> QED BY <1>2, <1>7, <1>8, <1>9, <1>10

-----------------------------------------------------------------------------
(* Pieces of texts.                                                        *)

\* Two texts, one after the other.
Joined(s, t) == s \o t

\* w is made of the symbols of s and then those of t.
Joins(w, s, t) ==
    /\ Len(w) = Len(s) + Len(t)
    /\ \A i \in 1..Len(s) : w[i] = s[i]
    /\ \A i \in 1..Len(t) : w[Len(s) + i] = t[i]

LEMMA JoinedIs ==
  ASSUME NEW T, NEW s \in Seq(T), NEW t \in Seq(T)
  PROVE  Joined(s, t) \in Seq(T) /\ Joins(Joined(s, t), s, t)
<1>1. Len(s) \in Nat /\ Len(t) \in Nat  BY LenProperties
<1>2. Joined(s, t) \in Seq(T) /\ Len(Joined(s, t)) = Len(s) + Len(t)
  BY ConcatProperties DEF Joined
<1>3. \A i \in 1 .. Len(s) + Len(t) : Joined(s, t)[i] = IF i <= Len(s) THEN s[i] ELSE t[i - Len(s)]
  BY ConcatProperties DEF Joined
<1>4. \A i \in 1..Len(s) : Joined(s, t)[i] = s[i]  BY <1>1, <1>3
<1>5. ASSUME NEW i \in 1..Len(t) PROVE Joined(s, t)[Len(s) + i] = t[i]
  <2>1. Len(s) + i \in 1 .. Len(s) + Len(t) /\ ~(Len(s) + i <= Len(s)) /\ Len(s) + i - Len(s) = i
    BY <1>1
  <2> QED BY <2>1, <1>3
<1> QED BY <1>2, <1>4, <1>5 DEF Joins

LEMMA JoinedAssoc ==
  ASSUME NEW T, NEW s \in Seq(T), NEW t \in Seq(T), NEW u \in Seq(T)
  PROVE  Joined(Joined(s, t), u) = Joined(s, Joined(t, u))
BY ConcatAssociative DEF Joined

LEMMA JoinedEmpty ==
  ASSUME NEW T, NEW s \in Seq(T)
  PROVE  Joined(s, <<>>) = s /\ Joined(<<>>, s) = s
BY ConcatEmptySeq DEF Joined

\* A text is its first symbol and the rest.
LEMMA FirstSymbol ==
  ASSUME NEW T, NEW t \in Seq(T), t # <<>>
  PROVE  \E r \in Seq(T) : t = Joined(<<t[1]>>, r) /\ Len(t) = Len(r) + 1 /\ t[1] \in T
<1>1. Tail(t) \in Seq(T) /\ Len(Tail(t)) = Len(t) - 1
      /\ \A i \in 1 .. Len(Tail(t)) : Tail(t)[i] = t[i + 1]
  BY HeadTailProperties
<1>2. Len(t) \in Nat \ {0} /\ t \in [1..Len(t) -> T]  BY EmptySeq, LenProperties
<1>3. t[1] \in T  BY <1>2
<1>4. PICK h \in Seq(T) : h = <<t[1]>> /\ Len(h) = 1 /\ h[1] = t[1]
  <2>1. <<t[1]>> \in Seq(T) /\ Len(<<t[1]>>) = 1 /\ <<t[1]>>[1] = t[1]  BY <1>3
  <2> QED BY <2>1
<1>5. PICK q \in Seq(T) : Len(q) = Len(t) - 1 /\ \A i \in 1 .. Len(q) : q[i] = t[i + 1]
  BY <1>1
<1>6. PICK j \in Seq(T) : j = Joined(h, q) /\ Joins(j, h, q)
  BY JoinedIs
<1>7. \A i \in 1..Len(t) : t[i] = j[i]
  <2> SUFFICES ASSUME NEW i \in 1..Len(t) PROVE t[i] = j[i]
    OBVIOUS
  <2>1. CASE i = 1  BY <2>1, <1>4, <1>6 DEF Joins
  <2>2. CASE i # 1
    <3>1. i - 1 \in 1..Len(q) /\ Len(h) + (i - 1) = i /\ (i - 1) + 1 = i
      BY <2>2, <1>2, <1>4, <1>5
    <3> QED BY <3>1, <1>5, <1>6 DEF Joins
  <2> QED BY <2>1, <2>2
<1>8. Len(t) = Len(j) /\ Len(t) = Len(q) + 1  BY <1>2, <1>4, <1>5, <1>6 DEF Joins
<1>9. t = j  BY <1>7, <1>8, SeqEqual
<1> QED BY <1>3, <1>4, <1>6, <1>8, <1>9

\* A text occurs where its symbols are.
LEMMA OccursAtIs ==
  ASSUME NEW s \in Text, NEW t \in Text, NEW i \in Nat \ {0}
  PROVE  OccursAt(s, t, i) <=>
           i + Len(s) - 1 <= Len(t) /\ \A j \in 1..Len(s) : t[i + j - 1] = s[j]
<1>1. Len(s) \in Nat /\ Len(t) \in Nat /\ t \in [1..Len(t) -> Symbols]  BY LenProperties DEF Text
<1> SUFFICES ASSUME i + Len(s) - 1 <= Len(t)
             PROVE  SubSeq(t, i, i + Len(s) - 1) = s <=> \A j \in 1..Len(s) : t[i + j - 1] = s[j]
  BY DEF OccursAt
<1> DEFINE e == i + Len(s) - 1
           u == SubSeq(t, i, e)
<1>2. u \in Seq(Symbols) /\ Len(u) = (IF i <= e THEN e - i + 1 ELSE 0)
      /\ \A j \in 1 .. e - i + 1 : u[j] = t[i + j - 1]
  <2>1. i \in Int /\ e \in Int /\ \A j \in i..e : t[j] \in Symbols  BY <1>1
  <2> HIDE DEF e
  <2> QED BY <2>1, SubSeqProperties
<1>3. Len(u) = Len(s) /\ e - i + 1 = Len(s)
  <2>1. e - i + 1 = Len(s) /\ (i <= e <=> Len(s) > 0)  BY <1>1
  <2> HIDE DEF u, e
  <2> QED BY <2>1, <1>2, <1>1
<1>4. \A j \in 1..Len(s) : u[j] = t[i + j - 1]  BY <1>2, <1>3
<1> HIDE DEF u, e
<1>5. (\A j \in 1..Len(s) : u[j] = s[j]) => u = s
  BY <1>2, <1>3, SeqEqual DEF Text
<1>6. u = s <=> \A j \in 1..Len(s) : t[i + j - 1] = s[j]  BY <1>4, <1>5
<1> QED BY <1>6 DEF u, e

LEMMA OccursShift ==
  ASSUME NEW s \in Text, NEW u \in Text, NEW r \in Text, NEW i \in Nat \ {0}
  PROVE  OccursAt(s, Joined(u, r), Len(u) + i) <=> OccursAt(s, r, i)
<1> DEFINE t == Joined(u, r)
<1>1. Len(s) \in Nat /\ Len(u) \in Nat /\ Len(r) \in Nat  BY LenProperties DEF Text
<1>2. t \in Text /\ Len(t) = Len(u) + Len(r) /\ \A j \in 1..Len(r) : t[Len(u) + j] = r[j]
  BY JoinedIs DEF Text, Joins
<1> HIDE DEF t
<1>3. i + Len(s) - 1 <= Len(r) => \A j \in 1..Len(s) : t[Len(u) + i + j - 1] = r[i + j - 1]
  <2> SUFFICES ASSUME i + Len(s) - 1 <= Len(r), NEW j \in 1..Len(s)
               PROVE  t[Len(u) + i + j - 1] = r[i + j - 1]
    OBVIOUS
  <2>1. i + j - 1 \in 1..Len(r) /\ Len(u) + i + j - 1 = Len(u) + (i + j - 1)  BY <1>1
  <2> QED BY <2>1, <1>2
<1>4. OccursAt(s, t, Len(u) + i) <=>
        Len(u) + i + Len(s) - 1 <= Len(t) /\ \A j \in 1..Len(s) : t[Len(u) + i + j - 1] = s[j]
  <2>1. Len(u) + i \in Nat \ {0}  BY <1>1
  <2> QED BY <2>1, <1>2, OccursAtIs
<1>5. OccursAt(s, r, i) <=>
        i + Len(s) - 1 <= Len(r) /\ \A j \in 1..Len(s) : r[i + j - 1] = s[j]
  BY OccursAtIs
<1>6. Len(u) + i + Len(s) - 1 <= Len(t) <=> i + Len(s) - 1 <= Len(r)  BY <1>1, <1>2
<1>7. OccursAt(s, t, Len(u) + i) <=> OccursAt(s, r, i)  BY <1>3, <1>4, <1>5, <1>6
<1> QED BY <1>7 DEF t

LEMMA OccursFront ==
  ASSUME NEW s \in Text, NEW r \in Text
  PROVE  OccursAt(s, Joined(s, r), 1)
<1>1. Len(s) \in Nat /\ Len(r) \in Nat  BY LenProperties DEF Text
<1>2. Joined(s, r) \in Text /\ Len(Joined(s, r)) = Len(s) + Len(r)
      /\ \A j \in 1..Len(s) : Joined(s, r)[j] = s[j]
  BY JoinedIs DEF Text, Joins
<1>3. 1 + Len(s) - 1 <= Len(Joined(s, r)) /\ \A j \in 1..Len(s) : 1 + j - 1 = j  BY <1>1, <1>2
<1>4. \A j \in 1..Len(s) : Joined(s, r)[1 + j - 1] = s[j]  BY <1>2, <1>3
<1> QED BY <1>2, <1>3, <1>4, OccursAtIs

LEMMA FrontSplits ==
  ASSUME NEW s \in Text, NEW t \in Text, OccursAt(s, t, 1)
  PROVE  \E r \in Text : t = Joined(s, r)
<1>1. Len(s) \in Nat /\ Len(t) \in Nat /\ t \in [1..Len(t) -> Symbols]  BY LenProperties DEF Text
<1>2. 1 + Len(s) - 1 <= Len(t) /\ \A j \in 1..Len(s) : t[1 + j - 1] = s[j]
  BY OccursAtIs
<1>3. Len(s) <= Len(t) /\ \A j \in 1..Len(s) : t[j] = s[j]
  <2>1. \A j \in 1..Len(s) : 1 + j - 1 = j  BY <1>1
  <2> QED BY <1>1, <1>2, <2>1
<1>4. \E r \in Text : Len(r) = Len(t) - Len(s) /\ \A j \in 1..Len(r) : r[j] = t[Len(s) + j]
  <2> DEFINE r == SubSeq(t, Len(s) + 1, Len(t))
  <2>1. r \in Seq(Symbols)
        /\ Len(r) = (IF Len(s) + 1 <= Len(t) THEN Len(t) - (Len(s) + 1) + 1 ELSE 0)
        /\ \A j \in 1 .. Len(t) - (Len(s) + 1) + 1 : r[j] = t[Len(s) + 1 + j - 1]
    <3>1. Len(s) + 1 \in Int /\ Len(t) \in Int /\ \A j \in Len(s)+1..Len(t) : t[j] \in Symbols
      BY <1>1
    <3> QED BY <3>1, SubSeqProperties
  <2>2. Len(r) = Len(t) - Len(s)  BY <1>1, <1>3, <2>1
  <2>3. ASSUME NEW j \in 1..Len(r) PROVE r[j] = t[Len(s) + j]
    <3>1. j \in 1 .. Len(t) - (Len(s) + 1) + 1 /\ Len(s) + 1 + j - 1 = Len(s) + j
      BY <1>1, <1>3, <2>2
    <3> HIDE DEF r
    <3> QED BY <3>1, <2>1
  <2> HIDE DEF r
  <2> QED BY <2>1, <2>2, <2>3 DEF Text
<1>5. PICK r \in Text : Len(r) = Len(t) - Len(s) /\ \A j \in 1..Len(r) : r[j] = t[Len(s) + j]
  BY <1>4
<1>7. PICK w \in Text : w = Joined(s, r) /\ Joins(w, s, r)
  BY JoinedIs DEF Text
<1>8. \A i \in 1..Len(t) : t[i] = w[i]
  <2> SUFFICES ASSUME NEW i \in 1..Len(t) PROVE t[i] = w[i]
    OBVIOUS
  <2>1. CASE i <= Len(s)
    <3>1. i \in 1..Len(s)  BY <2>1, <1>1
    <3> QED BY <3>1, <1>3, <1>7 DEF Joins
  <2>2. CASE i > Len(s)
    <3>1. i - Len(s) \in 1..Len(r) /\ Len(s) + (i - Len(s)) = i  BY <2>2, <1>1, <1>5
    <3> QED BY <3>1, <1>5, <1>7 DEF Joins
  <2> QED BY <2>1, <2>2, <1>1
<1>9. t = w
  <2>1. Len(t) = Len(w)  BY <1>1, <1>5, <1>7 DEF Joins
  <2> QED BY <2>1, <1>7, <1>8, SeqEqual DEF Text
<1> QED BY <1>7, <1>9

-----------------------------------------------------------------------------
(* Expand, piece by piece.                                                 *)

\* w is n between the delimiters.
Delimits(w, n) ==
    /\ Len(w) = Len(n) + 2
    /\ w[1] = Opening /\ w[Len(n) + 2] = Closing
    /\ \A i \in 1..Len(n) : w[i + 1] = n[i]

LEMMA PlaceholderIs ==
  ASSUME NEW n \in Text
  PROVE  Placeholder(n) \in Text /\ Delimits(Placeholder(n), n)
<1>1. PICK d \in Text : d = <<Opening>> /\ Len(d) = 1 /\ d[1] = Opening
  <2>1. Opening \in Symbols  BY VariablesAssumption
  <2>2. <<Opening>> \in Seq(Symbols)  BY <2>1
  <2> QED BY <2>2 DEF Text
<1>2. PICK e \in Text : e = <<Closing>> /\ Len(e) = 1 /\ e[1] = Closing
  <2>1. Closing \in Symbols  BY VariablesAssumption
  <2>2. <<Closing>> \in Seq(Symbols)  BY <2>1
  <2> QED BY <2>2 DEF Text
<1>3. PICK a \in Text : a = Joined(d, n) /\ Joins(a, d, n)  BY JoinedIs DEF Text
<1>4. PICK w \in Text : w = Joined(a, e) /\ Joins(w, a, e)  BY JoinedIs DEF Text
<1>5. Len(n) \in Nat  BY LenProperties DEF Text
<1>6. Len(a) = Len(n) + 1 /\ a[1] = Opening
  <2>1. 1 \in 1..Len(d)  BY <1>1
  <2> QED BY <2>1, <1>1, <1>3, <1>5 DEF Joins
<1>7. ASSUME NEW i \in 1..Len(n) PROVE a[i + 1] = n[i]
  <2>1. a[Len(d) + i] = n[i]  BY <1>3 DEF Joins
  <2>2. Len(d) + i = i + 1  BY <1>1, <1>5
  <2> QED BY <2>1, <2>2
<1>8. Len(w) = Len(n) + 2 /\ w[1] = Opening
  <2>1. 1 \in 1..Len(a)  BY <1>5, <1>6
  <2>2. Len(w) = Len(a) + Len(e) /\ w[1] = a[1]  BY <2>1, <1>4 DEF Joins
  <2> QED BY <2>2, <1>2, <1>5, <1>6
<1>9. w[Len(n) + 2] = Closing
  <2>1. 1 \in 1..Len(e)  BY <1>2
  <2>2. w[Len(a) + 1] = e[1]  BY <2>1, <1>4 DEF Joins
  <2>3. Len(a) + 1 = Len(n) + 2  BY <1>5, <1>6
  <2> QED BY <2>2, <2>3, <1>2
<1>10. ASSUME NEW i \in 1..Len(n) PROVE w[i + 1] = n[i]
  <2>1. i + 1 \in 1..Len(a)  BY <1>5, <1>6
  <2>2. w[i + 1] = a[i + 1]  BY <2>1, <1>4 DEF Joins
  <2> QED BY <2>2, <1>7
<1>11. Placeholder(n) = w  BY <1>1, <1>2, <1>3, <1>4 DEF Placeholder, Joined
<1>12. Delimits(w, n)  BY <1>8, <1>9, <1>10 DEF Delimits
<1> QED BY <1>4, <1>11, <1>12

LEMMA NamesTyped == \A n \in Names : Placeholder(n) \in Text /\ Len(Placeholder(n)) \in Nat \ {0}
<1> SUFFICES ASSUME NEW n \in Names
             PROVE  Placeholder(n) \in Text /\ Len(Placeholder(n)) \in Nat \ {0}
  OBVIOUS
<1>1. n \in Text  BY VariablesAssumption
<1>2. Len(n) \in Nat  BY <1>1, LenProperties DEF Text
<1>3. Placeholder(n) \in Text /\ Len(Placeholder(n)) = Len(n) + 2
  BY <1>1, PlaceholderIs DEF Delimits
<1> QED BY <1>2, <1>3

\* Is there a reference at i that Expand finds, and to which variable?
Hit(t, i) == \E n \in Names : OccursAt(Placeholder(n), t, i)
Who(t, i) == CHOOSE m \in Names : OccursAt(Placeholder(m), t, i)

\* The recursion of Expand, as a pass.
ExpandPiece(t, v) == [i \in 1..Len(t) |-> IF Hit(t, i) THEN v[Who(t, i)] ELSE <<t[i]>>]
ExpandSkip(t) == [i \in 1..Len(t) |-> IF Hit(t, i) THEN i + Len(Placeholder(Who(t, i))) ELSE i + 1]

LEMMA HitIs ==
  ASSUME NEW t \in Text, NEW i \in 1..Len(t), Hit(t, i)
  PROVE  /\ Who(t, i) \in Names /\ OccursAt(Placeholder(Who(t, i)), t, i)
         /\ i + Len(Placeholder(Who(t, i))) \in i+1..Len(t)+1
<1>1. Who(t, i) \in Names /\ OccursAt(Placeholder(Who(t, i)), t, i)  BY DEF Hit, Who
<1>2. Placeholder(Who(t, i)) \in Text /\ Len(Placeholder(Who(t, i))) \in Nat \ {0}
  BY <1>1, NamesTyped
<1>3. Len(t) \in Nat  BY LenProperties DEF Text
<1>4. i + Len(Placeholder(Who(t, i))) - 1 <= Len(t)  BY <1>1 DEF OccursAt
<1> QED BY <1>1, <1>2, <1>3, <1>4

LEMMA ExpandSkips ==
  ASSUME NEW t \in Text
  PROVE  Forward(Len(t), ExpandSkip(t))
<1> SUFFICES ASSUME NEW i \in 1..Len(t) PROVE ExpandSkip(t)[i] \in i+1..Len(t)+1
  BY DEF Forward
<1>1. Len(t) \in Nat  BY LenProperties DEF Text
<1>2. CASE Hit(t, i)
  <2>1. ExpandSkip(t)[i] = i + Len(Placeholder(Who(t, i)))  BY <1>2 DEF ExpandSkip
  <2> QED BY <2>1, <1>2, HitIs
<1>3. CASE ~Hit(t, i)
  <2>1. ExpandSkip(t)[i] = i + 1  BY <1>3 DEF ExpandSkip
  <2> QED BY <2>1, <1>1
<1> QED BY <1>2, <1>3

LEMMA ExpandIs ==
  ASSUME NEW v \in [Names -> Text], NEW t \in Text
  PROVE  \E f : Chains(f, Len(t), ExpandPiece(t, v), ExpandSkip(t)) /\ Expand(t, v) = f[1]
<1> DEFINE Step(f, i) == IF i > Len(t) THEN <<>>
             ELSE IF \E n \in DOMAIN v : OccursAt(Placeholder(n), t, i)
             THEN LET n == CHOOSE m \in DOMAIN v : OccursAt(Placeholder(m), t, i)
                  IN v[n] \o f[i + Len(Placeholder(n))]
             ELSE <<t[i]>> \o f[i + 1]
           From == CHOOSE f : f = [i \in 1 .. Len(t) + 1 |-> Step(f, i)]
<1>1. Expand(t, v) = From[1]  BY DEF Expand
<1>2. DOMAIN v = Names /\ Len(t) \in Nat  BY LenProperties DEF Text
<1>3. PICK f : Chains(f, Len(t), ExpandPiece(t, v), ExpandSkip(t))
  BY <1>2, ExpandSkips, ChainsSome
<1>4. ASSUME NEW g, NEW i \in 1 .. Len(t) + 1
      PROVE  Step(g, i) = IF i > Len(t) THEN <<>> ELSE ExpandPiece(t, v)[i] \o g[ExpandSkip(t)[i]]
  <2>1. CASE i > Len(t)  BY <2>1
  <2>2. CASE ~(i > Len(t)) /\ Hit(t, i)
    <3>1. i \in 1..Len(t)  BY <2>2, <1>2
    <3>2. ExpandPiece(t, v)[i] = v[Who(t, i)]
          /\ ExpandSkip(t)[i] = i + Len(Placeholder(Who(t, i)))
      BY <3>1, <2>2 DEF ExpandPiece, ExpandSkip
    <3>3. Step(g, i) = v[Who(t, i)] \o g[i + Len(Placeholder(Who(t, i)))]
      BY <2>2, <1>2 DEF Hit, Who
    <3> QED BY <2>2, <3>2, <3>3
  <2>3. CASE ~(i > Len(t)) /\ ~Hit(t, i)
    <3>1. i \in 1..Len(t)  BY <2>3, <1>2
    <3>2. ExpandPiece(t, v)[i] = <<t[i]>> /\ ExpandSkip(t)[i] = i + 1
      BY <3>1, <2>3 DEF ExpandPiece, ExpandSkip
    <3>3. Step(g, i) = <<t[i]>> \o g[i + 1]
      BY <2>3, <1>2 DEF Hit
    <3> QED BY <2>3, <3>2, <3>3
  <2> QED BY <2>1, <2>2, <2>3
<1>5. \A g : Chains(g, Len(t), ExpandPiece(t, v), ExpandSkip(t)) <=>
               g = [i \in 1 .. Len(t) + 1 |-> Step(g, i)]
  <2> HIDE DEF Step
  <2> QED BY <1>4 DEF Chains
<1>6. f = [i \in 1 .. Len(t) + 1 |-> Step(f, i)]  BY <1>3, <1>5
<1>7. From = [i \in 1 .. Len(t) + 1 |-> Step(From, i)]
  <2> HIDE DEF Step
  <2> QED BY <1>6
<1>8. Chains(From, Len(t), ExpandPiece(t, v), ExpandSkip(t))
  <2> HIDE DEF Step, From
  <2> QED BY <1>5, <1>7
<1> QED BY <1>1, <1>8

LEMMA ExpandPieces ==
  ASSUME NEW v \in [Names -> Text], NEW t \in Text
  PROVE  \A i \in 1..Len(t) : ExpandPiece(t, v)[i] \in Text
<1> SUFFICES ASSUME NEW i \in 1..Len(t) PROVE ExpandPiece(t, v)[i] \in Text
  OBVIOUS
<1>1. CASE Hit(t, i)
  <2>1. ExpandPiece(t, v)[i] = v[Who(t, i)]  BY <1>1 DEF ExpandPiece
  <2> QED BY <2>1, <1>1, HitIs
<1>2. CASE ~Hit(t, i)
  <2>1. ExpandPiece(t, v)[i] = <<t[i]>>  BY <1>2 DEF ExpandPiece
  <2>2. t[i] \in Symbols  BY ElementOfSeq DEF Text
  <2> QED BY <2>1, <2>2 DEF Text
<1> QED BY <1>1, <1>2

\* What is made of a text is a text.
LEMMA ExpandTyped ==
  ASSUME NEW v \in [Names -> Text], NEW t \in Text
  PROVE  Expand(t, v) \in Text
<1>1. PICK f : Chains(f, Len(t), ExpandPiece(t, v), ExpandSkip(t)) /\ Expand(t, v) = f[1]
  BY ExpandIs
<1>2. Len(t) \in Nat  BY LenProperties DEF Text
<1>3. \A i \in 1..Len(t) : ExpandPiece(t, v)[i] \in Seq(Symbols)  BY ExpandPieces DEF Text
<1>4. \A i \in 1..Len(t)+1 : f[i] \in Seq(Symbols)
  BY <1>1, <1>2, <1>3, ExpandSkips, ChainsTyped
<1> QED BY <1>1, <1>2, <1>4 DEF Text

\* The first piece of a text, and then the rest.
LEMMA ExpandFront ==
  ASSUME NEW v \in [Names -> Text], NEW u \in Text, u # <<>>, NEW r \in Text,
         ExpandSkip(Joined(u, r))[1] = Len(u) + 1
  PROVE  Expand(Joined(u, r), v) = Joined(ExpandPiece(Joined(u, r), v)[1], Expand(r, v))
<1> DEFINE t == Joined(u, r)
<1>1. t \in Text /\ Joins(t, u, r)  BY JoinedIs DEF Text
<1>2. Len(u) \in Nat \ {0} /\ Len(r) \in Nat /\ Len(t) = Len(r) + Len(u)
  <2>1. Len(u) \in Nat \ {0} /\ Len(r) \in Nat  BY EmptySeq, LenProperties DEF Text
  <2> HIDE DEF t
  <2> QED BY <2>1, <1>1 DEF Joins
<1>3. \A i \in 1..Len(r), n \in Names :
        OccursAt(Placeholder(n), t, i + Len(u)) <=> OccursAt(Placeholder(n), r, i)
  <2> SUFFICES ASSUME NEW i \in 1..Len(r), NEW n \in Names
               PROVE  OccursAt(Placeholder(n), t, i + Len(u)) <=> OccursAt(Placeholder(n), r, i)
    OBVIOUS
  <2>1. i + Len(u) = Len(u) + i /\ i \in Nat \ {0}  BY <1>2
  <2>2. Placeholder(n) \in Text  BY NamesTyped
  <2> QED BY <2>1, <2>2, OccursShift
<1> HIDE DEF t
<1>4. \A i \in 1..Len(r) : (Hit(t, i + Len(u)) <=> Hit(r, i)) /\ Who(t, i + Len(u)) = Who(r, i)
  BY <1>3 DEF Hit, Who
<1>5. ASSUME NEW i \in 1..Len(r)
      PROVE  /\ ExpandPiece(t, v)[i + Len(u)] = ExpandPiece(r, v)[i]
             /\ ExpandSkip(t)[i + Len(u)] = ExpandSkip(r)[i] + Len(u)
  <2>1. i + Len(u) \in 1..Len(t)  BY <1>2
  <2>2. t[i + Len(u)] = r[i]
    <3>1. i + Len(u) = Len(u) + i  BY <1>2
    <3> QED BY <3>1, <1>1 DEF Joins
  <2>3. ExpandPiece(t, v)[i + Len(u)] = ExpandPiece(r, v)[i]
    BY <2>1, <2>2, <1>4 DEF ExpandPiece
  <2>4. Hit(r, i) => Len(Placeholder(Who(r, i))) \in Nat  BY HitIs, NamesTyped
  <2>5. CASE Hit(r, i)
    <3>1. ExpandSkip(t)[i + Len(u)] = i + Len(u) + Len(Placeholder(Who(r, i)))
          /\ ExpandSkip(r)[i] = i + Len(Placeholder(Who(r, i)))
      BY <2>1, <2>5, <1>4 DEF ExpandSkip
    <3> QED BY <3>1, <2>3, <2>4, <2>5, <1>2
  <2>6. CASE ~Hit(r, i)
    <3>1. ExpandSkip(t)[i + Len(u)] = i + Len(u) + 1 /\ ExpandSkip(r)[i] = i + 1
      BY <2>1, <2>6, <1>4 DEF ExpandSkip
    <3> QED BY <3>1, <2>3, <1>2
  <2> QED BY <2>5, <2>6
<1>6. PICK f : Chains(f, Len(t), ExpandPiece(t, v), ExpandSkip(t)) /\ Expand(t, v) = f[1]
  BY <1>1, ExpandIs
<1>7. PICK g : Chains(g, Len(r), ExpandPiece(r, v), ExpandSkip(r)) /\ Expand(r, v) = g[1]
  BY ExpandIs
<1>8. f[1 + Len(u)] = g[1]
  <2>1. Chains(f, Len(r) + Len(u), ExpandPiece(t, v), ExpandSkip(t))  BY <1>2, <1>6
  <2>2. Forward(Len(r), ExpandSkip(r))  BY ExpandSkips
  <2>3. Shifted(Len(r), Len(u), ExpandPiece(r, v), ExpandSkip(r), ExpandPiece(t, v), ExpandSkip(t))
    BY <1>5 DEF Shifted
  <2>4. Chains(g, Len(r), ExpandPiece(r, v), ExpandSkip(r))  BY <1>7
  <2>5. Len(r) \in Nat /\ Len(u) \in Nat  BY <1>2
  <2>6. \A i \in 1..Len(r)+1 : f[i + Len(u)] = g[i]
    BY <2>1, <2>2, <2>3, <2>4, <2>5, ChainsShift
  <2> QED BY <2>6, <1>2
<1>9. f[1] = ExpandPiece(t, v)[1] \o f[ExpandSkip(t)[1]]
  <2>1. 1 \in 1 .. Len(t) + 1 /\ ~(1 > Len(t))  BY <1>2
  <2> QED BY <2>1, <1>6 DEF Chains
<1>10. ExpandSkip(t)[1] = 1 + Len(u)  BY <1>2 DEF t
<1>11. Expand(t, v) = Joined(ExpandPiece(t, v)[1], Expand(r, v))
  BY <1>6, <1>7, <1>8, <1>9, <1>10 DEF Joined
<1> QED BY <1>11 DEF t

LEMMA TextIs ==
  ASSUME NEW t \in Text
  PROVE  Len(t) \in Nat /\ DOMAIN t = 1..Len(t) /\ \A i \in 1..Len(t) : t[i] \in Symbols
BY LenProperties, ElementOfSeq DEF Text

LEMMA JoinedText ==
  ASSUME NEW s \in Text, NEW t \in Text
  PROVE  Joined(s, t) \in Text /\ Joins(Joined(s, t), s, t)
BY JoinedIs DEF Text

LEMMA TextAssoc ==
  ASSUME NEW s \in Text, NEW t \in Text, NEW u \in Text
  PROVE  Joined(Joined(s, t), u) = Joined(s, Joined(t, u))
BY JoinedAssoc DEF Text

LEMMA TextEmpty ==
  ASSUME NEW s \in Text
  PROVE  Joined(s, <<>>) = s /\ Joined(<<>>, s) = s
BY JoinedEmpty DEF Text

LEMMA EmptyText == <<>> \in Text /\ Len(<<>>) = 0
BY EmptySeq DEF Text

\* One symbol is a text.
LEMMA SymbolIsText ==
  ASSUME NEW x \in Symbols
  PROVE  <<x>> \in Text /\ <<x>> # <<>> /\ Len(<<x>>) = 1 /\ <<x>>[1] = x
<1>1. <<x>> \in Seq(Symbols) /\ Len(<<x>>) = 1  OBVIOUS
<1>2. <<x>> # <<>>  OBVIOUS
<1> QED BY <1>1, <1>2 DEF Text

LEMMA LettersAreText ==
  ASSUME NEW w \in Seq(Letters)
  PROVE  w \in Text
<1>1. Letters \subseteq Symbols  BY DEF Letters
<1> QED BY <1>1, SeqMonotonic DEF Text

LEMMA ExpandEmpty ==
  ASSUME NEW v \in [Names -> Text]
  PROVE  Expand(<<>>, v) = <<>>
<1>1. PICK f : Chains(f, Len(<<>>), ExpandPiece(<<>>, v), ExpandSkip(<<>>)) /\ Expand(<<>>, v) = f[1]
  BY ExpandIs, EmptyText
<1>2. Len(<<>>) = 0 /\ 1 \in 1 .. 0 + 1 /\ 1 > 0  BY EmptyText
<1> QED BY <1>1, <1>2 DEF Chains

\* A symbol that no reference begins with stays.
LEMMA ExpandMiss ==
  ASSUME NEW v \in [Names -> Text], NEW x \in Symbols, NEW r \in Text,
         ~Hit(Joined(<<x>>, r), 1)
  PROVE  Expand(Joined(<<x>>, r), v) = Joined(<<x>>, Expand(r, v))
<1>1. PICK u \in Text : u = <<x>> /\ u # <<>> /\ Len(u) = 1 /\ u[1] = x
  BY SymbolIsText
<1>2. PICK t \in Text : t = Joined(u, r) /\ Joins(t, u, r)  BY JoinedText
<1>3. 1 \in 1..Len(t) /\ t[1] = x
  <2>1. Len(r) \in Nat /\ 1 \in 1..1  BY TextIs
  <2> QED BY <2>1, <1>1, <1>2 DEF Joins
<1>4. ~Hit(t, 1)  BY <1>1, <1>2
<1>5. ExpandSkip(t)[1] = Len(u) + 1 /\ ExpandPiece(t, v)[1] = u
  <2>1. ExpandSkip(t)[1] = 1 + 1  BY <1>3, <1>4 DEF ExpandSkip
  <2>2. ExpandPiece(t, v)[1] = <<t[1]>>  BY <1>3, <1>4 DEF ExpandPiece
  <2> QED BY <2>1, <2>2, <1>1, <1>3
<1>6. ExpandSkip(Joined(u, r))[1] = Len(u) + 1 /\ ExpandPiece(Joined(u, r), v)[1] = u
  BY <1>2, <1>5
<1>7. Expand(Joined(u, r), v) = Joined(ExpandPiece(Joined(u, r), v)[1], Expand(r, v))
  BY <1>1, <1>6, ExpandFront
<1> QED BY <1>1, <1>6, <1>7

\* Where there is no "${" there is no reference.
LEMMA NoHit ==
  ASSUME NEW t \in Text, NEW i \in 1..Len(t), t[i] # Opening
  PROVE  ~Hit(t, i)
<1> SUFFICES ASSUME NEW n \in Names, OccursAt(Placeholder(n), t, i) PROVE FALSE
  BY DEF Hit
<1>1. n \in Text  BY VariablesAssumption
<1>2. Placeholder(n) \in Text /\ Len(Placeholder(n)) \in Nat \ {0} /\ Placeholder(n)[1] = Opening
  BY <1>1, PlaceholderIs, NamesTyped DEF Delimits
<1>3. i \in Nat \ {0}  BY TextIs
<1>4. \A j \in 1..Len(Placeholder(n)) : t[i + j - 1] = Placeholder(n)[j]
  BY <1>2, <1>3, OccursAtIs
<1>5. 1 \in 1..Len(Placeholder(n)) /\ i + 1 - 1 = i  BY <1>2, <1>3
<1>6. t[i] = Placeholder(n)[1]  BY <1>4, <1>5
<1> QED BY <1>2, <1>6

\* Only one placeholder begins a text, when there are no delimiters in the names.
LEMMA OnePlaceholder ==
  ASSUME NEW m \in Seq(Letters), NEW w \in Seq(Letters), NEW r \in Text,
         OccursAt(Placeholder(m), Joined(Placeholder(w), r), 1)
  PROVE  m = w
<1>1. m \in Text /\ w \in Text  BY LettersAreText
<1>2. PICK p \in Text : p = Placeholder(m) /\ Delimits(p, m)  BY <1>1, PlaceholderIs
<1>3. PICK q \in Text : q = Placeholder(w) /\ Delimits(q, w)  BY <1>1, PlaceholderIs
<1>4. PICK t \in Text : t = Joined(q, r) /\ Joins(t, q, r)  BY JoinedText
<1>5. Len(m) \in Nat /\ Len(w) \in Nat /\ Len(r) \in Nat  BY <1>1, TextIs
<1>6. OccursAt(p, t, 1)  BY <1>2, <1>3, <1>4
<1>7. \A j \in 1..Len(p) : t[j] = p[j]
  <2>1. \A j \in 1..Len(p) : t[1 + j - 1] = p[j]  BY <1>6, OccursAtIs
  <2>2. \A j \in 1..Len(p) : 1 + j - 1 = j  BY <1>2, TextIs
  <2> QED BY <2>1, <2>2
<1>8. Len(p) = Len(m) + 2 /\ p[Len(m) + 2] = Closing /\ \A i \in 1..Len(m) : p[i + 1] = m[i]
  BY <1>2 DEF Delimits
<1>9. Len(q) = Len(w) + 2 /\ q[Len(w) + 2] = Closing /\ \A i \in 1..Len(w) : q[i + 1] = w[i]
  BY <1>3 DEF Delimits
<1>10. \A j \in 1..Len(q) : t[j] = q[j]  BY <1>4 DEF Joins
<1>11. (\A i \in 1..Len(m) : m[i] # Closing) /\ (\A i \in 1..Len(w) : w[i] # Closing)
  BY ElementOfSeq DEF Letters
<1>12. ~(Len(m) < Len(w))
  <2> SUFFICES ASSUME Len(m) < Len(w) PROVE FALSE
    OBVIOUS
  <2>1. Len(m) + 2 \in 1..Len(p) /\ Len(m) + 2 \in 1..Len(q) /\ Len(m) + 1 \in 1..Len(w)
        /\ (Len(m) + 1) + 1 = Len(m) + 2
    BY <1>5, <1>8, <1>9
  <2>2. w[Len(m) + 1] = Closing  BY <2>1, <1>7, <1>8, <1>9, <1>10
  <2> QED BY <2>1, <2>2, <1>11
<1>13. ~(Len(w) < Len(m))
  <2> SUFFICES ASSUME Len(w) < Len(m) PROVE FALSE
    OBVIOUS
  <2>1. Len(w) + 2 \in 1..Len(p) /\ Len(w) + 2 \in 1..Len(q) /\ Len(w) + 1 \in 1..Len(m)
        /\ (Len(w) + 1) + 1 = Len(w) + 2
    BY <1>5, <1>8, <1>9
  <2>2. m[Len(w) + 1] = Closing  BY <2>1, <1>7, <1>8, <1>9, <1>10
  <2> QED BY <2>1, <2>2, <1>11
<1>14. Len(m) = Len(w)  BY <1>5, <1>12, <1>13
<1>15. ASSUME NEW i \in 1..Len(m) PROVE m[i] = w[i]
  <2>1. i + 1 \in 1..Len(p) /\ i + 1 \in 1..Len(q) /\ i \in 1..Len(w)  BY <1>5, <1>8, <1>9, <1>14
  <2> QED BY <2>1, <1>7, <1>8, <1>9, <1>10
<1> QED BY <1>14, <1>15, SeqEqual

\* A reference is replaced by the value.
LEMMA ExpandHit ==
  ASSUME Names \subseteq Seq(Letters),
         NEW v \in [Names -> Text], NEW n \in Names, NEW r \in Text
  PROVE  Expand(Joined(Placeholder(n), r), v) = Joined(v[n], Expand(r, v))
<1>1. PICK u \in Text : u = Placeholder(n) /\ Len(u) \in Nat \ {0}  BY NamesTyped
<1>2. PICK t \in Text : t = Joined(u, r) /\ Joins(t, u, r)  BY JoinedText
<1>3. 1 \in 1..Len(t)
  <2>1. Len(r) \in Nat  BY TextIs
  <2> QED BY <2>1, <1>1, <1>2 DEF Joins
<1>4. OccursAt(Placeholder(n), t, 1)  BY <1>1, <1>2, OccursFront
<1>5. Hit(t, 1)  BY <1>4 DEF Hit
<1>6. Who(t, 1) = n
  <2>1. Who(t, 1) \in Names /\ OccursAt(Placeholder(Who(t, 1)), t, 1)  BY <1>3, <1>5, HitIs
  <2>2. Who(t, 1) \in Seq(Letters) /\ n \in Seq(Letters)  BY <2>1
  <2>3. t = Joined(Placeholder(n), r)  BY <1>1, <1>2
  <2> QED BY <2>1, <2>2, <2>3, OnePlaceholder
<1>7. ExpandSkip(t)[1] = Len(u) + 1 /\ ExpandPiece(t, v)[1] = v[n]
  <2>1. ExpandSkip(t)[1] = 1 + Len(u)  BY <1>1, <1>3, <1>5, <1>6 DEF ExpandSkip
  <2>2. ExpandPiece(t, v)[1] = v[n]  BY <1>3, <1>5, <1>6 DEF ExpandPiece
  <2> QED BY <2>1, <2>2, <1>1
<1>8. u # <<>>  BY <1>1, EmptyText
<1>9. ExpandSkip(Joined(u, r))[1] = Len(u) + 1 /\ ExpandPiece(Joined(u, r), v)[1] = v[n]
  BY <1>2, <1>7
<1>10. Expand(Joined(u, r), v) = Joined(ExpandPiece(Joined(u, r), v)[1], Expand(r, v))
  BY <1>8, <1>9, ExpandFront
<1> QED BY <1>1, <1>9, <1>10

\* A text without "${" stays.
LEMMA ExpandPlain ==
  ASSUME NEW v \in [Names -> Text], NEW q \in Seq(Symbols \ {Opening}), NEW r \in Text
  PROVE  Expand(Joined(q, r), v) = Joined(q, Expand(r, v))
<1> DEFINE A == Seq(Symbols \ {Opening})
           G == {w \in A : Expand(Joined(w, r), v) = Joined(w, Expand(r, v))}
<1>1. \A w \in A : w \in Text
  <2>1. Symbols \ {Opening} \subseteq Symbols  OBVIOUS
  <2> QED BY <2>1, SeqMonotonic DEF Text
<1>2. Expand(r, v) \in Text  BY ExpandTyped
<1>3. ASSUME NEW w \in A, \A z \in A : Len(z) < Len(w) => z \in G PROVE w \in G
  <2>1. CASE w = <<>>
    <3>1. Joined(w, r) = r /\ Joined(w, Expand(r, v)) = Expand(r, v)
      BY <2>1, <1>2, JoinedEmpty DEF Text
    <3> QED BY <3>1
  <2>2. CASE w # <<>>
    <3>1. PICK z \in A : w = Joined(<<w[1]>>, z) /\ Len(w) = Len(z) + 1 /\ w[1] \in Symbols \ {Opening}
      BY <2>2, FirstSymbol
    <3>2. z \in Text /\ Len(z) < Len(w)  BY <3>1, <1>1, TextIs
    <3>3. Expand(Joined(z, r), v) = Joined(z, Expand(r, v))  BY <3>1, <3>2, <1>3
    <3>4. PICK x \in Symbols : x = w[1] /\ x # Opening  BY <3>1
    <3>5. <<x>> \in Text /\ Len(<<x>>) = 1 /\ <<x>>[1] = x  BY SymbolIsText
    <3>6. PICK y \in Text : y = Joined(z, r)  BY <3>2, JoinedText
    <3>7. PICK t \in Text : t = Joined(<<x>>, y) /\ Joins(t, <<x>>, y)  BY <3>5, JoinedText
    <3>8. 1 \in 1..Len(t) /\ t[1] = x
      <4>1. Len(y) \in Nat /\ 1 \in 1..1  BY TextIs
      <4> QED BY <4>1, <3>5, <3>7 DEF Joins
    <3>9. ~Hit(t, 1)  BY <3>4, <3>8, NoHit
    <3>10. Expand(t, v) = Joined(<<x>>, Expand(y, v))  BY <3>7, <3>9, ExpandMiss
    <3>11. Joined(w, r) = t
      <4>1. Joined(w, r) = Joined(Joined(<<x>>, z), r)  BY <3>1, <3>4
      <4>2. Joined(Joined(<<x>>, z), r) = Joined(<<x>>, Joined(z, r))  BY <3>2, <3>5, TextAssoc
      <4> QED BY <4>1, <4>2, <3>6, <3>7
    <3>12. Joined(w, Expand(r, v)) = Joined(<<x>>, Joined(z, Expand(r, v)))
      <4>1. Joined(w, Expand(r, v)) = Joined(Joined(<<x>>, z), Expand(r, v))  BY <3>1, <3>4
      <4> DEFINE e == Expand(r, v)
      <4>2. e \in Text  BY <1>2
      <4>3. Joined(w, e) = Joined(Joined(<<x>>, z), e)  BY <4>1
      <4> HIDE DEF e
      <4>4. Joined(Joined(<<x>>, z), e) = Joined(<<x>>, Joined(z, e))  BY <4>2, <3>2, <3>5, TextAssoc
      <4> QED BY <4>3, <4>4 DEF e
    <3> QED BY <3>3, <3>6, <3>10, <3>11, <3>12
  <2> QED BY <2>1, <2>2
<1>4. \A w \in A : w \in G
  <2>1. A \in SUBSET Seq(Symbols \ {Opening})  OBVIOUS
  <2> HIDE DEF A, G
  <2> QED BY <2>1, <1>3, EveryText
<1> QED BY <1>4

-----------------------------------------------------------------------------
(* Texts whose references are closed.                                      *)

ClosedTexts == {t \in Text : Closed(t)}

\* The reference that begins at i is closed at j.
ClosesAt(t, i, j) == i < j /\ t[j] = Closing /\ \A k \in i + 1 .. j - 1 : t[k] \in Letters

LEMMA ClosedIs ==
  ASSUME NEW t \in Text
  PROVE  Closed(t) <=> \A i \in 1..Len(t) : t[i] = Opening => \E j \in 1..Len(t) : ClosesAt(t, i, j)
<1>1. DOMAIN t = 1..Len(t)  BY TextIs
<1> QED BY <1>1 DEF Closed, ClosesAt

\* What follows a piece of a closed text is closed.
LEMMA ClosedTail ==
  ASSUME NEW u \in Text, NEW r \in Text, Closed(Joined(u, r))
  PROVE  Closed(r)
<1>1. PICK t \in Text : t = Joined(u, r) /\ Joins(t, u, r)  BY JoinedText
<1>2. Len(u) \in Nat /\ Len(r) \in Nat  BY TextIs
<1>3. Len(t) = Len(u) + Len(r)  BY <1>1 DEF Joins
<1>4. \A i \in 1..Len(t) : t[i] = Opening => \E j \in 1..Len(t) : ClosesAt(t, i, j)
  BY <1>1, ClosedIs
<1>5. ASSUME NEW i \in 1..Len(r), r[i] = Opening
      PROVE  \E j \in 1..Len(r) : ClosesAt(r, i, j)
  <2>1. Len(u) + i \in 1..Len(t)  BY <1>2, <1>3
  <2>2. t[Len(u) + i] = Opening  BY <1>1, <1>5 DEF Joins
  <2>3. PICK j \in 1..Len(t) : ClosesAt(t, Len(u) + i, j)  BY <2>1, <2>2, <1>4
  <2>4. PICK k \in 1..Len(r) : j = Len(u) + k /\ i < k
    <3>1. Len(u) + i < j  BY <2>3 DEF ClosesAt
    <3>2. j - Len(u) \in 1..Len(r) /\ j = Len(u) + (j - Len(u)) /\ i < j - Len(u)
      BY <3>1, <1>2, <1>3
    <3> QED BY <3>2
  <2>5. r[k] = Closing
    <3>1. t[Len(u) + k] = Closing  BY <2>3, <2>4 DEF ClosesAt
    <3> QED BY <3>1, <1>1, <2>4 DEF Joins
  <2>6. ASSUME NEW l \in i + 1 .. k - 1 PROVE r[l] \in Letters
    <3>1. Len(u) + l \in Len(u) + i + 1 .. j - 1 /\ l \in 1..Len(r)  BY <2>4, <1>2
    <3>2. t[Len(u) + l] \in Letters  BY <3>1, <2>3 DEF ClosesAt
    <3> QED BY <3>1, <3>2, <1>1 DEF Joins
  <2> QED BY <2>4, <2>5, <2>6 DEF ClosesAt
<1> QED BY <1>5, ClosedIs

\* Closed texts, one after the other, are closed.
LEMMA ClosedJoined ==
  ASSUME NEW a \in ClosedTexts, NEW b \in ClosedTexts
  PROVE  Joined(a, b) \in ClosedTexts
<1>1. a \in Text /\ Closed(a) /\ b \in Text /\ Closed(b)  BY DEF ClosedTexts
<1>2. PICK t \in Text : t = Joined(a, b) /\ Joins(t, a, b)  BY <1>1, JoinedText
<1>3. Len(a) \in Nat /\ Len(b) \in Nat  BY <1>1, TextIs
<1>4. Len(t) = Len(a) + Len(b)  BY <1>2 DEF Joins
<1>5. \A i \in 1..Len(a) : a[i] = Opening => \E j \in 1..Len(a) : ClosesAt(a, i, j)
  BY <1>1, ClosedIs
<1>6. \A i \in 1..Len(b) : b[i] = Opening => \E j \in 1..Len(b) : ClosesAt(b, i, j)
  BY <1>1, ClosedIs
<1>7. ASSUME NEW i \in 1..Len(t), t[i] = Opening
      PROVE  \E j \in 1..Len(t) : ClosesAt(t, i, j)
  <2>1. CASE i <= Len(a)
    <3>1. i \in 1..Len(a)  BY <2>1, <1>3, <1>4
    <3>2. a[i] = Opening  BY <3>1, <1>2, <1>7 DEF Joins
    <3>3. PICK j \in 1..Len(a) : ClosesAt(a, i, j)  BY <3>1, <3>2, <1>5
    <3>4. j \in 1..Len(t) /\ i < j  BY <3>3, <1>3, <1>4 DEF ClosesAt
    <3>5. t[j] = Closing  BY <3>3, <1>2 DEF Joins, ClosesAt
    <3>6. ASSUME NEW k \in i + 1 .. j - 1 PROVE t[k] \in Letters
      <4>1. k \in 1..Len(a)  BY <3>1, <3>3, <1>3
      <4>2. a[k] \in Letters  BY <3>3 DEF ClosesAt
      <4> QED BY <4>1, <4>2, <1>2 DEF Joins
    <3> QED BY <3>4, <3>5, <3>6 DEF ClosesAt
  <2>2. CASE i > Len(a)
    <3>1. PICK l \in 1..Len(b) : i = Len(a) + l
      <4>1. i - Len(a) \in 1..Len(b) /\ i = Len(a) + (i - Len(a))  BY <2>2, <1>3, <1>4
      <4> QED BY <4>1
    <3>2. b[l] = Opening  BY <3>1, <1>2, <1>7 DEF Joins
    <3>3. PICK j \in 1..Len(b) : ClosesAt(b, l, j)  BY <3>1, <3>2, <1>6
    <3>4. Len(a) + j \in 1..Len(t) /\ i < Len(a) + j  BY <3>1, <3>3, <1>3, <1>4 DEF ClosesAt
    <3>5. t[Len(a) + j] = Closing  BY <3>3, <1>2 DEF Joins, ClosesAt
    <3>6. ASSUME NEW k \in i + 1 .. Len(a) + j - 1 PROVE t[k] \in Letters
      <4>1. PICK m \in l + 1 .. j - 1 : k = Len(a) + m /\ m \in 1..Len(b)
        <5>1. k - Len(a) \in l + 1 .. j - 1 /\ k = Len(a) + (k - Len(a)) /\ k - Len(a) \in 1..Len(b)
          BY <3>1, <3>3, <1>3
        <5> QED BY <5>1
      <4>2. b[m] \in Letters  BY <3>3, <4>1 DEF ClosesAt
      <4> QED BY <4>1, <4>2, <1>2 DEF Joins
    <3> QED BY <3>4, <3>5, <3>6 DEF ClosesAt
  <2> QED BY <2>1, <2>2, <1>3
<1>8. Closed(t)  BY <1>7, ClosedIs
<1> QED BY <1>2, <1>8 DEF ClosedTexts

\* What Expand leaves as it is: symbols, and references to what it does not know.
Others == {<<x>> : x \in Symbols \ {Opening}} \cup {Placeholder(w) : w \in Seq(Letters) \ Names}

LEMMA PlaceholderClosed ==
  ASSUME NEW w \in Seq(Letters)
  PROVE  Placeholder(w) \in ClosedTexts
<1>1. w \in Text  BY LettersAreText
<1>2. PICK p \in Text : p = Placeholder(w) /\ Delimits(p, w)  BY <1>1, PlaceholderIs
<1>3. Len(w) \in Nat /\ Len(p) = Len(w) + 2 /\ p[Len(w) + 2] = Closing
  BY <1>1, <1>2, TextIs DEF Delimits
<1>4. ASSUME NEW k \in 2 .. Len(w) + 1 PROVE p[k] \in Letters
  <2>1. PICK i \in 1..Len(w) : k = i + 1
    <3>1. k - 1 \in 1..Len(w) /\ k = (k - 1) + 1  BY <1>3
    <3> QED BY <3>1
  <2>2. w[i] \in Letters  BY <2>1, ElementOfSeq
  <2> QED BY <2>1, <2>2, <1>2 DEF Delimits
<1>5. ASSUME NEW i \in 1..Len(p), p[i] = Opening
      PROVE  \E j \in 1..Len(p) : ClosesAt(p, i, j)
  <2>1. Len(w) + 2 \in 1..Len(p) /\ Len(w) + 2 - 1 = Len(w) + 1  BY <1>3
  <2>2. i < Len(w) + 2
    <3>1. Opening # Closing  BY DEF Opening, Closing
    <3>2. i # Len(w) + 2  BY <3>1, <1>3, <1>5
    <3> QED BY <3>2, <1>3
  <2>3. ASSUME NEW k \in i + 1 .. Len(w) + 2 - 1 PROVE p[k] \in Letters
    <3>1. k \in 2 .. Len(w) + 1  BY <1>3
    <3> QED BY <3>1, <1>4
  <2> QED BY <2>1, <2>2, <2>3, <1>3 DEF ClosesAt
<1>6. Closed(p)  BY <1>5, ClosedIs
<1> QED BY <1>2, <1>6 DEF ClosedTexts

LEMMA PlainClosed ==
  ASSUME NEW q \in Seq(Symbols \ {Opening})
  PROVE  q \in ClosedTexts
<1>1. q \in Text
  <2>1. Symbols \ {Opening} \subseteq Symbols  OBVIOUS
  <2> QED BY <2>1, SeqMonotonic DEF Text
<1>2. \A i \in 1..Len(q) : q[i] # Opening  BY ElementOfSeq
<1> QED BY <1>1, <1>2, ClosedIs DEF ClosedTexts

LEMMA EmptyClosed == <<>> \in ClosedTexts
BY EmptySeq, PlainClosed

LEMMA SymbolIsPlain ==
  ASSUME NEW x \in Symbols \ {Opening}
  PROVE  <<x>> \in Seq(Symbols \ {Opening})
OBVIOUS

LEMMA OtherIs ==
  ASSUME NEW u \in Others
  PROVE  u \in ClosedTexts /\ u \in Text /\ Len(u) \in Nat \ {0}
<1>1. CASE u \in {<<x>> : x \in Symbols \ {Opening}}
  <2>1. PICK x \in Symbols \ {Opening} : u = <<x>>  BY <1>1
  <2>2. u \in ClosedTexts  BY <2>1, SymbolIsPlain, PlainClosed
  <2>3. u \in Text /\ Len(u) = 1  BY <2>1, SymbolIsText
  <2> QED BY <2>2, <2>3
<1>2. CASE u \in {Placeholder(w) : w \in Seq(Letters) \ Names}
  <2>1. PICK w \in Seq(Letters) : u = Placeholder(w)  BY <1>2
  <2>2. u \in ClosedTexts  BY <2>1, PlaceholderClosed
  <2>3. w \in Text /\ Len(w) \in Nat  BY <2>1, LettersAreText, TextIs
  <2>4. u \in Text /\ Len(u) = Len(w) + 2  BY <2>1, <2>3, PlaceholderIs DEF Delimits
  <2> QED BY <2>2, <2>3, <2>4
<1> QED BY <1>1, <1>2 DEF Others

LEMMA PlaceholderSplits ==
  ASSUME NEW w \in Text
  PROVE  Placeholder(w) = Joined(<<Opening>>, Joined(w, <<Closing>>))
<1>1. Opening \in Symbols /\ Closing \in Symbols  BY VariablesAssumption
<1>2. <<Opening>> \in Text /\ <<Closing>> \in Text  BY <1>1, SymbolIsText
<1>3. Placeholder(w) = Joined(Joined(<<Opening>>, w), <<Closing>>)  BY DEF Placeholder, Joined
<1> QED BY <1>2, <1>3, TextAssoc

LEMMA ExpandOther ==
  ASSUME Names \subseteq Seq(Letters),
         NEW v \in [Names -> Text], NEW u \in Others, NEW r \in Text
  PROVE  Expand(Joined(u, r), v) = Joined(u, Expand(r, v))
<1>1. CASE u \in {<<x>> : x \in Symbols \ {Opening}}
  <2>1. PICK x \in Symbols \ {Opening} : u = <<x>>  BY <1>1
  <2> QED BY <2>1, SymbolIsPlain, ExpandPlain
<1>2. CASE u \in {Placeholder(w) : w \in Seq(Letters) \ Names}
  <2>1. PICK w \in Seq(Letters) : w \notin Names /\ u = Placeholder(w)  BY <1>2
  <2>2. w \in Text  BY <2>1, LettersAreText
  <2>3. Opening \in Symbols /\ Closing \in Symbols /\ Closing # Opening
    BY VariablesAssumption DEF Opening, Closing
  <2>4. PICK q \in Seq(Symbols \ {Opening}) : q \in Text /\ q = Joined(w, <<Closing>>)
    <3>1. Letters \subseteq Symbols \ {Opening}  BY DEF Letters
    <3>2. w \in Seq(Symbols \ {Opening})  BY <3>1, <2>1, SeqMonotonic
    <3>3. Closing \in Symbols \ {Opening}  BY <2>3
    <3>4. <<Closing>> \in Seq(Symbols \ {Opening})  BY <3>3, SymbolIsPlain
    <3>5. Joined(w, <<Closing>>) \in Seq(Symbols \ {Opening})  BY <3>2, <3>4, JoinedIs
    <3>6. Joined(w, <<Closing>>) \in Text  BY <3>5, PlainClosed DEF ClosedTexts
    <3> QED BY <3>5, <3>6
  <2>5. u = Joined(<<Opening>>, q)  BY <2>1, <2>2, <2>4, PlaceholderSplits
  <2>6. <<Opening>> \in Text  BY <2>3, SymbolIsText
  <2>7. PICK y \in Text : y = Joined(q, r)  BY <2>4, JoinedText
  <2>8. Joined(u, r) = Joined(<<Opening>>, y)  BY <2>4, <2>5, <2>6, <2>7, TextAssoc
  <2>9. ~Hit(Joined(<<Opening>>, y), 1)
    <3> SUFFICES ASSUME NEW n \in Names, OccursAt(Placeholder(n), Joined(Placeholder(w), r), 1)
                 PROVE  FALSE
      BY <2>1, <2>8 DEF Hit
    <3>1. n \in Seq(Letters)  OBVIOUS
    <3>2. n = w  BY <3>1, <2>1, OnePlaceholder
    <3> QED BY <3>2, <2>1
  <2>10. Expand(Joined(u, r), v) = Joined(<<Opening>>, Expand(y, v))
    BY <2>3, <2>7, <2>8, <2>9, ExpandMiss
  <2>11. PICK e \in Text : e = Expand(r, v)  BY ExpandTyped
  <2>12. Expand(y, v) = Joined(q, e)  BY <2>4, <2>7, <2>11, ExpandPlain
  <2>13. Joined(u, e) = Joined(<<Opening>>, Joined(q, e))
    <3>1. Joined(Joined(<<Opening>>, q), e) = Joined(<<Opening>>, Joined(q, e))
      BY <2>4, <2>6, <2>11, TextAssoc
    <3> QED BY <3>1, <2>5
  <2> QED BY <2>10, <2>11, <2>12, <2>13
<1> QED BY <1>1, <1>2 DEF Others

\* A closed text begins with a reference, or with what is not one.
LEMMA ClosedSplits ==
  ASSUME NEW t \in ClosedTexts, t # <<>>
  PROVE  \E u \in Others \cup {Placeholder(n) : n \in Names}, r \in ClosedTexts :
            t = Joined(u, r) /\ Len(r) < Len(t)
<1>1. t \in Text /\ Closed(t)  BY DEF ClosedTexts
<1>2. Len(t) \in Nat /\ Len(t) # 0 /\ t[1] \in Symbols
  <2>1. Len(t) \in Nat \ {0}  BY <1>1, EmptySeq DEF Text
  <2>2. 1 \in 1..Len(t)  BY <2>1
  <2> QED BY <2>1, <2>2, <1>1, TextIs
<1>3. ASSUME NEW u \in Text, Len(u) \in Nat \ {0}, NEW r \in Text, t = Joined(u, r)
      PROVE  r \in ClosedTexts /\ Len(r) < Len(t)
  <2>1. r \in ClosedTexts  BY <1>1, <1>3, ClosedTail DEF ClosedTexts
  <2>2. Len(t) = Len(u) + Len(r)  BY <1>3, JoinedText DEF Joins
  <2>3. Len(r) \in Nat  BY TextIs
  <2> QED BY <2>1, <2>2, <2>3, <1>3
<1>4. CASE t[1] # Opening
  <2>1. PICK r \in Text : t = Joined(<<t[1]>>, r)  BY <1>1, FirstSymbol DEF Text
  <2>2. PICK x \in Symbols \ {Opening} : x = t[1]  BY <1>2, <1>4
  <2>3. <<x>> \in Others  BY DEF Others
  <2>4. <<x>> \in Text /\ Len(<<x>>) \in Nat \ {0}  BY <2>3, OtherIs
  <2>5. t = Joined(<<x>>, r)  BY <2>1, <2>2
  <2>6. r \in ClosedTexts /\ Len(r) < Len(t)  BY <2>1, <2>4, <2>5, <1>3
  <2> QED BY <2>3, <2>5, <2>6
<1>5. CASE t[1] = Opening
  <2>1. PICK j \in 1..Len(t) : ClosesAt(t, 1, j)
    <3>1. 1 \in 1..Len(t)  BY <1>2
    <3> QED BY <3>1, <1>1, <1>5, ClosedIs
  <2>2. 1 < j /\ t[j] = Closing /\ \A k \in 2 .. j - 1 : t[k] \in Letters
    <3>1. 1 + 1 = 2  OBVIOUS
    <3> QED BY <3>1, <2>1 DEF ClosesAt
  <2>3. PICK w \in Seq(Letters) : Len(w) = j - 2 /\ \A i \in 1 .. j - 2 : w[i] = t[i + 1]
    <3> DEFINE s == SubSeq(t, 2, j - 1)
    <3>1. s \in Seq(Letters) /\ Len(s) = (IF 2 <= j - 1 THEN j - 1 - 2 + 1 ELSE 0)
          /\ \A i \in 1 .. j - 1 - 2 + 1 : s[i] = t[2 + i - 1]
      <4>1. 2 \in Int /\ j - 1 \in Int /\ \A i \in 2 .. j - 1 : t[i] \in Letters  BY <2>2
      <4> HIDE DEF s
      <4> QED BY <4>1, SubSeqProperties DEF s
    <3>2. Len(s) = j - 2  BY <3>1, <2>2
    <3>3. ASSUME NEW i \in 1 .. j - 2 PROVE s[i] = t[i + 1]
      <4>1. i \in 1 .. j - 1 - 2 + 1 /\ 2 + i - 1 = i + 1  BY <2>2
      <4> HIDE DEF s
      <4> QED BY <4>1, <3>1
    <3> HIDE DEF s
    <3> QED BY <3>1, <3>2, <3>3
  <2>4. w \in Text  BY <2>3, LettersAreText
  <2>5. PICK p \in Text : p = Placeholder(w) /\ Delimits(p, w)  BY <2>4, PlaceholderIs
  <2>6. Len(p) = j /\ p[1] = Opening /\ p[j] = Closing
    <3>1. Len(w) + 2 = j  BY <2>3
    <3> QED BY <3>1, <2>5 DEF Delimits
  <2>7. ASSUME NEW i \in 1..Len(p) PROVE t[i] = p[i]
    <3>1. CASE i = 1  BY <3>1, <2>6, <1>5
    <3>2. CASE i = j  BY <3>2, <2>6, <2>2
    <3>3. CASE i # 1 /\ i # j
      <4>1. i - 1 \in 1 .. j - 2 /\ i - 1 \in 1..Len(w) /\ (i - 1) + 1 = i
        BY <3>3, <2>3, <2>6
      <4>2. p[(i - 1) + 1] = w[i - 1]  BY <4>1, <2>5 DEF Delimits
      <4>3. w[i - 1] = t[(i - 1) + 1]  BY <4>1, <2>3
      <4> QED BY <4>1, <4>2, <4>3
    <3> QED BY <3>1, <3>2, <3>3
  <2>8. OccursAt(p, t, 1)
    <3>1. 1 + Len(p) - 1 <= Len(t)  BY <2>6, <1>2
    <3>2. ASSUME NEW i \in 1..Len(p) PROVE t[1 + i - 1] = p[i]
      <4>1. 1 + i - 1 = i  OBVIOUS
      <4> QED BY <4>1, <2>7
    <3>3. p \in Text /\ t \in Text /\ 1 \in Nat \ {0}  BY <1>1, <2>5
    <3>4. \A i \in 1..Len(p) : t[1 + i - 1] = p[i]  BY <3>2
    <3> QED BY <3>1, <3>3, <3>4, OccursAtIs
  <2>9. PICK r \in Text : t = Joined(p, r)  BY <2>5, <2>8, <1>1, FrontSplits
  <2>10. Len(p) \in Nat \ {0}  BY <2>6
  <2>11. r \in ClosedTexts /\ Len(r) < Len(t)  BY <2>5, <2>9, <2>10, <1>3
  <2>12. p \in Others \cup {Placeholder(n) : n \in Names}
    BY <2>3, <2>5 DEF Others
  <2> QED BY <2>9, <2>11, <2>12
<1> QED BY <1>4, <1>5

\* What holds of the empty text, and of a longer one when it holds of the one that
\* follows its first piece, holds of every closed text.
LEMMA EveryClosed ==
  ASSUME NEW D, <<>> \in D,
         \A r \in ClosedTexts, n \in Names : r \in D => Joined(Placeholder(n), r) \in D,
         \A r \in ClosedTexts, u \in Others : r \in D => Joined(u, r) \in D
  PROVE  \A t \in ClosedTexts : t \in D
<1>1. ASSUME NEW t \in ClosedTexts, \A r \in ClosedTexts : Len(r) < Len(t) => r \in D
      PROVE  t \in D
  <2>1. CASE t = <<>>  BY <2>1
  <2>2. CASE t # <<>>
    <3>1. PICK u \in Others \cup {Placeholder(n) : n \in Names}, r \in ClosedTexts :
            t = Joined(u, r) /\ Len(r) < Len(t)
      BY <2>2, ClosedSplits
    <3>2. r \in D  BY <3>1, <1>1
    <3>3. CASE u \in Others  BY <3>1, <3>2, <3>3
    <3>4. CASE u \in {Placeholder(n) : n \in Names}
      <4>1. PICK n \in Names : u = Placeholder(n)  BY <3>4
      <4> QED BY <4>1, <3>1, <3>2
    <3> QED BY <3>1, <3>3, <3>4
  <2> QED BY <2>1, <2>2
<1>2. ClosedTexts \in SUBSET Seq(Symbols)  BY DEF ClosedTexts, Text
<1> QED BY <1>1, <1>2, EveryText

LEMMA ClosedIsText == \A t \in ClosedTexts : t \in Text
BY DEF ClosedTexts

LEMMA NameIsText == \A n \in Names : n \in Text /\ Placeholder(n) \in Text
BY NamesTyped, VariablesAssumption

\* A closed text and what follows it are expanded one after the other.
LEMMA ExpandConcat ==
  ASSUME Names \subseteq Seq(Letters),
         NEW v \in [Names -> Text], NEW a \in ClosedTexts, NEW b \in Text
  PROVE  Expand(Joined(a, b), v) = Joined(Expand(a, v), Expand(b, v))
<1> DEFINE D == {t \in ClosedTexts : Expand(Joined(t, b), v) = Joined(Expand(t, v), Expand(b, v))}
<1>1. PICK e \in Text : e = Expand(b, v)  BY ExpandTyped
<1>2. <<>> \in D
  <2>1. Joined(<<>>, b) = b /\ Joined(<<>>, e) = e  BY <1>1, TextEmpty
  <2> QED BY <2>1, <1>1, EmptyClosed, ExpandEmpty
<1>3. ASSUME NEW r \in ClosedTexts, r \in D, NEW n \in Names
      PROVE  Joined(Placeholder(n), r) \in D
  <2>1. r \in Text /\ Placeholder(n) \in Text /\ v[n] \in Text  BY ClosedIsText, NameIsText
  <2>2. Joined(Placeholder(n), r) \in ClosedTexts  BY PlaceholderClosed, ClosedJoined
  <2>3. PICK y \in Text : y = Joined(r, b)  BY <2>1, JoinedText
  <2>4. PICK f \in Text : f = Expand(r, v)  BY <2>1, ExpandTyped
  <2>5. Joined(Joined(Placeholder(n), r), b) = Joined(Placeholder(n), y)
    BY <2>1, <2>3, TextAssoc
  <2>6. Expand(Joined(Placeholder(n), y), v) = Joined(v[n], Expand(y, v))  BY <2>3, ExpandHit
  <2>7. Expand(y, v) = Joined(f, e)  BY <1>1, <1>3, <2>3, <2>4
  <2>8. Expand(Joined(Placeholder(n), r), v) = Joined(v[n], f)  BY <2>1, <2>4, ExpandHit
  <2>9. Joined(Joined(v[n], f), e) = Joined(v[n], Joined(f, e))  BY <1>1, <2>1, <2>4, TextAssoc
  <2> QED BY <1>1, <2>2, <2>5, <2>6, <2>7, <2>8, <2>9
<1>4. ASSUME NEW r \in ClosedTexts, r \in D, NEW u \in Others
      PROVE  Joined(u, r) \in D
  <2>1. r \in Text /\ u \in Text /\ u \in ClosedTexts  BY ClosedIsText, OtherIs
  <2>2. Joined(u, r) \in ClosedTexts  BY <2>1, ClosedJoined
  <2>3. PICK y \in Text : y = Joined(r, b)  BY <2>1, JoinedText
  <2>4. PICK f \in Text : f = Expand(r, v)  BY <2>1, ExpandTyped
  <2>5. Joined(Joined(u, r), b) = Joined(u, y)  BY <2>1, <2>3, TextAssoc
  <2>6. Expand(Joined(u, y), v) = Joined(u, Expand(y, v))  BY <2>3, ExpandOther
  <2>7. Expand(y, v) = Joined(f, e)  BY <1>1, <1>4, <2>3, <2>4
  <2>8. Expand(Joined(u, r), v) = Joined(u, f)  BY <2>1, <2>4, ExpandOther
  <2>9. Joined(Joined(u, f), e) = Joined(u, Joined(f, e))  BY <1>1, <2>1, <2>4, TextAssoc
  <2> QED BY <1>1, <2>2, <2>5, <2>6, <2>7, <2>8, <2>9
<1>5. \A t \in ClosedTexts : t \in D
  <2> HIDE DEF D
  <2> QED BY <1>2, <1>3, <1>4, EveryClosed
<1> QED BY <1>5

\* Closed texts, with closed values put in, are closed.
LEMMA ExpandClosed ==
  ASSUME Names \subseteq Seq(Letters),
         NEW v \in [Names -> ClosedTexts], NEW a \in ClosedTexts
  PROVE  Expand(a, v) \in ClosedTexts
<1> DEFINE D == {t \in ClosedTexts : Expand(t, v) \in ClosedTexts}
<1>1. v \in [Names -> Text]  BY ClosedIsText
<1>2. <<>> \in D  BY <1>1, EmptyClosed, ExpandEmpty
<1>3. ASSUME NEW r \in ClosedTexts, r \in D, NEW n \in Names
      PROVE  Joined(Placeholder(n), r) \in D
  <2>1. r \in Text /\ v[n] \in ClosedTexts /\ Expand(r, v) \in ClosedTexts  BY <1>3, ClosedIsText
  <2>2. Joined(Placeholder(n), r) \in ClosedTexts  BY PlaceholderClosed, ClosedJoined
  <2>3. Expand(Joined(Placeholder(n), r), v) = Joined(v[n], Expand(r, v))  BY <1>1, <2>1, ExpandHit
  <2>4. Joined(v[n], Expand(r, v)) \in ClosedTexts  BY <2>1, ClosedJoined
  <2> QED BY <2>2, <2>3, <2>4
<1>4. ASSUME NEW r \in ClosedTexts, r \in D, NEW u \in Others
      PROVE  Joined(u, r) \in D
  <2>1. r \in Text /\ u \in ClosedTexts /\ Expand(r, v) \in ClosedTexts  BY <1>4, ClosedIsText, OtherIs
  <2>2. Joined(u, r) \in ClosedTexts  BY <2>1, ClosedJoined
  <2>3. Expand(Joined(u, r), v) = Joined(u, Expand(r, v))  BY <1>1, <2>1, ExpandOther
  <2>4. Joined(u, Expand(r, v)) \in ClosedTexts  BY <2>1, ClosedJoined
  <2> QED BY <2>2, <2>3, <2>4
<1>5. \A t \in ClosedTexts : t \in D
  <2> HIDE DEF D
  <2> QED BY <1>2, <1>3, <1>4, EveryClosed
<1> QED BY <1>5

-----------------------------------------------------------------------------
(* References.                                                             *)

\* t refers to the variable k.
Mentions(t, k) == Occurs(Placeholder(k), t)

LEMMA MentionsIs ==
  ASSUME NEW t \in Text, NEW k
  PROVE  Mentions(t, k) <=> \E i \in 1..Len(t) : OccursAt(Placeholder(k), t, i)
<1>1. DOMAIN t = 1..Len(t)  BY TextIs
<1> QED BY <1>1 DEF Mentions, Occurs

\* Where a reference to k is, and where it ends.
LEMMA MentionedAt ==
  ASSUME NEW t \in Text, NEW k \in Seq(Letters), NEW i \in Nat \ {0},
         OccursAt(Placeholder(k), t, i)
  PROVE  /\ i + Len(k) + 1 <= Len(t)
         /\ t[i] = Opening /\ t[i + Len(k) + 1] = Closing
         /\ \A j \in i + 1 .. i + Len(k) : t[j] \in Letters
<1>1. k \in Text  BY LettersAreText
<1>2. PICK p \in Text : p = Placeholder(k) /\ Delimits(p, k)  BY <1>1, PlaceholderIs
<1>3. Len(k) \in Nat /\ Len(p) = Len(k) + 2 /\ p[1] = Opening /\ p[Len(k) + 2] = Closing
  BY <1>1, <1>2, TextIs DEF Delimits
<1>4. OccursAt(p, t, i)  BY <1>2
<1>5. i + Len(p) - 1 <= Len(t) /\ \A j \in 1..Len(p) : t[i + j - 1] = p[j]
  BY <1>4, OccursAtIs
<1>6. i + Len(k) + 1 <= Len(t)
  <2>1. Len(t) \in Nat  BY TextIs
  <2> QED BY <2>1, <1>3, <1>5
<1>7. t[i] = Opening
  <2>1. 1 \in 1..Len(p) /\ i + 1 - 1 = i  BY <1>3
  <2> QED BY <2>1, <1>3, <1>5
<1>8. t[i + Len(k) + 1] = Closing
  <2>1. Len(k) + 2 \in 1..Len(p) /\ i + (Len(k) + 2) - 1 = i + Len(k) + 1  BY <1>3
  <2>2. t[i + (Len(k) + 2) - 1] = p[Len(k) + 2]  BY <2>1, <1>5
  <2> QED BY <2>1, <2>2, <1>3
<1>9. ASSUME NEW j \in i + 1 .. i + Len(k) PROVE t[j] \in Letters
  <2>1. PICK l \in 1..Len(k) : j = i + l
    <3>1. j - i \in 1..Len(k) /\ j = i + (j - i)  BY <1>3
    <3> QED BY <3>1
  <2>2. l + 1 \in 1..Len(p) /\ i + (l + 1) - 1 = j  BY <2>1, <1>3
  <2>3. t[i + (l + 1) - 1] = p[l + 1]  BY <2>2, <1>5
  <2>4. p[l + 1] = k[l]  BY <2>1, <1>2 DEF Delimits
  <2>5. k[l] \in Letters  BY <2>1, ElementOfSeq
  <2> QED BY <2>2, <2>3, <2>4, <2>5
<1> QED BY <1>6, <1>7, <1>8, <1>9

LEMMA MentionsEmpty == \A k : ~Mentions(<<>>, k)
BY EmptyText, MentionsIs

\* Where there is no "${" there are no references.
LEMMA MentionsPlain ==
  ASSUME NEW q \in Seq(Symbols \ {Opening}), NEW k \in Seq(Letters)
  PROVE  ~Mentions(q, k)
<1>1. q \in Text  BY PlainClosed, ClosedIsText
<1> SUFFICES ASSUME NEW i \in 1..Len(q), OccursAt(Placeholder(k), q, i) PROVE FALSE
  BY <1>1, MentionsIs
<1>2. i \in Nat \ {0}  BY <1>1, TextIs
<1>3. q[i] = Opening  BY <1>1, <1>2, MentionedAt
<1>4. q[i] \in Symbols \ {Opening}  BY ElementOfSeq
<1> QED BY <1>3, <1>4

\* A placeholder refers to its own variable only.
LEMMA MentionsPlaceholder ==
  ASSUME NEW w \in Seq(Letters), NEW k \in Seq(Letters)
  PROVE  Mentions(Placeholder(w), k) <=> w = k
<1>1. w \in Text  BY LettersAreText
<1>2. PICK p \in Text : p = Placeholder(w) /\ Delimits(p, w)  BY <1>1, PlaceholderIs
<1>3. Len(w) \in Nat /\ Len(p) = Len(w) + 2  BY <1>1, <1>2, TextIs DEF Delimits
<1>4. Joined(p, <<>>) = p  BY <1>2, TextEmpty
<1>5. ASSUME w = k PROVE Mentions(p, k)
  <2>1. OccursAt(p, Joined(p, <<>>), 1)  BY <1>2, EmptyText, OccursFront
  <2>2. 1 \in 1..Len(p)  BY <1>3
  <2> QED BY <2>1, <2>2, <1>2, <1>4, <1>5, MentionsIs
<1>6. ASSUME Mentions(p, k) PROVE w = k
  <2>1. PICK i \in 1..Len(p) : OccursAt(Placeholder(k), p, i)  BY <1>2, <1>6, MentionsIs
  <2>2. i \in Nat \ {0}  BY <1>3
  <2>3. p[i] = Opening  BY <1>2, <2>1, <2>2, MentionedAt
  <2>4. i = 1
    <3>1. i # Len(w) + 2
      <4>1. p[Len(w) + 2] = Closing /\ Opening # Closing  BY <1>2 DEF Delimits, Opening, Closing
      <4> QED BY <4>1, <2>3
    <3>2. ASSUME i # 1 PROVE FALSE
      <4>1. PICK l \in 1..Len(w) : i = l + 1
        <5>1. i - 1 \in 1..Len(w) /\ i = (i - 1) + 1  BY <3>1, <3>2, <1>3
        <5> QED BY <5>1
      <4>2. p[l + 1] = w[l] /\ w[l] \in Letters  BY <1>2, ElementOfSeq DEF Delimits
      <4> QED BY <4>1, <4>2, <2>3 DEF Letters
    <3> QED BY <3>2
  <2>5. OccursAt(Placeholder(k), Joined(Placeholder(w), <<>>), 1)  BY <2>1, <2>4, <1>2, <1>4
  <2> QED BY <2>5, EmptyText, OnePlaceholder
<1> QED BY <1>2, <1>5, <1>6

\* A reference does not begin in a closed text and end in the next one.
LEMMA MentionsJoined ==
  ASSUME NEW a \in ClosedTexts, NEW b \in Text, NEW k \in Seq(Letters)
  PROVE  Mentions(Joined(a, b), k) <=> Mentions(a, k) \/ Mentions(b, k)
<1>1. a \in Text /\ Closed(a) /\ k \in Text  BY LettersAreText DEF ClosedTexts
<1>2. PICK t \in Text : t = Joined(a, b) /\ Joins(t, a, b)  BY <1>1, JoinedText
<1>3. PICK p \in Text : p = Placeholder(k) /\ Delimits(p, k)  BY <1>1, PlaceholderIs
<1>4. Len(a) \in Nat /\ Len(b) \in Nat /\ Len(k) \in Nat  BY <1>1, TextIs
<1>5. Len(t) = Len(a) + Len(b) /\ Len(p) = Len(k) + 2  BY <1>2, <1>3 DEF Joins, Delimits
<1>6. \A i \in 1..Len(a) : t[i] = a[i]  BY <1>2 DEF Joins
<1>7. ASSUME NEW i \in 1..Len(b), OccursAt(p, b, i) PROVE Mentions(t, k)
  <2>1. i \in Nat \ {0}  BY <1>4
  <2>2. OccursAt(p, t, Len(a) + i)  BY <2>1, <1>1, <1>2, <1>3, <1>7, OccursShift
  <2>3. Len(a) + i \in 1..Len(t)  BY <1>4, <1>5
  <2> QED BY <2>2, <2>3, <1>2, <1>3, MentionsIs
<1>8. ASSUME NEW i \in 1..Len(a), OccursAt(p, a, i) PROVE Mentions(t, k)
  <2>1. i \in Nat \ {0}  BY <1>4
  <2>2. i + Len(p) - 1 <= Len(a) /\ \A j \in 1..Len(p) : a[i + j - 1] = p[j]
    BY <2>1, <1>1, <1>3, <1>8, OccursAtIs
  <2>3. ASSUME NEW j \in 1..Len(p) PROVE t[i + j - 1] = p[j]
    <3>1. i + j - 1 \in 1..Len(a)  BY <2>2, <1>4, <1>5
    <3> QED BY <3>1, <2>2, <1>6
  <2>4. i + Len(p) - 1 <= Len(t) /\ i \in 1..Len(t)  BY <2>2, <1>4, <1>5
  <2>5. OccursAt(p, t, i)  BY <2>1, <2>3, <2>4, <1>2, <1>3, OccursAtIs
  <2> QED BY <2>4, <2>5, <1>2, <1>3, MentionsIs
<1>9. ASSUME NEW i \in 1..Len(t), OccursAt(p, t, i), i > Len(a) PROVE Mentions(b, k)
  <2>1. PICK l \in 1..Len(b) : i = Len(a) + l
    <3>1. i - Len(a) \in 1..Len(b) /\ i = Len(a) + (i - Len(a))  BY <1>9, <1>4, <1>5
    <3> QED BY <3>1
  <2>2. l \in Nat \ {0}  BY <1>4
  <2>3. OccursAt(p, b, l)  BY <2>1, <2>2, <1>1, <1>2, <1>3, <1>9, OccursShift
  <2> QED BY <2>3, <1>3, MentionsIs
<1>10. ASSUME NEW i \in 1..Len(t), OccursAt(p, t, i), i <= Len(a) PROVE Mentions(a, k)
  <2>1. i \in Nat \ {0} /\ i \in 1..Len(a)  BY <1>10, <1>4, <1>5
  <2>2. /\ i + Len(k) + 1 <= Len(t)
        /\ t[i] = Opening /\ t[i + Len(k) + 1] = Closing
        /\ \A j \in i + 1 .. i + Len(k) : t[j] \in Letters
    BY <2>1, <1>2, <1>3, <1>10, MentionedAt
  <2>3. PICK j \in 1..Len(a) : ClosesAt(a, i, j)
    <3>1. a[i] = Opening  BY <2>1, <2>2, <1>6
    <3> QED BY <3>1, <2>1, <1>1, ClosedIs
  <2>4. i < j /\ a[j] = Closing /\ \A l \in i + 1 .. j - 1 : a[l] \in Letters  BY <2>3 DEF ClosesAt
  <2>5. Closing \notin Letters  BY DEF Letters
  <2>6. ~(j < i + Len(k) + 1)
    <3> SUFFICES ASSUME j < i + Len(k) + 1 PROVE FALSE
      OBVIOUS
    <3>1. j \in i + 1 .. i + Len(k)  BY <2>1, <2>4, <1>4
    <3>2. t[j] \in Letters  BY <3>1, <2>2
    <3> QED BY <3>2, <2>4, <2>5, <1>6
  <2>7. i + Len(k) + 1 <= Len(a)  BY <2>1, <2>6, <1>4
  <2>8. ASSUME NEW l \in 1..Len(p) PROVE a[i + l - 1] = p[l]
    <3>1. i + l - 1 \in 1..Len(a)  BY <2>1, <2>7, <1>4, <1>5
    <3>2. t[i + l - 1] = p[l]  BY <2>1, <1>2, <1>3, <1>10, OccursAtIs
    <3> QED BY <3>1, <3>2, <1>6
  <2>9. i + Len(p) - 1 <= Len(a)  BY <2>1, <2>7, <1>4, <1>5
  <2>10. OccursAt(p, a, i)  BY <2>1, <2>8, <2>9, <1>1, <1>3, OccursAtIs
  <2> QED BY <2>1, <2>10, <1>1, <1>3, MentionsIs
<1>11. Mentions(a, k) => Mentions(t, k)  BY <1>1, <1>3, <1>8, MentionsIs
<1>12. Mentions(b, k) => Mentions(t, k)  BY <1>3, <1>7, MentionsIs
<1>13. Mentions(t, k) => Mentions(a, k) \/ Mentions(b, k)
  <2> SUFFICES ASSUME NEW i \in 1..Len(t), OccursAt(p, t, i) PROVE Mentions(a, k) \/ Mentions(b, k)
    BY <1>2, <1>3, MentionsIs
  <2>1. i <= Len(a) \/ i > Len(a)  BY <1>4, <1>5
  <2> QED BY <2>1, <1>9, <1>10
<1> QED BY <1>2, <1>11, <1>12, <1>13

\* What Expand leaves as it is refers to no variable.
LEMMA MentionsOther ==
  ASSUME Names \subseteq Seq(Letters), NEW u \in Others, NEW k \in Names
  PROVE  ~Mentions(u, k)
<1>1. CASE u \in {<<x>> : x \in Symbols \ {Opening}}
  BY <1>1, SymbolIsPlain, MentionsPlain
<1>2. CASE u \in {Placeholder(w) : w \in Seq(Letters) \ Names}
  <2>1. PICK w \in Seq(Letters) : w \notin Names /\ u = Placeholder(w)  BY <1>2
  <2>2. k \in Seq(Letters)  OBVIOUS
  <2> QED BY <2>1, <2>2, MentionsPlaceholder
<1> QED BY <1>1, <1>2 DEF Others

LEMMA NamesArePlain ==
  ASSUME Names \subseteq Seq(Letters), NEW n \in Names, NEW r \in ClosedTexts
  PROVE  /\ Joined(Placeholder(n), r) \in ClosedTexts
         /\ \A k \in Names : Mentions(Joined(Placeholder(n), r), k) <=> n = k \/ Mentions(r, k)
<1>1. n \in Seq(Letters) /\ r \in Text /\ Placeholder(n) \in ClosedTexts
  BY PlaceholderClosed, ClosedIsText
<1>2. Joined(Placeholder(n), r) \in ClosedTexts  BY <1>1, ClosedJoined
<1>3. ASSUME NEW k \in Names
      PROVE  Mentions(Joined(Placeholder(n), r), k) <=> n = k \/ Mentions(r, k)
  <2>1. k \in Seq(Letters)  OBVIOUS
  <2>2. Mentions(Joined(Placeholder(n), r), k) <=> Mentions(Placeholder(n), k) \/ Mentions(r, k)
    BY <2>1, <1>1, MentionsJoined
  <2>3. Mentions(Placeholder(n), k) <=> n = k  BY <2>1, <1>1, MentionsPlaceholder
  <2> QED BY <2>2, <2>3
<1> QED BY <1>2, <1>3

LEMMA OthersArePlain ==
  ASSUME Names \subseteq Seq(Letters), NEW u \in Others, NEW r \in ClosedTexts
  PROVE  /\ Joined(u, r) \in ClosedTexts
         /\ \A k \in Names : Mentions(Joined(u, r), k) <=> Mentions(r, k)
<1>1. u \in ClosedTexts /\ r \in Text  BY OtherIs, ClosedIsText
<1>2. Joined(u, r) \in ClosedTexts  BY <1>1, ClosedJoined
<1>3. ASSUME NEW k \in Names PROVE Mentions(Joined(u, r), k) <=> Mentions(r, k)
  <2>1. k \in Seq(Letters)  OBVIOUS
  <2>2. Mentions(Joined(u, r), k) <=> Mentions(u, k) \/ Mentions(r, k)
    BY <2>1, <1>1, MentionsJoined
  <2> QED BY <2>2, MentionsOther
<1> QED BY <1>2, <1>3

\* A text without references to variables stays.
LEMMA ExpandSame ==
  ASSUME Names \subseteq Seq(Letters),
         NEW v \in [Names -> Text], NEW a \in ClosedTexts, \A k \in Names : ~Mentions(a, k)
  PROVE  Expand(a, v) = a
<1> DEFINE D == {t \in ClosedTexts : (\A k \in Names : ~Mentions(t, k)) => Expand(t, v) = t}
<1>1. <<>> \in D  BY EmptyClosed, ExpandEmpty
<1>2. ASSUME NEW r \in ClosedTexts, r \in D, NEW n \in Names
      PROVE  Joined(Placeholder(n), r) \in D
  BY NamesArePlain
<1>3. ASSUME NEW r \in ClosedTexts, r \in D, NEW u \in Others
      PROVE  Joined(u, r) \in D
  <2>1. Joined(u, r) \in ClosedTexts
        /\ \A k \in Names : Mentions(Joined(u, r), k) <=> Mentions(r, k)
    BY OthersArePlain
  <2>2. Expand(Joined(u, r), v) = Joined(u, Expand(r, v))  BY ClosedIsText, ExpandOther
  <2>3. (\A k \in Names : ~Mentions(r, k)) => Expand(r, v) = r  BY <1>3
  <2> QED BY <2>1, <2>2, <2>3
<1>4. \A t \in ClosedTexts : t \in D
  <2> HIDE DEF D
  <2> QED BY <1>1, <1>2, <1>3, EveryClosed
<1> QED BY <1>4

\* What an expanded text refers to is what the values of its references refer to.
LEMMA ExpandKnown ==
  ASSUME Names \subseteq Seq(Letters),
         NEW v \in [Names -> ClosedTexts], NEW a \in ClosedTexts, NEW k \in Names,
         Mentions(Expand(a, v), k)
  PROVE  \E m \in Names : Mentions(a, m) /\ Mentions(v[m], k)
<1> DEFINE D == {t \in ClosedTexts : Mentions(Expand(t, v), k) =>
                    \E m \in Names : Mentions(t, m) /\ Mentions(v[m], k)}
<1>1. v \in [Names -> Text] /\ k \in Seq(Letters)  BY ClosedIsText
<1>2. <<>> \in D  BY <1>1, EmptyClosed, ExpandEmpty, MentionsEmpty
<1>3. ASSUME NEW r \in ClosedTexts, r \in D, NEW n \in Names
      PROVE  Joined(Placeholder(n), r) \in D
  <2>1. Joined(Placeholder(n), r) \in ClosedTexts
        /\ \A l \in Names : Mentions(Joined(Placeholder(n), r), l) <=> n = l \/ Mentions(r, l)
    BY NamesArePlain
  <2>2. r \in Text /\ v[n] \in ClosedTexts /\ Expand(r, v) \in Text
    BY <1>1, ClosedIsText, ExpandTyped
  <2>3. Expand(Joined(Placeholder(n), r), v) = Joined(v[n], Expand(r, v))
    BY <1>1, <2>2, ExpandHit
  <2>4. Mentions(Joined(v[n], Expand(r, v)), k) <=> Mentions(v[n], k) \/ Mentions(Expand(r, v), k)
    BY <1>1, <2>2, MentionsJoined
  <2>5. Mentions(Expand(r, v), k) => \E m \in Names : Mentions(r, m) /\ Mentions(v[m], k)
    BY <1>3
  <2> QED BY <2>1, <2>3, <2>4, <2>5
<1>4. ASSUME NEW r \in ClosedTexts, r \in D, NEW u \in Others
      PROVE  Joined(u, r) \in D
  <2>1. Joined(u, r) \in ClosedTexts
        /\ \A l \in Names : Mentions(Joined(u, r), l) <=> Mentions(r, l)
    BY OthersArePlain
  <2>2. r \in Text /\ u \in ClosedTexts /\ Expand(r, v) \in Text
    BY <1>1, ClosedIsText, OtherIs, ExpandTyped
  <2>3. Expand(Joined(u, r), v) = Joined(u, Expand(r, v))
    BY <1>1, <2>2, ExpandOther
  <2>4. Mentions(Joined(u, Expand(r, v)), k) <=> Mentions(u, k) \/ Mentions(Expand(r, v), k)
    BY <1>1, <2>2, MentionsJoined
  <2>5. ~Mentions(u, k)  BY MentionsOther
  <2>6. Mentions(Expand(r, v), k) => \E m \in Names : Mentions(r, m) /\ Mentions(v[m], k)
    BY <1>4
  <2> QED BY <2>1, <2>3, <2>4, <2>5, <2>6
<1>5. \A t \in ClosedTexts : t \in D
  <2> HIDE DEF D
  <2> QED BY <1>2, <1>3, <1>4, EveryClosed
<1> QED BY <1>5

\* To put in the values, and then what they stand for, is to put in what they stand for.
LEMMA ExpandExpand ==
  ASSUME Names \subseteq Seq(Letters),
         NEW v \in [Names -> ClosedTexts], NEW s \in [Names -> Text], NEW a \in ClosedTexts,
         \A m \in Names : Mentions(a, m) => Expand(v[m], s) = s[m]
  PROVE  Expand(Expand(a, v), s) = Expand(a, s)
<1> DEFINE D == {t \in ClosedTexts : (\A m \in Names : Mentions(t, m) => Expand(v[m], s) = s[m])
                                        => Expand(Expand(t, v), s) = Expand(t, s)}
<1>1. v \in [Names -> Text]  BY ClosedIsText
<1>2. <<>> \in D  BY <1>1, EmptyClosed, ExpandEmpty
<1>3. ASSUME NEW r \in ClosedTexts, r \in D, NEW n \in Names
      PROVE  Joined(Placeholder(n), r) \in D
  <2>1. Joined(Placeholder(n), r) \in ClosedTexts
        /\ \A l \in Names : Mentions(Joined(Placeholder(n), r), l) <=> n = l \/ Mentions(r, l)
    BY NamesArePlain
  <2>2. r \in Text /\ v[n] \in ClosedTexts /\ Expand(r, v) \in Text
    BY <1>1, ClosedIsText, ExpandTyped
  <2>3. Expand(Joined(Placeholder(n), r), v) = Joined(v[n], Expand(r, v))
    BY <1>1, <2>2, ExpandHit
  <2>4. Expand(Joined(v[n], Expand(r, v)), s) = Joined(Expand(v[n], s), Expand(Expand(r, v), s))
    BY <2>2, ExpandConcat
  <2>5. Expand(Joined(Placeholder(n), r), s) = Joined(s[n], Expand(r, s))
    BY <2>2, ExpandHit
  <2>6. (\A m \in Names : Mentions(r, m) => Expand(v[m], s) = s[m])
           => Expand(Expand(r, v), s) = Expand(r, s)
    BY <1>3
  <2> QED BY <2>1, <2>3, <2>4, <2>5, <2>6
<1>4. ASSUME NEW r \in ClosedTexts, r \in D, NEW u \in Others
      PROVE  Joined(u, r) \in D
  <2>1. Joined(u, r) \in ClosedTexts
        /\ \A l \in Names : Mentions(Joined(u, r), l) <=> Mentions(r, l)
    BY OthersArePlain
  <2>2. r \in Text /\ Expand(r, v) \in Text  BY <1>1, ClosedIsText, ExpandTyped
  <2>3. Expand(Joined(u, r), v) = Joined(u, Expand(r, v))  BY <1>1, <2>2, ExpandOther
  <2>4. Expand(Joined(u, Expand(r, v)), s) = Joined(u, Expand(Expand(r, v), s))
    BY <2>2, ExpandOther
  <2>5. Expand(Joined(u, r), s) = Joined(u, Expand(r, s))  BY <2>2, ExpandOther
  <2>6. (\A m \in Names : Mentions(r, m) => Expand(v[m], s) = s[m])
           => Expand(Expand(r, v), s) = Expand(r, s)
    BY <1>4
  <2> QED BY <2>1, <2>3, <2>4, <2>5, <2>6
<1>5. \A t \in ClosedTexts : t \in D
  <2> HIDE DEF D
  <2> QED BY <1>2, <1>3, <1>4, EveryClosed
<1> QED BY <1>5

LEMMA LettersAreClosed == \A q \in Seq(Letters) : q \in ClosedTexts
<1>1. Letters \subseteq Symbols \ {Opening}  BY DEF Letters
<1> QED BY <1>1, SeqMonotonic, PlainClosed

\* Letters stay.
LEMMA ExpandLetters ==
  ASSUME Names \subseteq Seq(Letters), NEW v \in [Names -> Text], NEW q \in Seq(Letters)
  PROVE  Expand(q, v) = q /\ \A k \in Names : ~Mentions(q, k)
<1>1. Letters \subseteq Symbols \ {Opening}  BY DEF Letters
<1>2. q \in Seq(Symbols \ {Opening})  BY <1>1, SeqMonotonic
<1>3. \A k \in Names : ~Mentions(q, k)  BY <1>2, MentionsPlain
<1> QED BY <1>3, LettersAreClosed, ExpandSame

LEMMA JoinedLetters ==
  ASSUME NEW a \in Text, NEW b \in Text, Joined(a, b) \in Seq(Letters)
  PROVE  a \in Seq(Letters) /\ b \in Seq(Letters)
<1>1. PICK t \in Seq(Letters) : t = Joined(a, b) /\ Joins(t, a, b)  BY JoinedText
<1>2. Len(a) \in Nat /\ Len(b) \in Nat /\ Len(t) = Len(a) + Len(b)  BY <1>1, TextIs DEF Joins
<1>3. \A i \in 1..Len(t) : t[i] \in Letters  BY <1>1, ElementOfSeq
<1>4. ASSUME NEW i \in 1..Len(a) PROVE a[i] \in Letters
  <2>1. i \in 1..Len(t)  BY <1>2
  <2> QED BY <2>1, <1>1, <1>3 DEF Joins
<1>5. ASSUME NEW i \in 1..Len(b) PROVE b[i] \in Letters
  <2>1. Len(a) + i \in 1..Len(t)  BY <1>2
  <2> QED BY <2>1, <1>1, <1>3 DEF Joins
<1>6. a \in [1..Len(a) -> Letters] /\ b \in [1..Len(b) -> Letters]
  <2>1. a \in [1..Len(a) -> Symbols] /\ b \in [1..Len(b) -> Symbols]  BY LenProperties DEF Text
  <2> QED BY <2>1, <1>4, <1>5
<1> QED BY <1>2, <1>6, SeqDef

\* What is left of a text without its references.
Bare(t) == Expand(t, [n \in Names |-> <<>>])

\* Without delimiters before and in the values, without delimiters after.
LEMMA ExpandBare ==
  ASSUME Names \subseteq Seq(Letters),
         NEW v \in [Names -> ClosedTexts], \A m \in Names : Bare(v[m]) \in Seq(Letters),
         NEW a \in ClosedTexts, Bare(a) \in Seq(Letters)
  PROVE  Bare(Expand(a, v)) \in Seq(Letters)
<1> DEFINE D == {t \in ClosedTexts : Bare(t) \in Seq(Letters) => Bare(Expand(t, v)) \in Seq(Letters)}
           none == [n \in Names |-> <<>>]
<1>1. v \in [Names -> Text] /\ none \in [Names -> Text] /\ \A t : Bare(t) = Expand(t, none)
  BY ClosedIsText, EmptyText DEF Bare
<1>2. <<>> \in D  BY <1>1, EmptyClosed, ExpandEmpty
<1>3. ASSUME NEW r \in ClosedTexts, r \in D, NEW n \in Names
      PROVE  Joined(Placeholder(n), r) \in D
  <2>1. Joined(Placeholder(n), r) \in ClosedTexts  BY NamesArePlain
  <2>2. r \in Text /\ v[n] \in ClosedTexts /\ Expand(r, v) \in Text /\ Bare(r) \in Text
    BY <1>1, ClosedIsText, ExpandTyped
  <2>3. Expand(Joined(Placeholder(n), r), v) = Joined(v[n], Expand(r, v))
    BY <1>1, <2>2, ExpandHit
  <2>4. none[n] = <<>>  OBVIOUS
  <2> HIDE DEF none
  <2>5. Bare(Joined(v[n], Expand(r, v))) = Joined(Bare(v[n]), Bare(Expand(r, v)))
    BY <1>1, <2>2, ExpandConcat
  <2>6. Bare(Joined(Placeholder(n), r)) = Bare(r)
    <3>1. Expand(Joined(Placeholder(n), r), none) = Joined(none[n], Expand(r, none))
      BY <1>1, <2>2, ExpandHit
    <3>2. Bare(Joined(Placeholder(n), r)) = Joined(<<>>, Bare(r))  BY <3>1, <1>1, <2>4
    <3> QED BY <3>2, <2>2, TextEmpty
  <2>7. Bare(r) \in Seq(Letters) => Bare(Expand(r, v)) \in Seq(Letters)  BY <1>3
  <2>8. ASSUME Bare(r) \in Seq(Letters) PROVE Joined(Bare(v[n]), Bare(Expand(r, v))) \in Seq(Letters)
    <3>1. Bare(v[n]) \in Seq(Letters) /\ Bare(Expand(r, v)) \in Seq(Letters)  BY <2>7, <2>8
    <3> QED BY <3>1, JoinedIs
  <2> QED BY <2>1, <2>3, <2>5, <2>6, <2>8
<1>4. ASSUME NEW r \in ClosedTexts, r \in D, NEW u \in Others
      PROVE  Joined(u, r) \in D
  <2>1. Joined(u, r) \in ClosedTexts  BY OthersArePlain
  <2>2. r \in Text /\ u \in Text /\ Expand(r, v) \in Text /\ Bare(r) \in Text
    BY <1>1, ClosedIsText, OtherIs, ExpandTyped
  <2>3. Expand(Joined(u, r), v) = Joined(u, Expand(r, v))  BY <1>1, <2>2, ExpandOther
  <2> HIDE DEF none
  <2>4. Bare(Joined(u, Expand(r, v))) = Joined(u, Bare(Expand(r, v)))  BY <1>1, <2>2, ExpandOther
  <2>5. Bare(Joined(u, r)) = Joined(u, Bare(r))  BY <1>1, <2>2, ExpandOther
  <2>6. Bare(r) \in Seq(Letters) => Bare(Expand(r, v)) \in Seq(Letters)  BY <1>4
  <2>7. ASSUME Joined(u, Bare(r)) \in Seq(Letters)
        PROVE  Joined(u, Bare(Expand(r, v))) \in Seq(Letters)
    <3>1. u \in Seq(Letters) /\ Bare(r) \in Seq(Letters)  BY <2>2, <2>7, JoinedLetters
    <3> QED BY <3>1, <2>6, JoinedIs
  <2> QED BY <2>1, <2>3, <2>4, <2>5, <2>7
<1>5. \A t \in ClosedTexts : t \in D
  <2> HIDE DEF D
  <2> QED BY <1>2, <1>3, <1>4, EveryClosed
<1> QED BY <1>5

-----------------------------------------------------------------------------
(* The passes.                                                             *)

K == Cardinality(User)

LEMMA UserFinite == K \in Nat /\ IsFiniteSet(User) /\ MaxIterations = K + 1
<1>1. IsFiniteSet(User)  BY VariablesAssumption, FS_Subset
<1> QED BY <1>1, FS_CardinalityType DEF K, MaxIterations

\* n is in the sequence q.
Among(n, q) == \E i \in 1..Len(q) : q[i] = n

LEMMA AmongTail ==
  ASSUME NEW T, NEW q \in Seq(T), q # <<>>
  PROVE  /\ Head(q) \in T /\ Tail(q) \in Seq(T)
         /\ \A n : Among(n, q) <=> n = Head(q) \/ Among(n, Tail(q))
<1>1. Head(q) \in T /\ Tail(q) \in Seq(T) /\ Len(Tail(q)) = Len(q) - 1
      /\ \A i \in 1 .. Len(Tail(q)) : Tail(q)[i] = q[i + 1]
  BY HeadTailProperties
<1>2. Len(q) \in Nat /\ Len(q) # 0  BY EmptySeq
<1>3. Head(q) = q[1]  OBVIOUS
<1>4. ASSUME NEW n, Among(n, q) PROVE n = Head(q) \/ Among(n, Tail(q))
  <2>1. PICK i \in 1..Len(q) : q[i] = n  BY <1>4 DEF Among
  <2>2. CASE i = 1  BY <2>1, <2>2, <1>3
  <2>3. CASE i # 1
    <3>1. i - 1 \in 1..Len(Tail(q)) /\ (i - 1) + 1 = i  BY <2>3, <1>1, <1>2
    <3>2. Tail(q)[i - 1] = n  BY <3>1, <2>1, <1>1
    <3> QED BY <3>1, <3>2 DEF Among
  <2> QED BY <2>2, <2>3
<1>5. ASSUME NEW n, n = Head(q) \/ Among(n, Tail(q)) PROVE Among(n, q)
  <2>1. CASE n = Head(q)
    <3>1. 1 \in 1..Len(q) /\ q[1] = n  BY <2>1, <1>2, <1>3
    <3> QED BY <3>1 DEF Among
  <2>2. CASE Among(n, Tail(q))
    <3>1. PICK i \in 1..Len(Tail(q)) : Tail(q)[i] = n  BY <2>2 DEF Among
    <3>2. i + 1 \in 1..Len(q) /\ q[i + 1] = n  BY <3>1, <1>1, <1>2
    <3> QED BY <3>2 DEF Among
  <2> QED BY <1>5, <2>1, <2>2
<1> QED BY <1>1, <1>4, <1>5

\* The order of the map has every variable of the blueprint.
LEMMA OrderIs ==
  ASSUME NEW q \in SetToSeqs(User)
  PROVE  q \in Seq(User) /\ Len(q) = K /\ \A n \in User : Among(n, q)
<1>1. q \in [1..K -> User] /\ \A i, j \in 1..K : i # j => q[i] # q[j]  BY DEF SetToSeqs, K
<1>2. K \in Nat /\ IsFiniteSet(User)  BY UserFinite
<1>3. q \in Seq(User) /\ Len(q) = K  BY <1>1, <1>2
<1>4. q \in Injection(1..K, User)
  BY <1>1 DEF Injection, IsInjective
<1>5. IsFiniteSet(1..K) /\ Cardinality(1..K) = K
  BY <1>2, FS_Interval
<1>6. q \in Surjection(1..K, User)
  BY <1>2, <1>4, <1>5, FS_Injection DEF K
<1>7. \A n \in User : \E i \in 1..K : q[i] = n  BY <1>6 DEF Surjection
<1> QED BY <1>3, <1>7 DEF Among

\* What is left of a pass.
LEMMA TodoIs ==
  ASSUME TypeOK
  PROVE  todo \in Seq(User)
<1>1. PICK i \in 0..K : todo = SubSeq(order, i + 1, K)  BY DEF TypeOK, K
<1>2. order \in Seq(User) /\ Len(order) = K /\ K \in Nat  BY OrderIs, UserFinite DEF TypeOK
<1>3. \A j \in i + 1 .. K : order[j] \in User
  <2> SUFFICES ASSUME NEW j \in i + 1 .. K PROVE order[j] \in User
    OBVIOUS
  <2>1. j \in 1..Len(order)  BY <1>1, <1>2
  <2> QED BY <2>1, <1>2, ElementOfSeq
<1>4. i + 1 \in Int /\ K \in Int  BY <1>1, <1>2
<1> QED BY <1>1, <1>3, <1>4, SubSeqProperties

LEMMA ValuesTyped ==
  ASSUME TypeOK
  PROVE  /\ raw \in [User -> Text]
         /\ \A n \in Names, text \in Definitions : [resolved EXCEPT ![n] = Expand(text, resolved)] \in [Names -> Text]
         /\ \A n \in Names : [resolved EXCEPT ![n] = Expand(resolved[n], resolved)] \in [Names -> Text]
<1>1. resolved \in [Names -> Text] /\ raw \in [User -> Definitions]  BY DEF TypeOK
<1>2. raw \in [User -> Text]  BY <1>1, VariablesAssumption
<1>3. ASSUME NEW n \in Names, NEW text \in Text
      PROVE  [resolved EXCEPT ![n] = Expand(text, resolved)] \in [Names -> Text]
  <2>1. Expand(text, resolved) \in Text  BY <1>1, ExpandTyped
  <2> QED BY <2>1, <1>1
<1>4. \A text \in Definitions : text \in Text  BY VariablesAssumption
<1>5. \A n \in Names : resolved[n] \in Text  BY <1>1
<1> QED BY <1>2, <1>3, <1>4, <1>5

LEMMA TypeInit == Init => TypeOK
<1> SUFFICES ASSUME Init PROVE TypeOK
  OBVIOUS
<1>1. raw \in [User -> Definitions] /\ order \in SetToSeqs(User) /\ todo = order
      /\ passes = 1 /\ changed = FALSE /\ verdict = "none"
  BY DEF Init
<1>2. resolved \in [Names -> Text]
  BY <1>1, VariablesAssumption DEF Init
<1>3. \E i \in 0 .. Cardinality(User) : todo = SubSeq(order, i + 1, Cardinality(User))
  <2>1. order \in Seq(User) /\ Len(order) = K /\ K \in Nat  BY <1>1, OrderIs, UserFinite
  <2>2. SubSeq(order, 1, K) = order  BY <2>1, SubSeqFull
  <2>3. 0 \in 0..K /\ 0 + 1 = 1  BY <2>1
  <2> QED BY <2>2, <2>3, <1>1 DEF K
<1>4. passes \in 1 .. MaxIterations + 1  BY <1>1, UserFinite
<1> QED BY <1>1, <1>2, <1>3, <1>4 DEF TypeOK

LEMMA TypeNext == TypeOK /\ [Next]_vars => TypeOK'
<1> SUFFICES ASSUME TypeOK, [Next]_vars PROVE TypeOK'
  OBVIOUS
<1>1. K \in Nat /\ MaxIterations = K + 1  BY UserFinite
<1>2. CASE ExpandNext
  <2>1. todo \in Seq(User) /\ todo # <<>>  BY <1>2, TodoIs DEF ExpandNext
  <2>2. Head(todo) \in Names  BY <2>1, HeadTailProperties, VariablesAssumption
  <2>3. resolved' \in [Names -> Text]  BY <1>2, <2>2, ValuesTyped DEF ExpandNext
  <2>4. \E i \in 0 .. Cardinality(User) : todo' = SubSeq(order, i + 1, Cardinality(User))
    <3>1. PICK i \in 0..K : todo = SubSeq(order, i + 1, K)  BY DEF TypeOK, K
    <3>2. order \in Seq(User) /\ Len(order) = K  BY OrderIs DEF TypeOK
    <3>3. i < K
      <4>1. i = K => SubSeq(order, i + 1, K) = <<>>  BY <1>1, <3>1, SubSeqEmpty
      <4> QED BY <4>1, <3>1, <2>1, <1>1
    <3>4. i + 1 \in 1..Len(order) /\ K \in i + 1 .. Len(order) /\ i + 1 \in 0..K
      BY <3>2, <3>3, <1>1, <3>1
    <3>5. Tail(SubSeq(order, i + 1, K)) = SubSeq(order, (i + 1) + 1, K)
      BY <3>2, <3>4, HeadTailOfSubSeq
    <3>6. todo' = SubSeq(order, (i + 1) + 1, K)  BY <3>1, <3>5, <1>2 DEF ExpandNext
    <3> QED BY <3>4, <3>6 DEF K
  <2>5. changed' \in BOOLEAN  BY <1>2 DEF ExpandNext, TypeOK
  <2>6. UNCHANGED <<raw, order, passes, verdict>>  BY <1>2 DEF ExpandNext
  <2> QED BY <2>3, <2>4, <2>5, <2>6 DEF TypeOK
<1>3. CASE EndPass
  <2>1. UNCHANGED <<raw, order, resolved>> /\ changed' \in BOOLEAN
        /\ verdict' \in {"none", "true", "false", "overridden"}
    BY <1>3 DEF EndPass, TypeOK
  <2>2. passes' \in 1 .. MaxIterations + 1  BY <1>1, <1>3 DEF EndPass, TypeOK
  <2>3. \E i \in 0 .. Cardinality(User) : todo' = SubSeq(order, i + 1, Cardinality(User))
    <3>1. todo' = todo \/ todo' = order  BY <1>3 DEF EndPass
    <3>2. SubSeq(order, 0 + 1, K) = order  BY OrderIs, SubSeqFull DEF TypeOK
    <3>3. 0 \in 0..K  BY <1>1
    <3> QED BY <3>1, <3>2, <3>3 DEF TypeOK, K
  <2> QED BY <2>1, <2>2, <2>3 DEF TypeOK
<1>4. CASE GiveUp
  BY <1>4 DEF GiveUp, TypeOK
<1>5. ASSUME NEW n \in Names, NEW text \in Definitions, SetOverride(n, text)
      PROVE  TypeOK'
  <2>1. resolved' \in [Names -> Text]  BY <1>5, ValuesTyped DEF SetOverride
  <2>2. UNCHANGED <<raw, order, todo, passes, changed>> /\ verdict' = "overridden"
    BY <1>5 DEF SetOverride
  <2> QED BY <2>1, <2>2 DEF TypeOK
<1>6. CASE UNCHANGED vars
  BY <1>6 DEF vars, TypeOK
<1> QED BY <1>2, <1>3, <1>4, <1>5, <1>6 DEF Next

\* There are never more passes than the code allows itself, and a pass takes the
\* variables one by one (the loops of resolve_user_variables).
THEOREM VariablesTypeOK == Spec => []TypeOK
BY TypeInit, TypeNext, PTL DEF Spec

-----------------------------------------------------------------------------
(* Variables without a cycle.                                              *)

\* rank falls along references between the variables of the blueprint.
Ranks(rank) == \A m, n \in User : RefersTo(m, n) => rank[n] < rank[m]

Height(rank, n) == IF n \in User THEN rank[n] ELSE 0

\* 1 once this pass has expanded n.
Due(n) == IF Among(n, todo) THEN 0 ELSE 1

\* A reference that is left falls by at least one more with every pass.
Falls(rank) ==
    \A n \in User, m \in Names :
        Mentions(resolved[n], m) => Height(rank, m) + passes + Due(n) <= rank[n]

\* s gives every name what the texts v ask for.
Fix(v, s) == \A n \in Names : s[n] = Expand(v[n], s)

Raw == [n \in Names |-> IF n \in User THEN raw[n] ELSE Builtin[n]]

\* What holds while the passes go on.
Passing(rank) ==
    /\ Falls(rank)
    /\ passes = K + 1 => ~changed
    /\ \A s \in [Names -> Text] : Fix(resolved, s) => Fix(Raw, s)
    /\ ~changed => \A n \in User : ~Among(n, todo) => Expand(resolved[n], resolved) = resolved[n]
    /\ \A n \in Names \ User : resolved[n] = Builtin[n]

Settled ==
    /\ \A n \in User : resolved[n] = Expand(raw[n], resolved)
    /\ \A n, m \in Names : ~Mentions(resolved[n], m)

Resolving(rank) ==
    /\ verdict # "false" /\ passes <= K + 1
    /\ verdict = "none" => Passing(rank)
    /\ verdict \in {"none", "true"} => resolved \in [Names -> ClosedTexts]
    /\ verdict = "true" => Settled

LEMMA HeightIs ==
  ASSUME NEW rank \in [User -> 1..K], NEW m \in Names
  PROVE  Height(rank, m) \in Nat /\ Due(m) \in {0, 1}
<1>1. K \in Nat  BY UserFinite
<1>2. m \in User => rank[m] \in Nat  BY <1>1
<1> QED BY <1>2 DEF Height, Due

\* A reference is to a variable of the blueprint that ranks lower.
LEMMA FallsIs ==
  ASSUME TypeOK, NEW rank \in [User -> 1..K], Falls(rank),
         NEW n \in User, NEW m \in Names, Mentions(resolved[n], m)
  PROVE  /\ Height(rank, m) + passes + Due(n) <= rank[n]
         /\ Height(rank, m) < rank[n] /\ m # n /\ passes < K + 1
<1>1. K \in Nat /\ rank[n] \in Nat /\ rank[n] <= K  BY UserFinite
<1>2. passes \in Nat /\ passes >= 1  BY UserFinite DEF TypeOK
<1>3. Height(rank, m) \in Nat  BY HeightIs
<1>4. Due(n) \in {0, 1}  BY DEF Due
<1>5. Height(rank, m) + passes + Due(n) <= rank[n]  BY DEF Falls
<1>6. m = n => Height(rank, m) = rank[n]  BY DEF Height
<1> QED BY <1>1, <1>2, <1>3, <1>4, <1>5, <1>6

\* Built-in values refer to nothing.
LEMMA BuiltinPlain ==
  ASSUME WellFormed, TypeOK, NEW rank, Passing(rank), NEW n \in Names \ User
  PROVE  Expand(resolved[n], resolved) = resolved[n] /\ \A m \in Names : ~Mentions(resolved[n], m)
<1>1. resolved[n] = Builtin[n]  BY DEF Passing
<1>2. Builtin[n] \in Seq(Symbols \ {Opening})
  <2>1. n \in DOMAIN Builtin  BY VariablesAssumption
  <2> QED BY <2>1 DEF WellFormed
<1>3. Names \subseteq Seq(Letters) /\ resolved \in [Names -> Text]  BY DEF WellFormed, TypeOK
<1>4. \A m \in Names : ~Mentions(Builtin[n], m)
  <2> SUFFICES ASSUME NEW m \in Names PROVE ~Mentions(Builtin[n], m)
    OBVIOUS
  <2>1. m \in Seq(Letters)  BY <1>3
  <2> QED BY <2>1, <1>2, MentionsPlain
<1>5. Builtin[n] \in ClosedTexts  BY <1>2, PlainClosed
<1>6. Expand(Builtin[n], resolved) = Builtin[n]  BY <1>3, <1>4, <1>5, ExpandSame
<1> QED BY <1>1, <1>4, <1>6

LEMMA ResolvingInit ==
  ASSUME WellFormed, Init, NEW rank \in [User -> 1..K], Ranks(rank)
  PROVE  Resolving(rank)
<1>1. raw \in [User -> Definitions] /\ order \in SetToSeqs(User) /\ todo = order
      /\ passes = 1 /\ changed = FALSE /\ verdict = "none"
      /\ resolved = [n \in Names |-> IF n \in User THEN raw[n] ELSE Builtin[n]]
  BY DEF Init
<1>2. K \in Nat  BY UserFinite
<1>3. \A n \in User : Among(n, todo)  BY <1>1, OrderIs
<1>4. User \subseteq Names /\ Builtin \in [Names \ User -> Text]  BY VariablesAssumption
<1>5. resolved \in [Names -> ClosedTexts]
  <2>1. \A n \in User : raw[n] \in ClosedTexts
    BY <1>1, VariablesAssumption DEF WellFormed, ClosedTexts
  <2>2. \A n \in Names \ User : Builtin[n] \in ClosedTexts
    BY <1>4, PlainClosed DEF WellFormed
  <2> QED BY <2>1, <2>2, <1>1
<1>6. Falls(rank)
  <2> SUFFICES ASSUME NEW n \in User, NEW m \in Names, Mentions(resolved[n], m)
               PROVE  Height(rank, m) + passes + Due(n) <= rank[n]
    BY DEF Falls
  <2>1. rank[n] \in 1..K /\ passes = 1 /\ Due(n) = 0  BY <1>1, <1>3 DEF Due
  <2>2. resolved[n] = raw[n]  BY <1>1, <1>4
  <2>3. CASE m \in User
    <3>1. RefersTo(n, m)  BY <2>2 DEF RefersTo, Mentions
    <3>2. rank[m] < rank[n] /\ rank[m] \in 1..K  BY <2>3, <3>1 DEF Ranks
    <3> QED BY <2>1, <2>3, <3>2, <1>2 DEF Height
  <2>4. CASE m \notin User
    BY <2>1, <2>4, <1>2 DEF Height
  <2> QED BY <2>3, <2>4
<1>7. resolved = Raw  BY <1>1 DEF Raw
<1>8. passes <= K + 1 /\ ~changed  BY <1>1, <1>2
<1>9. \A n \in Names \ User : resolved[n] = Builtin[n]  BY <1>1
<1>10. Passing(rank)  BY <1>3, <1>6, <1>7, <1>8, <1>9 DEF Passing
<1> QED BY <1>1, <1>5, <1>8, <1>10 DEF Resolving

\* One variable is expanded in place.
LEMMA ResolvingExpand ==
  ASSUME WellFormed, TypeOK, NEW rank \in [User -> 1..K], Resolving(rank), ExpandNext
  PROVE  Resolving(rank)'
<1>1. verdict = "none" /\ Passing(rank) /\ passes <= K + 1 /\ resolved \in [Names -> ClosedTexts]
  BY DEF ExpandNext, Resolving
<1>2. todo \in Seq(User) /\ todo # <<>> /\ resolved \in [Names -> Text] /\ passes \in Nat /\ K \in Nat
  <2>1. todo \in Seq(User) /\ todo # <<>>  BY TodoIs DEF ExpandNext
  <2>2. resolved \in [Names -> Text]  BY DEF TypeOK
  <2>3. passes \in Nat /\ K \in Nat  BY UserFinite DEF TypeOK
  <2> QED BY <2>1, <2>2, <2>3
<1>3. PICK n \in User : n = Head(todo)  BY <1>2, AmongTail
<1>4. n \in Names /\ User \subseteq Names /\ Names \subseteq Seq(Letters)
  BY VariablesAssumption DEF WellFormed
<1>5. \A a : Among(a, todo) <=> a = n \/ Among(a, todo')
  <2>1. todo' = Tail(todo)  BY DEF ExpandNext
  <2> QED BY <2>1, <1>2, <1>3, AmongTail
<1>6. PICK text \in ClosedTexts : text = Expand(resolved[n], resolved)
  <2>1. resolved[n] \in ClosedTexts  BY <1>1, <1>4
  <2> QED BY <2>1, <1>1, <1>4, ExpandClosed
<1>7. /\ resolved' = [resolved EXCEPT ![n] = text]
      /\ changed' = (changed \/ text # resolved[n])
      /\ UNCHANGED <<raw, passes, verdict>>
  BY <1>3, <1>6 DEF ExpandNext
<1>8. resolved' \in [Names -> ClosedTexts]  BY <1>1, <1>6, <1>7
<1>9. resolved'[n] = text /\ \A a \in Names : a # n => resolved'[a] = resolved[a]
  BY <1>1, <1>4, <1>7
<1>10. Falls(rank)  BY <1>1 DEF Passing
<1>11. Falls(rank)'
  <2> SUFFICES ASSUME NEW a \in User, NEW m \in Names, Mentions(resolved'[a], m)
               PROVE  Height(rank, m) + passes' + Due(a)' <= rank[a]
    BY DEF Falls, Height, Mentions
  <2>1. passes' = passes  BY <1>7
  <2>2. CASE a = n
    <3>1. Mentions(Expand(resolved[n], resolved), m)  BY <2>2, <1>6, <1>9
    <3>2. PICK k \in Names : Mentions(resolved[n], k) /\ Mentions(resolved[k], m)
      <4>1. resolved[n] \in ClosedTexts  BY <1>1, <1>4
      <4> QED BY <4>1, <3>1, <1>1, <1>4, ExpandKnown
    <3>3. k \in User  BY <3>2, <1>1, BuiltinPlain
    <3>4. Height(rank, k) + passes + Due(n) <= rank[n]  BY <3>2, <1>10, FallsIs
    <3>5. Height(rank, m) + passes + Due(k) <= rank[k]  BY <3>2, <3>3, <1>10, FallsIs
    <3>6. Height(rank, k) = rank[k]  BY <3>3 DEF Height
    <3>7. Due(n) = 0  BY <1>5 DEF Due
    <3>8. Due(a)' \in {0, 1} /\ Due(k) \in {0, 1}  BY DEF Due
    <3>9. Height(rank, m) \in Nat /\ rank[n] \in Nat /\ rank[k] \in Nat
      <4>1. rank[n] \in 1..K /\ rank[k] \in 1..K  BY <3>3
      <4> QED BY <4>1, <1>2, HeightIs
    <3>10. passes >= 1  BY DEF TypeOK
    <3> HIDE DEF Due, Height
    <3> QED BY <2>1, <2>2, <3>4, <3>5, <3>6, <3>7, <3>8, <3>9, <3>10, <1>2
  <2>3. CASE a # n
    <3>1. Mentions(resolved[a], m)  BY <2>3, <1>4, <1>9
    <3>2. Height(rank, m) + passes + Due(a) <= rank[a]  BY <3>1, <1>10, FallsIs
    <3>3. Due(a)' = Due(a)  BY <2>3, <1>5 DEF Due
    <3> QED BY <3>2, <3>3, <2>1
  <2> QED BY <2>2, <2>3
<1>12. passes' = K + 1 => ~changed'
  <2> SUFFICES ASSUME passes = K + 1 PROVE ~changed'
    BY <1>7
  <2>1. ~changed  BY <1>1 DEF Passing
  <2>2. \A m \in Names : ~Mentions(resolved[n], m)
    <3> SUFFICES ASSUME NEW m \in Names, Mentions(resolved[n], m) PROVE FALSE
      OBVIOUS
    <3>1. passes < K + 1  BY <1>10, FallsIs
    <3> QED BY <3>1, <1>2
  <2>3. text = resolved[n]
    <3>1. resolved[n] \in ClosedTexts  BY <1>1, <1>4
    <3> QED BY <3>1, <2>2, <1>2, <1>4, <1>6, ExpandSame
  <2> QED BY <2>1, <2>3, <1>7
<1>13. ASSUME NEW s \in [Names -> Text], Fix(resolved', s) PROVE Fix(Raw, s)
  <2>1. \A a \in Names : s[a] = Expand(resolved'[a], s)  BY <1>13 DEF Fix
  <2>2. ASSUME NEW a \in Names PROVE s[a] = Expand(resolved[a], s)
    <3>1. CASE a # n  BY <3>1, <2>1, <1>9
    <3>2. CASE a = n
      <4>1. s[n] = Expand(Expand(resolved[n], resolved), s)  BY <3>2, <2>1, <1>6, <1>9
      <4>2. ASSUME NEW m \in Names, Mentions(resolved[n], m) PROVE Expand(resolved[m], s) = s[m]
        <5>1. m # n  BY <4>2, <1>10, FallsIs
        <5> QED BY <5>1, <2>1, <1>9
      <4>3. resolved[n] \in ClosedTexts  BY <1>1, <1>4
      <4>4. Expand(Expand(resolved[n], resolved), s) = Expand(resolved[n], s)
        BY <4>2, <4>3, <1>1, <1>4, ExpandExpand
      <4> QED BY <3>2, <4>1, <4>4
    <3> QED BY <3>1, <3>2
  <2>3. Fix(resolved, s)  BY <2>2 DEF Fix
  <2> QED BY <2>3, <1>1 DEF Passing
<1>14. ASSUME ~changed', NEW a \in User, ~Among(a, todo')
       PROVE  Expand(resolved'[a], resolved') = resolved'[a]
  <2>1. ~changed /\ text = resolved[n]  BY <1>7, <1>14
  <2>2. resolved' = resolved  BY <2>1, <1>1, <1>7
  <2>3. CASE a = n  BY <2>1, <2>2, <2>3, <1>6
  <2>4. CASE a # n
    <3>1. ~Among(a, todo)  BY <2>4, <1>5, <1>14
    <3> QED BY <3>1, <2>1, <2>2, <1>1 DEF Passing
  <2> QED BY <2>3, <2>4
<1>15. \A a \in Names \ User : resolved'[a] = Builtin[a]  BY <1>1, <1>9 DEF Passing
<1>16. Passing(rank)'
  <2>1. Raw' = Raw  BY <1>7 DEF Raw
  <2>2. \A s \in [Names -> Text] : Fix(resolved', s) => Fix(Raw', s)  BY <2>1, <1>13
  <2> QED BY <2>2, <1>11, <1>12, <1>14, <1>15 DEF Passing, Fix
<1> QED BY <1>1, <1>7, <1>8, <1>16 DEF Resolving

\* Every text that has a reference left has one to a text that has one left.
LEMMA Settles ==
  ASSUME WellFormed, TypeOK, NEW rank \in [User -> 1..K], Passing(rank), ~changed, todo = <<>>,
         resolved \in [Names -> ClosedTexts]
  PROVE  Settled
<1>1. resolved \in [Names -> Text] /\ Names \subseteq Seq(Letters) /\ User \subseteq Names
  BY VariablesAssumption DEF TypeOK, WellFormed
<1>2. \A n \in User : ~Among(n, todo)
  <2>1. Len(todo) = 0  BY EmptyText
  <2> QED BY <2>1 DEF Among
<1>3. \A n \in Names : Expand(resolved[n], resolved) = resolved[n]
  <2>1. \A n \in User : Expand(resolved[n], resolved) = resolved[n]  BY <1>2 DEF Passing
  <2>2. \A n \in Names \ User : Expand(resolved[n], resolved) = resolved[n]  BY BuiltinPlain
  <2> QED BY <2>1, <2>2
<1>4. Fix(Raw, resolved)
  <2>1. Fix(resolved, resolved)  BY <1>3 DEF Fix
  <2> QED BY <2>1, <1>1 DEF Passing
<1>5. \A n \in User : resolved[n] = Expand(raw[n], resolved)
  <2> SUFFICES ASSUME NEW n \in User PROVE resolved[n] = Expand(raw[n], resolved)
    OBVIOUS
  <2>1. Raw[n] = raw[n]  BY <1>1 DEF Raw
  <2> QED BY <2>1, <1>1, <1>4 DEF Fix
<1>6. \A n, m \in Names : ~Mentions(resolved[n], m)
  <2> DEFINE S == {rank[n] : n \in {a \in User : \E m \in Names : Mentions(resolved[a], m)}}
  <2> SUFFICES ASSUME NEW b \in Names, NEW c \in Names, Mentions(resolved[b], c) PROVE FALSE
    OBVIOUS
  <2>1. b \in User  BY BuiltinPlain
  <2>2. S \in SUBSET Nat
    <3>1. \A n \in User : rank[n] \in Nat  BY UserFinite
    <3> QED BY <3>1
  <2>3. rank[b] \in S  BY <2>1
  <2>4. PICK h \in S : \A j \in S : h <= j
    <3> HIDE DEF S
    <3> QED BY <2>2, <2>3, LeastNumber
  <2>5. PICK n \in User, m \in Names : h = rank[n] /\ Mentions(resolved[n], m)  BY <2>4
  <2>6. Mentions(Expand(resolved[n], resolved), m)  BY <2>5, <1>1, <1>3
  <2>7. PICK k \in Names : Mentions(resolved[n], k) /\ Mentions(resolved[k], m)
    <3>1. resolved[n] \in ClosedTexts  BY <1>1
    <3> QED BY <3>1, <2>5, <2>6, <1>1, ExpandKnown
  <2>8. k \in User  BY <2>7, <2>5, BuiltinPlain
  <2>9. Height(rank, k) < rank[n]
    <3>1. Falls(rank)  BY DEF Passing
    <3> QED BY <3>1, <2>7, FallsIs
  <2>10. rank[k] < rank[n]  BY <2>8, <2>9 DEF Height
  <2>11. rank[k] \in S  BY <2>5, <2>7, <2>8
  <2>12. rank[n] <= rank[k]
    <3> HIDE DEF S
    <3> QED BY <2>4, <2>5, <2>11
  <2>13. rank[n] \in Nat /\ rank[k] \in Nat  BY <2>8, UserFinite
  <2> QED BY <2>10, <2>12, <2>13
<1> QED BY <1>5, <1>6 DEF Settled

LEMMA ResolvingEnd ==
  ASSUME WellFormed, TypeOK, NEW rank \in [User -> 1..K], Resolving(rank), EndPass
  PROVE  Resolving(rank)'
<1>1. verdict = "none" /\ Passing(rank) /\ passes <= K + 1 /\ resolved \in [Names -> ClosedTexts]
      /\ todo = <<>> /\ UNCHANGED <<raw, order, resolved>>
  BY DEF EndPass, Resolving
<1>2. K \in Nat /\ passes \in Nat  BY UserFinite DEF TypeOK
<1>3. CASE changed
  <2>1. passes' = passes + 1 /\ changed' = FALSE /\ todo' = order /\ verdict' = "none"
    BY <1>1, <1>3 DEF EndPass
  <2>2. passes' <= K + 1
    <3>1. passes # K + 1  BY <1>1, <1>3 DEF Passing
    <3> QED BY <3>1, <2>1, <1>1, <1>2
  <2>3. \A n \in User : ~Among(n, todo) /\ Among(n, todo')
    <3>1. Len(todo) = 0  BY <1>1, EmptyText
    <3>2. \A n \in User : ~Among(n, todo)  BY <3>1 DEF Among
    <3>3. \A n \in User : Among(n, order)  BY OrderIs DEF TypeOK
    <3> QED BY <3>2, <3>3, <2>1
  <2>4. Falls(rank)'
    <3> SUFFICES ASSUME NEW n \in User, NEW m \in Names, Mentions(resolved[n], m)
                 PROVE  Height(rank, m) + passes' + Due(n)' <= rank[n]
      BY <1>1 DEF Falls, Height, Mentions
    <3>1. Falls(rank)  BY <1>1 DEF Passing
    <3>2. Height(rank, m) + passes + Due(n) <= rank[n]  BY <3>1, FallsIs
    <3>3. Due(n) = 1 /\ Due(n)' = 0  BY <2>3 DEF Due
    <3>4. Height(rank, m) \in Nat  BY HeightIs
    <3> HIDE DEF Due, Height
    <3> QED BY <3>2, <3>3, <3>4, <2>1, <1>2
  <2>5. Passing(rank)'
    <3>1. Raw' = Raw /\ resolved' = resolved  BY <1>1 DEF Raw
    <3>2. \A s \in [Names -> Text] : Fix(resolved', s) => Fix(Raw', s)  BY <3>1, <1>1 DEF Passing
    <3>3. \A n \in Names \ User : resolved'[n] = Builtin[n]  BY <3>1, <1>1 DEF Passing
    <3>4. \A n \in User : Among(n, todo')  BY <2>3
    <3> QED BY <3>2, <3>3, <3>4, <2>1, <2>4 DEF Passing, Fix
  <2> QED BY <2>1, <2>2, <2>5, <1>1 DEF Resolving
<1>4. CASE ~changed
  <2>1. verdict' = "true" /\ UNCHANGED <<todo, passes, changed>>  BY <1>4 DEF EndPass
  <2>2. Settled  BY <1>1, <1>4, Settles
  <2>3. Settled'
    <3>1. resolved' = resolved /\ raw' = raw  BY <1>1
    <3> QED BY <3>1, <2>2 DEF Settled, Mentions
  <2> QED BY <2>1, <2>3, <1>1 DEF Resolving
<1> QED BY <1>3, <1>4

\* Where the loop gives up it has found a cycle.
Orderly == TypeOK /\ \A rank \in [User -> 1..K] : Ranks(rank) => Resolving(rank)

LEMMA OrderlyInit == WellFormed /\ Init => Orderly
BY TypeInit, ResolvingInit DEF Orderly

LEMMA RanksSame ==
  ASSUME TypeOK, [Next]_vars, NEW rank
  PROVE  raw' = raw /\ (Ranks(rank)' <=> Ranks(rank))
<1>1. raw' = raw  BY DEF Next, vars, ExpandNext, EndPass, GiveUp, SetOverride
<1> QED BY <1>1 DEF Ranks, RefersTo

LEMMA OrderlyNext == WellFormed /\ Orderly /\ [Next]_vars => Orderly'
<1> SUFFICES ASSUME WellFormed, Orderly, [Next]_vars PROVE Orderly'
  OBVIOUS
<1>1. TypeOK /\ TypeOK'  BY TypeNext DEF Orderly
<1> SUFFICES ASSUME NEW rank \in [User -> 1..K], Ranks(rank)' PROVE Resolving(rank)'
  BY <1>1 DEF Orderly
<1>2. Resolving(rank)  BY <1>1, RanksSame DEF Orderly
<1>3. CASE ExpandNext  BY <1>1, <1>2, <1>3, ResolvingExpand
<1>4. CASE EndPass  BY <1>1, <1>2, <1>4, ResolvingEnd
<1>5. CASE GiveUp
  <2>1. passes > MaxIterations /\ passes <= K + 1 /\ MaxIterations = K + 1 /\ K \in Nat /\ passes \in Nat
    BY <1>1, <1>2, <1>5, UserFinite DEF GiveUp, Resolving, TypeOK
  <2> QED BY <2>1
<1>6. ASSUME NEW n \in Names, NEW text \in Definitions, SetOverride(n, text) PROVE Resolving(rank)'
  <2>1. verdict' = "overridden" /\ passes' = passes  BY <1>6 DEF SetOverride
  <2> QED BY <2>1, <1>2 DEF Resolving
<1>7. CASE UNCHANGED vars
  BY <1>2, <1>7 DEF Resolving, Passing, Falls, Fix, Raw, Settled, Mentions, Due, Height, vars
<1> QED BY <1>3, <1>4, <1>5, <1>6, <1>7 DEF Next

LEMMA AlwaysOrderly ==
  ASSUME WellFormed
  PROVE  Spec => []Orderly
<1>1. Init => Orderly  BY OrderlyInit
<1>2. Orderly /\ [Next]_vars => Orderly'  BY OrderlyNext
<1> QED BY <1>1, <1>2, PTL DEF Spec

LEMMA OrderlyIsResolved ==
  ASSUME Orderly
  PROVE  AcyclicIsResolved
<1> SUFFICES ASSUME Acyclic
             PROVE  /\ verdict # "false"
                    /\ verdict = "true" => \A n \in User : resolved[n] = Expand(raw[n], resolved)
  BY DEF AcyclicIsResolved
<1>1. PICK rank \in [User -> 1..K] : Ranks(rank)  BY DEF Acyclic, Ranks, K
<1>2. Resolving(rank)  BY <1>1 DEF Orderly
<1> QED BY <1>2 DEF Resolving, Settled

\* Variables whose references make no cycle are resolved within the passes that the code
\* allows itself, in every order of the map, and each then has the value that its
\* definition asks for (resolve_user_variables).
THEOREM AlwaysResolved ==
  ASSUME WellFormed
  PROVE  Spec => []AcyclicIsResolved
<1>1. Orderly => AcyclicIsResolved  BY OrderlyIsResolved
<1> QED BY <1>1, AlwaysOrderly, PTL

-----------------------------------------------------------------------------
(* Replace, piece by piece.                                                *)

\* The recursion of Replace, as a pass.
ReplacePiece(t, s, p) == [i \in 1..Len(t) |-> IF OccursAt(s, t, i) THEN p ELSE <<t[i]>>]
ReplaceSkip(t, s) == [i \in 1..Len(t) |-> IF OccursAt(s, t, i) THEN i + Len(s) ELSE i + 1]

LEMMA ReplaceSkips ==
  ASSUME NEW t \in Text, NEW s \in Text, s # <<>>
  PROVE  Forward(Len(t), ReplaceSkip(t, s))
<1> SUFFICES ASSUME NEW i \in 1..Len(t) PROVE ReplaceSkip(t, s)[i] \in i+1..Len(t)+1
  BY DEF Forward
<1>1. Len(t) \in Nat /\ Len(s) \in Nat \ {0}  BY EmptySeq, LenProperties DEF Text
<1>2. CASE OccursAt(s, t, i)
  <2>1. ReplaceSkip(t, s)[i] = i + Len(s)  BY <1>2 DEF ReplaceSkip
  <2>2. i + Len(s) - 1 <= Len(t)  BY <1>2 DEF OccursAt
  <2> QED BY <2>1, <2>2, <1>1
<1>3. CASE ~OccursAt(s, t, i)
  <2>1. ReplaceSkip(t, s)[i] = i + 1  BY <1>3 DEF ReplaceSkip
  <2> QED BY <2>1, <1>1
<1> QED BY <1>2, <1>3

LEMMA ReplaceIs ==
  ASSUME NEW t \in Text, NEW s \in Text, s # <<>>, NEW p \in Text
  PROVE  \E f : Chains(f, Len(t), ReplacePiece(t, s, p), ReplaceSkip(t, s)) /\ Replace(t, s, p) = f[1]
<1> DEFINE Step(f, i) == IF i > Len(t) THEN <<>>
             ELSE IF OccursAt(s, t, i) THEN p \o f[i + Len(s)]
             ELSE <<t[i]>> \o f[i + 1]
           From == CHOOSE f : f = [i \in 1 .. Len(t) + 1 |-> Step(f, i)]
<1>1. Replace(t, s, p) = From[1]  BY DEF Replace
<1>2. Len(t) \in Nat  BY TextIs
<1>3. PICK f : Chains(f, Len(t), ReplacePiece(t, s, p), ReplaceSkip(t, s))
  BY <1>2, ReplaceSkips, ChainsSome
<1>4. ASSUME NEW g, NEW i \in 1 .. Len(t) + 1
      PROVE  Step(g, i) = IF i > Len(t) THEN <<>> ELSE ReplacePiece(t, s, p)[i] \o g[ReplaceSkip(t, s)[i]]
  <2>1. CASE i > Len(t)  BY <2>1
  <2>2. CASE ~(i > Len(t)) /\ OccursAt(s, t, i)
    <3>1. i \in 1..Len(t)  BY <2>2, <1>2
    <3>2. ReplacePiece(t, s, p)[i] = p /\ ReplaceSkip(t, s)[i] = i + Len(s)
      BY <3>1, <2>2 DEF ReplacePiece, ReplaceSkip
    <3>3. Step(g, i) = p \o g[i + Len(s)]  BY <2>2
    <3> QED BY <2>2, <3>2, <3>3
  <2>3. CASE ~(i > Len(t)) /\ ~OccursAt(s, t, i)
    <3>1. i \in 1..Len(t)  BY <2>3, <1>2
    <3>2. ReplacePiece(t, s, p)[i] = <<t[i]>> /\ ReplaceSkip(t, s)[i] = i + 1
      BY <3>1, <2>3 DEF ReplacePiece, ReplaceSkip
    <3>3. Step(g, i) = <<t[i]>> \o g[i + 1]  BY <2>3
    <3> QED BY <2>3, <3>2, <3>3
  <2> QED BY <2>1, <2>2, <2>3
<1>5. \A g : Chains(g, Len(t), ReplacePiece(t, s, p), ReplaceSkip(t, s)) <=>
               g = [i \in 1 .. Len(t) + 1 |-> Step(g, i)]
  <2> HIDE DEF Step
  <2> QED BY <1>4 DEF Chains
<1>6. f = [i \in 1 .. Len(t) + 1 |-> Step(f, i)]  BY <1>3, <1>5
<1>7. From = [i \in 1 .. Len(t) + 1 |-> Step(From, i)]
  <2> HIDE DEF Step
  <2> QED BY <1>6
<1>8. Chains(From, Len(t), ReplacePiece(t, s, p), ReplaceSkip(t, s))
  <2> HIDE DEF Step, From
  <2> QED BY <1>5, <1>7
<1> QED BY <1>1, <1>8

LEMMA ReplaceTyped ==
  ASSUME NEW t \in Text, NEW s \in Text, s # <<>>, NEW p \in Text
  PROVE  Replace(t, s, p) \in Text
<1>1. PICK f : Chains(f, Len(t), ReplacePiece(t, s, p), ReplaceSkip(t, s)) /\ Replace(t, s, p) = f[1]
  BY ReplaceIs
<1>2. Len(t) \in Nat  BY TextIs
<1>3. ASSUME NEW i \in 1..Len(t) PROVE ReplacePiece(t, s, p)[i] \in Seq(Symbols)
  <2>1. ReplacePiece(t, s, p)[i] = p \/ ReplacePiece(t, s, p)[i] = <<t[i]>>  BY DEF ReplacePiece
  <2>2. t[i] \in Symbols  BY TextIs
  <2>3. <<t[i]>> \in Text  BY <2>2, SymbolIsText
  <2> QED BY <2>1, <2>3 DEF Text
<1>4. \A i \in 1..Len(t)+1 : f[i] \in Seq(Symbols)
  BY <1>1, <1>2, <1>3, ReplaceSkips, ChainsTyped
<1> QED BY <1>1, <1>2, <1>4 DEF Text

\* The first piece of a text, and then the rest.
LEMMA ReplaceFront ==
  ASSUME NEW s \in Text, s # <<>>, NEW p \in Text, NEW u \in Text, u # <<>>, NEW r \in Text,
         ReplaceSkip(Joined(u, r), s)[1] = Len(u) + 1
  PROVE  Replace(Joined(u, r), s, p) = Joined(ReplacePiece(Joined(u, r), s, p)[1], Replace(r, s, p))
<1> DEFINE t == Joined(u, r)
<1>1. t \in Text /\ Joins(t, u, r)  BY JoinedText
<1>2. Len(u) \in Nat \ {0} /\ Len(r) \in Nat /\ Len(t) = Len(r) + Len(u) /\ Len(s) \in Nat
  <2>1. Len(u) \in Nat \ {0} /\ Len(r) \in Nat /\ Len(s) \in Nat  BY EmptySeq, LenProperties DEF Text
  <2> HIDE DEF t
  <2> QED BY <2>1, <1>1 DEF Joins
<1>3. \A i \in 1..Len(r) : OccursAt(s, t, i + Len(u)) <=> OccursAt(s, r, i)
  <2> SUFFICES ASSUME NEW i \in 1..Len(r)
               PROVE  OccursAt(s, t, i + Len(u)) <=> OccursAt(s, r, i)
    OBVIOUS
  <2>1. i + Len(u) = Len(u) + i /\ i \in Nat \ {0}  BY <1>2
  <2> QED BY <2>1, OccursShift
<1> HIDE DEF t
<1>5. ASSUME NEW i \in 1..Len(r)
      PROVE  /\ ReplacePiece(t, s, p)[i + Len(u)] = ReplacePiece(r, s, p)[i]
             /\ ReplaceSkip(t, s)[i + Len(u)] = ReplaceSkip(r, s)[i] + Len(u)
  <2>1. i + Len(u) \in 1..Len(t)  BY <1>2
  <2>2. t[i + Len(u)] = r[i]
    <3>1. i + Len(u) = Len(u) + i  BY <1>2
    <3> QED BY <3>1, <1>1 DEF Joins
  <2>3. ReplacePiece(t, s, p)[i + Len(u)] = ReplacePiece(r, s, p)[i]
    BY <2>1, <2>2, <1>3 DEF ReplacePiece
  <2>5. CASE OccursAt(s, r, i)
    <3>1. ReplaceSkip(t, s)[i + Len(u)] = i + Len(u) + Len(s)
          /\ ReplaceSkip(r, s)[i] = i + Len(s)
      BY <2>1, <2>5, <1>3 DEF ReplaceSkip
    <3> QED BY <3>1, <2>3, <1>2
  <2>6. CASE ~OccursAt(s, r, i)
    <3>1. ReplaceSkip(t, s)[i + Len(u)] = i + Len(u) + 1 /\ ReplaceSkip(r, s)[i] = i + 1
      BY <2>1, <2>6, <1>3 DEF ReplaceSkip
    <3> QED BY <3>1, <2>3, <1>2
  <2> QED BY <2>5, <2>6
<1>6. PICK f : Chains(f, Len(t), ReplacePiece(t, s, p), ReplaceSkip(t, s)) /\ Replace(t, s, p) = f[1]
  BY <1>1, ReplaceIs
<1>7. PICK g : Chains(g, Len(r), ReplacePiece(r, s, p), ReplaceSkip(r, s)) /\ Replace(r, s, p) = g[1]
  BY ReplaceIs
<1>8. f[1 + Len(u)] = g[1]
  <2>1. Chains(f, Len(r) + Len(u), ReplacePiece(t, s, p), ReplaceSkip(t, s))  BY <1>2, <1>6
  <2>2. Forward(Len(r), ReplaceSkip(r, s))  BY ReplaceSkips
  <2>3. Shifted(Len(r), Len(u), ReplacePiece(r, s, p), ReplaceSkip(r, s),
                ReplacePiece(t, s, p), ReplaceSkip(t, s))
    BY <1>5 DEF Shifted
  <2>4. Chains(g, Len(r), ReplacePiece(r, s, p), ReplaceSkip(r, s))  BY <1>7
  <2>5. Len(r) \in Nat /\ Len(u) \in Nat  BY <1>2
  <2>6. \A i \in 1..Len(r)+1 : f[i + Len(u)] = g[i]
    BY <2>1, <2>2, <2>3, <2>4, <2>5, ChainsShift
  <2> QED BY <2>6, <1>2
<1>9. f[1] = ReplacePiece(t, s, p)[1] \o f[ReplaceSkip(t, s)[1]]
  <2>1. 1 \in 1 .. Len(t) + 1 /\ ~(1 > Len(t))  BY <1>2
  <2> QED BY <2>1, <1>6 DEF Chains
<1>10. ReplaceSkip(t, s)[1] = 1 + Len(u)  BY <1>2 DEF t
<1>11. Replace(t, s, p) = Joined(ReplacePiece(t, s, p)[1], Replace(r, s, p))
  BY <1>6, <1>7, <1>8, <1>9, <1>10 DEF Joined
<1> QED BY <1>11 DEF t

LEMMA ReplaceEmpty ==
  ASSUME NEW s \in Text, s # <<>>, NEW p \in Text
  PROVE  Replace(<<>>, s, p) = <<>>
<1>1. PICK f : Chains(f, Len(<<>>), ReplacePiece(<<>>, s, p), ReplaceSkip(<<>>, s)) /\ Replace(<<>>, s, p) = f[1]
  BY ReplaceIs, EmptyText
<1>2. Len(<<>>) = 0 /\ 1 \in 1 .. 0 + 1 /\ 1 > 0  BY EmptyText
<1> QED BY <1>1, <1>2 DEF Chains

LEMMA NonEmpty ==
  ASSUME NEW u \in Text, u # <<>>, NEW r \in Text
  PROVE  Len(u) \in Nat \ {0} /\ 1 \in 1..Len(Joined(u, r)) /\ Joined(u, r)[1] = u[1]
<1>1. Len(u) \in Nat \ {0} /\ Len(r) \in Nat  BY EmptySeq, LenProperties DEF Text
<1>2. Joins(Joined(u, r), u, r)  BY JoinedText
<1>3. Len(Joined(u, r)) = Len(u) + Len(r)  BY <1>2 DEF Joins
<1>4. 1 \in 1..Len(u) /\ 1 \in 1..Len(Joined(u, r))  BY <1>1, <1>3
<1>5. Joined(u, r)[1] = u[1]  BY <1>2, <1>4 DEF Joins
<1> QED BY <1>1, <1>4, <1>5

\* The value becomes its placeholder.
LEMMA ReplaceHit ==
  ASSUME NEW s \in Text, s # <<>>, NEW p \in Text, NEW r \in Text
  PROVE  Replace(Joined(s, r), s, p) = Joined(p, Replace(r, s, p))
<1>1. PICK t \in Text : t = Joined(s, r)  BY JoinedText
<1>2. 1 \in 1..Len(t) /\ Len(s) \in Nat \ {0}  BY <1>1, NonEmpty
<1>3. OccursAt(s, t, 1)  BY <1>1, OccursFront
<1>4. ReplaceSkip(t, s)[1] = 1 + Len(s) /\ ReplacePiece(t, s, p)[1] = p
  BY <1>2, <1>3 DEF ReplaceSkip, ReplacePiece
<1>5. ReplaceSkip(t, s)[1] = Len(s) + 1  BY <1>2, <1>4
<1>6. ReplaceSkip(Joined(s, r), s)[1] = Len(s) + 1 /\ ReplacePiece(Joined(s, r), s, p)[1] = p
  BY <1>1, <1>4, <1>5
<1>7. Replace(Joined(s, r), s, p) = Joined(ReplacePiece(Joined(s, r), s, p)[1], Replace(r, s, p))
  BY <1>6, ReplaceFront
<1> QED BY <1>6, <1>7

\* A symbol that the value does not begin at stays.
LEMMA ReplaceMiss ==
  ASSUME NEW s \in Text, s # <<>>, NEW p \in Text, NEW x \in Symbols, NEW r \in Text,
         ~OccursAt(s, Joined(<<x>>, r), 1)
  PROVE  Replace(Joined(<<x>>, r), s, p) = Joined(<<x>>, Replace(r, s, p))
<1>1. PICK u \in Text : u = <<x>> /\ u # <<>> /\ Len(u) = 1 /\ u[1] = x  BY SymbolIsText
<1>2. PICK t \in Text : t = Joined(u, r)  BY JoinedText
<1>3. 1 \in 1..Len(t) /\ t[1] = x  BY <1>1, <1>2, NonEmpty
<1>4. ~OccursAt(s, t, 1)  BY <1>1, <1>2
<1>5. ReplaceSkip(t, s)[1] = 1 + 1 /\ ReplacePiece(t, s, p)[1] = u
  BY <1>1, <1>3, <1>4 DEF ReplaceSkip, ReplacePiece
<1>6. ReplaceSkip(Joined(u, r), s)[1] = Len(u) + 1 /\ ReplacePiece(Joined(u, r), s, p)[1] = u
  BY <1>1, <1>2, <1>5
<1>7. Replace(Joined(u, r), s, p) = Joined(ReplacePiece(Joined(u, r), s, p)[1], Replace(r, s, p))
  <2>1. u \in Text /\ u # <<>>  BY <1>1
  <2>2. ReplaceSkip(Joined(u, r), s)[1] = Len(u) + 1  BY <1>6
  <2> QED BY <2>1, <2>2, ReplaceFront
<1> QED BY <1>1, <1>6, <1>7

LEMMA OccursIs ==
  ASSUME NEW s \in Text, NEW u \in Text, NEW r \in Text, ~Occurs(s, Joined(u, r))
  PROVE  ~Occurs(s, r) /\ (u # <<>> => ~OccursAt(s, Joined(u, r), 1))
<1>1. PICK t \in Text : t = Joined(u, r) /\ Joins(t, u, r)  BY JoinedText
<1>2. Len(u) \in Nat /\ Len(r) \in Nat /\ Len(t) = Len(u) + Len(r)  BY <1>1, TextIs DEF Joins
<1>3. DOMAIN t = 1..Len(t) /\ DOMAIN r = 1..Len(r)  BY TextIs
<1>4. \A i \in 1..Len(t) : ~OccursAt(s, t, i)  BY <1>1, <1>3 DEF Occurs
<1>5. ASSUME NEW i \in 1..Len(r) PROVE ~OccursAt(s, r, i)
  <2>1. i \in Nat \ {0} /\ Len(u) + i \in 1..Len(t)  BY <1>2
  <2>2. OccursAt(s, t, Len(u) + i) <=> OccursAt(s, r, i)  BY <2>1, <1>1, OccursShift
  <2> QED BY <2>1, <2>2, <1>4
<1>6. u # <<>> => ~OccursAt(s, t, 1)
  <2>1. u # <<>> => 1 \in 1..Len(t)  BY <1>1, NonEmpty
  <2> QED BY <2>1, <1>4
<1> QED BY <1>1, <1>3, <1>5, <1>6 DEF Occurs

\* Where the value is not, nothing changes.
LEMMA ReplaceNone ==
  ASSUME NEW s \in Text, s # <<>>, NEW p \in Text, NEW t \in Text, ~Occurs(s, t)
  PROVE  Replace(t, s, p) = t
<1> DEFINE G == {w \in Text : ~Occurs(s, w) => Replace(w, s, p) = w}
<1>1. ASSUME NEW w \in Text, \A z \in Text : Len(z) < Len(w) => z \in G PROVE w \in G
  <2> SUFFICES ASSUME ~Occurs(s, w) PROVE Replace(w, s, p) = w
    OBVIOUS
  <2>1. CASE w = <<>>  BY <2>1, ReplaceEmpty
  <2>2. CASE w # <<>>
    <3>1. PICK z \in Text : w = Joined(<<w[1]>>, z) /\ Len(w) = Len(z) + 1 /\ w[1] \in Symbols
      BY <2>2, FirstSymbol DEF Text
    <3>2. PICK x \in Symbols : x = w[1]  BY <3>1
    <3>3. <<x>> \in Text /\ <<x>> # <<>> /\ w = Joined(<<x>>, z)  BY <3>1, <3>2, SymbolIsText
    <3>4. ~Occurs(s, z) /\ ~OccursAt(s, Joined(<<x>>, z), 1)  BY <3>3, OccursIs
    <3>5. Len(z) < Len(w)
      <4>1. Len(z) \in Nat  BY TextIs
      <4> QED BY <4>1, <3>1
    <3>6. Replace(z, s, p) = z  BY <3>4, <3>5, <1>1
    <3>7. Replace(w, s, p) = Joined(<<x>>, Replace(z, s, p))  BY <3>3, <3>4, ReplaceMiss
    <3> QED BY <3>3, <3>6, <3>7
  <2> QED BY <2>1, <2>2
<1>2. \A w \in Text : w \in G
  <2>1. Text \in SUBSET Seq(Symbols)  BY DEF Text
  <2> HIDE DEF G
  <2> QED BY <2>1, <1>1, EveryText
<1> QED BY <1>2

-----------------------------------------------------------------------------
(* One variable after the other.                                           *)

\* What is made of a text with the first variables, the ones with the longest values.
Unresolves(f, S, text) ==
    f = [done \in SUBSET S |->
            IF done = {} THEN text
            ELSE Replace(f[done \ {Shortest(done)}], resolved[Shortest(done)],
                         Placeholder(Shortest(done)))]

\* The same for at most k variables.
UnresolvesUpTo(f, S, k, text) ==
    f = [done \in {d \in SUBSET S : Cardinality(d) <= k} |->
            IF done = {} THEN text
            ELSE Replace(f[done \ {Shortest(done)}], resolved[Shortest(done)],
                         Placeholder(Shortest(done)))]

LEMMA ValuedFinite == IsFiniteSet(Valued) /\ Valued \subseteq Names
<1>1. Valued \subseteq Names  BY DEF Valued
<1> QED BY <1>1, VariablesAssumption, FS_Subset

\* There is a shortest value among some.
LEMMA ShortestIs ==
  ASSUME TypeOK, NEW left \in SUBSET Valued, left # {}
  PROVE  Shortest(left) \in left
         /\ \A m \in left : Len(resolved[Shortest(left)]) <= Len(resolved[m])
<1> DEFINE S == {Len(resolved[n]) : n \in left}
<1>1. \A n \in left : Len(resolved[n]) \in Nat
  <2>1. \A n \in left : resolved[n] \in Text  BY ValuedFinite DEF TypeOK
  <2> QED BY <2>1, TextIs
<1>2. S \in SUBSET Nat /\ S # {}  BY <1>1
<1>3. PICK h \in S : \A j \in S : h <= j
  <2> HIDE DEF S
  <2> QED BY <1>2, LeastNumber
<1>4. PICK n \in left : h = Len(resolved[n])  BY <1>3
<1>5. \A m \in left : Len(resolved[n]) <= Len(resolved[m])  BY <1>3, <1>4
<1> QED BY <1>5 DEF Shortest

LEMMA OneLess ==
  ASSUME TypeOK, NEW d \in SUBSET Valued, d # {}
  PROVE  /\ d \ {Shortest(d)} \in SUBSET Valued
         /\ Cardinality(d) \in Nat /\ Cardinality(d \ {Shortest(d)}) = Cardinality(d) - 1
<1>1. Shortest(d) \in d  BY ShortestIs
<1>2. IsFiniteSet(d)  BY ValuedFinite, FS_Subset
<1> QED BY <1>1, <1>2, FS_RemoveElement, FS_CardinalityType

\* What holds of no variables, and of some when it holds of the ones before the last,
\* holds of all.
LEMMA EveryDone ==
  ASSUME TypeOK, NEW G, {} \in G,
         \A d \in SUBSET Valued : d # {} /\ d \ {Shortest(d)} \in G => d \in G
  PROVE  \A d \in SUBSET Valued : d \in G
<1> SUFFICES ASSUME NEW c \in SUBSET Valued, c \notin G PROVE FALSE
  OBVIOUS
<1> DEFINE S == {k \in Nat : \E d \in SUBSET Valued : d \notin G /\ Cardinality(d) = k}
<1>1. S \in SUBSET Nat /\ S # {}
  <2>1. Cardinality(c) \in Nat  BY ValuedFinite, FS_Subset, FS_CardinalityType
  <2>2. Cardinality(c) \in S  BY <2>1
  <2> QED BY <2>2
<1>2. PICK k \in S : \A m \in S : k <= m
  <2> HIDE DEF S
  <2> QED BY <1>1, LeastNumber
<1>3. PICK d \in SUBSET Valued : d \notin G /\ Cardinality(d) = k  BY <1>2
<1>4. d # {}  BY <1>3
<1>5. d \ {Shortest(d)} \in SUBSET Valued /\ Cardinality(d) \in Nat
      /\ Cardinality(d \ {Shortest(d)}) = Cardinality(d) - 1
  BY <1>4, OneLess
<1>6. d \ {Shortest(d)} \in G
  <2> SUFFICES ASSUME d \ {Shortest(d)} \notin G PROVE FALSE
    OBVIOUS
  <2>1. k - 1 \in Nat /\ Cardinality(d \ {Shortest(d)}) = k - 1
    <3>1. d \ {Shortest(d)} # d /\ Cardinality(d \ {Shortest(d)}) \in Nat
      BY <1>3, <1>5, ValuedFinite, FS_Subset, FS_CardinalityType
    <3> QED BY <3>1, <1>3, <1>5
  <2>2. k - 1 \in S  BY <2>1, <1>5
  <2>3. k <= k - 1
    <3> HIDE DEF S
    <3> QED BY <2>2, <1>2
  <2> QED BY <2>1, <2>3
<1> QED BY <1>3, <1>4, <1>6

\* The variables are gone through to the end.
LEMMA UnresolvesSome ==
  ASSUME TypeOK, NEW text, NEW k \in Nat
  PROVE  \E f : UnresolvesUpTo(f, Valued, k, text)
<1> DEFINE S == {m \in Nat : ~\E f : UnresolvesUpTo(f, Valued, m, text)}
<1> SUFFICES ASSUME S # {} PROVE FALSE
  OBVIOUS
<1>1. PICK m \in S : \A j \in S : m <= j
  <2>1. S \in SUBSET Nat  OBVIOUS
  <2> HIDE DEF S
  <2> QED BY <2>1, LeastNumber
<1>2. m # 0
  <2> DEFINE h == [d \in {d \in SUBSET Valued : Cardinality(d) <= 0} |-> text]
  <2>1. \A d \in {d \in SUBSET Valued : Cardinality(d) <= 0} : d = {}
    <3> SUFFICES ASSUME NEW d \in SUBSET Valued, Cardinality(d) <= 0 PROVE d = {}
      OBVIOUS
    <3>1. IsFiniteSet(d)  BY ValuedFinite, FS_Subset
    <3>2. Cardinality(d) = 0  BY <3>1, FS_CardinalityType
    <3> QED BY <3>1, <3>2, FS_EmptySet
  <2>2. UnresolvesUpTo(h, Valued, 0, text)  BY <2>1 DEF UnresolvesUpTo
  <2> QED BY <2>2
<1>3. m \in Nat /\ m - 1 \in Nat /\ m - 1 \notin S
  <2>1. m \in Nat  BY <1>1
  <2> HIDE DEF S
  <2>2. m - 1 \in Nat /\ m - 1 < m  BY <2>1, <1>2
  <2> QED BY <1>1, <2>1, <2>2
<1>4. PICK g : UnresolvesUpTo(g, Valued, m - 1, text)  BY <1>3
<1> DEFINE Of(h, d) == IF d = {} THEN text
                       ELSE Replace(h[d \ {Shortest(d)}], resolved[Shortest(d)], Placeholder(Shortest(d)))
           A == {d \in SUBSET Valued : Cardinality(d) <= m}
           B == {d \in SUBSET Valued : Cardinality(d) <= m - 1}
           f == [d \in A |-> Of(g, d)]
<1>5. \A d \in B : g[d] = Of(g, d)  BY <1>4 DEF UnresolvesUpTo
<1>6. ASSUME NEW d \in A PROVE f[d] = Of(f, d)
  <2>1. f[d] = Of(g, d)  OBVIOUS
  <2>2. CASE d = {}  BY <2>1, <2>2
  <2>3. CASE d # {}
    <3> DEFINE e == d \ {Shortest(d)}
    <3>1. d \in SUBSET Valued /\ Cardinality(d) <= m  OBVIOUS
    <3>2. e \in SUBSET Valued /\ Cardinality(d) \in Nat /\ Cardinality(e) = Cardinality(d) - 1
      BY <3>1, <2>3, OneLess
    <3>3. e \in A /\ e \in B  BY <3>1, <3>2, <1>3
    <3>4. f[e] = g[e]
      <4>1. f[e] = Of(g, e)  BY <3>3
      <4>2. g[e] = Of(g, e)  BY <3>3, <1>5
      <4> QED BY <4>1, <4>2
    <3> HIDE DEF f
    <3> QED BY <2>1, <2>3, <3>4
  <2> QED BY <2>2, <2>3
<1>7. UnresolvesUpTo(f, Valued, m, text)
  <2>1. f = [d \in A |-> Of(f, d)]
    <3> HIDE DEF Of
    <3> QED BY <1>6
  <2> HIDE DEF f
  <2> QED BY <2>1 DEF UnresolvesUpTo
<1> QED BY <1>1, <1>7

LEMMA UnresolveIs ==
  ASSUME TypeOK, NEW text
  PROVE  \E f : Unresolves(f, Valued, text) /\ Unresolve(text) = f[Valued]
<1> DEFINE k == Cardinality(Valued)
           After == CHOOSE f : Unresolves(f, Valued, text)
<1>1. k \in Nat  BY ValuedFinite, FS_CardinalityType
<1>2. PICK f : UnresolvesUpTo(f, Valued, k, text)
  <2> HIDE DEF k
  <2> QED BY <1>1, UnresolvesSome
<1>3. {d \in SUBSET Valued : Cardinality(d) <= k} = SUBSET Valued  BY ValuedFinite, FS_Subset
<1>4. Unresolves(f, Valued, text)
  <2> HIDE DEF k
  <2> QED BY <1>2, <1>3 DEF Unresolves, UnresolvesUpTo
<1>5. Unresolves(After, Valued, text)
  <2> HIDE DEF k
  <2> QED BY <1>4
<1>6. Unresolve(text) = After[Valued]  BY DEF Unresolve, Unresolves
<1> QED BY <1>5, <1>6

LEMMA UnresolvesIs ==
  ASSUME NEW f, NEW text, Unresolves(f, Valued, text)
  PROVE  /\ f[{}] = text
         /\ \A d \in SUBSET Valued : d # {} =>
               f[d] = Replace(f[d \ {Shortest(d)}], resolved[Shortest(d)], Placeholder(Shortest(d)))
BY DEF Unresolves

\* A text occurs in a longer one, or in itself.
LEMMA OccursFits ==
  ASSUME NEW s \in Text, NEW t \in Text, Occurs(s, t)
  PROVE  Len(s) <= Len(t) /\ (Len(s) = Len(t) => s = t)
<1>1. PICK i \in 1..Len(t) : OccursAt(s, t, i)  BY TextIs DEF Occurs
<1>2. Len(s) \in Nat /\ Len(t) \in Nat  BY TextIs
<1>3. i \in Nat \ {0}  BY <1>2
<1>4. i + Len(s) - 1 <= Len(t) /\ \A j \in 1..Len(s) : t[i + j - 1] = s[j]
  BY <1>1, <1>3, OccursAtIs
<1>5. Len(s) <= Len(t)  BY <1>2, <1>3, <1>4
<1>6. ASSUME Len(s) = Len(t) PROVE s = t
  <2>1. \A j \in 1..Len(s) : i + j - 1 = j  BY <1>2, <1>3, <1>4, <1>6
  <2>2. \A j \in 1..Len(s) : s[j] = t[j]  BY <2>1, <1>4
  <2> QED BY <2>2, <1>6, SeqEqual DEF Text
<1> QED BY <1>5, <1>6

\* The values that the variables stand for.
LEMMA ValuedIs ==
  ASSUME TypeOK, NEW n \in Valued
  PROVE  /\ n \in Names /\ resolved[n] \in Text /\ resolved[n] # <<>>
         /\ Len(resolved[n]) \in Nat \ {0} /\ Placeholder(n) \in Text
<1>1. n \in Names /\ resolved[n] \in Text /\ resolved[n] # <<>>
  BY ValuedFinite DEF Valued, TypeOK
<1>2. Len(resolved[n]) \in Nat \ {0}  BY <1>1, EmptySeq, LenProperties DEF Text
<1> QED BY <1>1, <1>2, NameIsText

\* Values that are longer than one of these are among these.
UpClosed(d) == \A m \in d, k \in Valued : Len(resolved[k]) > Len(resolved[m]) => k \in d

\* What is made of the text v: the placeholder of a variable that has this value.
Kept(f, d, v) ==
    \/ \E m \in d : resolved[m] = v /\ f[d] = Placeholder(m)
    \/ (\A m \in d : resolved[m] # v) /\ f[d] = v

LEMMA KeptNext ==
  ASSUME TypeOK, ~Clash, NEW n \in Valued, NEW f, Unresolves(f, Valued, resolved[n]),
         NEW d \in SUBSET Valued, d # {}, UpClosed(d), NEW s, s = Shortest(d),
         Kept(f, d \ {s}, resolved[n])
  PROVE  Kept(f, d, resolved[n])
<1>1. s \in d /\ \A m \in d : Len(resolved[s]) <= Len(resolved[m])  BY ShortestIs
<1>2. PICK v \in Text : v = resolved[n] /\ Len(v) \in Nat  BY ValuedIs
<1>3. PICK w \in Text : w = resolved[s] /\ w # <<>> /\ Len(w) \in Nat  BY <1>1, ValuedIs
<1>4. PICK p \in Text : p = Placeholder(s)  BY <1>1, ValuedIs
<1>5. f[d] = Replace(f[d \ {s}], w, p)  BY <1>3, <1>4, UnresolvesIs
<1>6. ASSUME NEW m \in d \ {s}, resolved[m] = v, f[d \ {s}] = Placeholder(m)
      PROVE  Kept(f, d, v)
  <2>1. m \in Valued /\ s \in Valued /\ m \in Names  BY <1>1, ValuedFinite
  <2>2. ~Occurs(w, Placeholder(m))  BY <2>1, <1>3 DEF Clash
  <2>3. Placeholder(m) \in Text  BY <2>1, ValuedIs
  <2>4. Replace(Placeholder(m), w, p) = Placeholder(m)  BY <2>2, <2>3, <1>3, ReplaceNone
  <2>5. f[d] = Placeholder(m) /\ m \in d  BY <2>4, <1>5, <1>6
  <2> QED BY <2>5, <1>6 DEF Kept
<1>7. ASSUME \A m \in d \ {s} : resolved[m] # v, f[d \ {s}] = v
      PROVE  Kept(f, d, v)
  <2>1. CASE w = v
    <3>1. Joined(v, <<>>) = v /\ Joined(p, <<>>) = p  BY TextEmpty
    <3>2. Replace(<<>>, v, p) = <<>>  BY <2>1, <1>3, ReplaceEmpty
    <3>3. Replace(Joined(v, <<>>), v, p) = Joined(p, Replace(<<>>, v, p))
      BY <2>1, <1>3, EmptyText, ReplaceHit
    <3>4. f[d] = Placeholder(s)  BY <3>1, <3>2, <3>3, <2>1, <1>4, <1>5, <1>7
    <3> QED BY <3>4, <2>1, <1>1, <1>3 DEF Kept
  <2>2. CASE w # v
    <3>1. ~Occurs(w, v)
      <4> SUFFICES ASSUME Occurs(w, v) PROVE FALSE
        OBVIOUS
      <4>1. Len(w) < Len(v)  BY <2>2, <1>2, <1>3, OccursFits
      <4>2. n \in d  BY <4>1, <1>1, <1>2, <1>3 DEF UpClosed
      <4>3. n # s  BY <2>2, <1>2, <1>3
      <4> QED BY <4>2, <4>3, <1>2, <1>7
    <3>2. f[d] = v  BY <3>1, <1>3, <1>5, <1>7, ReplaceNone
    <3>3. \A m \in d : resolved[m] # v  BY <2>2, <1>3, <1>7
    <3> QED BY <3>2, <3>3 DEF Kept
  <2> QED BY <2>1, <2>2
<1> QED BY <1>2, <1>6, <1>7 DEF Kept

LEMMA TypedIsKept ==
  ASSUME TypeOK
  PROVE  LongestIsKept
<1> SUFFICES ASSUME ~Clash, NEW n \in Valued
             PROVE  \E m \in Valued : resolved[m] = resolved[n] /\ Unresolve(resolved[n]) = Placeholder(m)
  BY DEF LongestIsKept
<1>1. PICK f : Unresolves(f, Valued, resolved[n]) /\ Unresolve(resolved[n]) = f[Valued]
  BY UnresolveIs
<1> DEFINE G == {d \in SUBSET Valued : UpClosed(d) => Kept(f, d, resolved[n])}
<1>2. {} \in G
  <2>1. f[{}] = resolved[n]  BY <1>1, UnresolvesIs
  <2> QED BY <2>1 DEF Kept
<1>3. ASSUME NEW d \in SUBSET Valued, d # {}, d \ {Shortest(d)} \in G
      PROVE  d \in G
  <2> SUFFICES ASSUME UpClosed(d) PROVE Kept(f, d, resolved[n])
    OBVIOUS
  <2>1. PICK s \in d : s = Shortest(d) /\ \A m \in d : Len(resolved[s]) <= Len(resolved[m])
    BY <1>3, ShortestIs
  <2>2. UpClosed(d \ {s})
    <3> SUFFICES ASSUME NEW m \in d \ {s}, NEW k \in Valued, Len(resolved[k]) > Len(resolved[m])
                 PROVE  k \in d \ {s}
      BY DEF UpClosed
    <3>1. k \in d  BY DEF UpClosed
    <3>2. Len(resolved[k]) \in Nat /\ Len(resolved[m]) \in Nat /\ Len(resolved[s]) \in Nat
      BY ValuedIs
    <3>3. Len(resolved[s]) <= Len(resolved[m])  BY <2>1
    <3>4. k # s  BY <3>2, <3>3
    <3> QED BY <3>1, <3>4
  <2>3. Kept(f, d \ {s}, resolved[n])  BY <2>1, <2>2, <1>3
  <2> QED BY <2>1, <2>3, <1>1, <1>3, KeptNext
<1>4. Valued \in G
  <2> HIDE DEF G
  <2> QED BY <1>2, <1>3, EveryDone
<1>5. Kept(f, Valued, resolved[n])
  <2>1. UpClosed(Valued)  BY DEF UpClosed
  <2> QED BY <2>1, <1>4
<1> QED BY <1>1, <1>5 DEF Kept

\* Unless values clash with placeholders, the value of a variable becomes one placeholder
\* of a variable that has it, whatever the other values are: those of shorter ones that are
\* parts of it are not looked for before (unresolve, and the order that it sorts them in).
THEOREM AlwaysKept == Spec => []LongestIsKept
<1>1. TypeOK => LongestIsKept  BY TypedIsKept
<1> QED BY <1>1, VariablesTypeOK, PTL

-----------------------------------------------------------------------------
(* Values without delimiters.                                              *)

LEMMA BareTyped == [n \in Names |-> <<>>] \in [Names -> Text]
BY EmptyText

LEMMA BareSame ==
  ASSUME Names \subseteq Seq(Letters), NEW a \in ClosedTexts, \A k \in Names : ~Mentions(a, k)
  PROVE  Bare(a) = a
BY BareTyped, ExpandSame DEF Bare

LEMMA BareLetters ==
  ASSUME Names \subseteq Seq(Letters), NEW q \in Seq(Letters)
  PROVE  Bare(q) = q
BY BareTyped, ExpandLetters DEF Bare

\* While the passes go on there is no delimiter outside of the references, and afterwards
\* there is none at all.
Clean ==
    /\ verdict \in {"none", "true"} => \A n \in Names : Bare(resolved[n]) \in Seq(Letters)
    /\ verdict \in {"true", "overridden"} => resolved \in [Names -> Seq(Letters)]

Cleanly == Orderly /\ (Acyclic => Clean)

LEMMA CleanInit ==
  ASSUME Tidy, Init
  PROVE  Clean
<1>1. raw \in [User -> Definitions] /\ verdict = "none"
      /\ resolved = [n \in Names |-> IF n \in User THEN raw[n] ELSE Builtin[n]]
  BY DEF Init
<1>2. User \subseteq Names /\ Builtin \in [Names \ User -> Text] /\ Names \subseteq Seq(Letters)
      /\ \A n \in Names \ User : Builtin[n] \in Seq(Letters)
  BY VariablesAssumption DEF Tidy, WellFormed
<1>3. ASSUME NEW n \in Names PROVE Bare(resolved[n]) \in Seq(Letters)
  <2>1. CASE n \in User
    <3>1. resolved[n] \in Definitions  BY <2>1, <1>1
    <3> QED BY <3>1 DEF Tidy, Bare
  <2>2. CASE n \notin User
    <3>1. resolved[n] = Builtin[n] /\ Builtin[n] \in Seq(Letters)  BY <2>2, <1>1, <1>2
    <3> QED BY <3>1, <1>2, BareLetters
  <2> QED BY <2>1, <2>2
<1> QED BY <1>1, <1>3 DEF Clean

\* Values without delimiters put into a definition leave none.
LEMMA CleanOverride ==
  ASSUME Tidy, resolved \in [Names -> Seq(Letters)], NEW text \in Definitions
  PROVE  Expand(text, resolved) \in Seq(Letters)
<1>1. Names \subseteq Seq(Letters) /\ text \in ClosedTexts /\ Bare(text) \in Seq(Letters)
  BY VariablesAssumption DEF Tidy, WellFormed, ClosedTexts, Bare
<1>2. resolved \in [Names -> ClosedTexts]  BY LettersAreClosed
<1>3. \A n \in Names : Bare(resolved[n]) \in Seq(Letters)
  BY <1>1, BareLetters
<1>4. PICK e \in ClosedTexts : e = Expand(text, resolved)  BY <1>1, <1>2, ExpandClosed
<1>5. \A k \in Names : ~Mentions(e, k)
  <2> SUFFICES ASSUME NEW k \in Names, Mentions(Expand(text, resolved), k) PROVE FALSE
    BY <1>4
  <2>1. PICK m \in Names : Mentions(resolved[m], k)  BY <1>1, <1>2, ExpandKnown
  <2>2. resolved[m] \in Seq(Letters) /\ resolved \in [Names -> Text]  BY <1>2, ClosedIsText
  <2> QED BY <2>1, <2>2, <1>1, ExpandLetters
<1>6. Bare(e) = e  BY <1>1, <1>5, BareSame
<1>7. Bare(Expand(text, resolved)) \in Seq(Letters)  BY <1>1, <1>2, <1>3, ExpandBare
<1> QED BY <1>4, <1>6, <1>7

LEMMA CleanNext ==
  ASSUME Tidy, TypeOK, NEW rank \in [User -> 1..K], Resolving(rank), Resolving(rank)', Clean, [Next]_vars
  PROVE  Clean'
<1>1. Names \subseteq Seq(Letters) /\ User \subseteq Names
  BY VariablesAssumption DEF Tidy, WellFormed
<1>2. CASE ExpandNext
  <2>1. verdict = "none" /\ verdict' = "none" /\ resolved \in [Names -> ClosedTexts]
    BY <1>2 DEF ExpandNext, Resolving
  <2>2. PICK n \in Names : n = Head(todo)
    BY <1>1, <1>2, TodoIs, AmongTail DEF ExpandNext
  <2>3. resolved' = [resolved EXCEPT ![n] = Expand(resolved[n], resolved)]
    BY <2>2, <1>2 DEF ExpandNext
  <2>4. \A m \in Names : Bare(resolved[m]) \in Seq(Letters)  BY <2>1 DEF Clean
  <2>5. Bare(Expand(resolved[n], resolved)) \in Seq(Letters)
    <3>1. resolved[n] \in ClosedTexts  BY <2>1
    <3> QED BY <3>1, <2>1, <2>4, <1>1, ExpandBare
  <2>6. \A m \in Names : Bare(resolved'[m]) \in Seq(Letters)
    <3> SUFFICES ASSUME NEW m \in Names PROVE Bare(resolved'[m]) \in Seq(Letters)
      OBVIOUS
    <3>1. resolved'[m] = IF m = n THEN Expand(resolved[n], resolved) ELSE resolved[m]
      BY <2>1, <2>3
    <3> QED BY <3>1, <2>4, <2>5
  <2> QED BY <2>1, <2>6 DEF Clean, Bare
<1>3. CASE EndPass
  <2>1. verdict = "none" /\ verdict' \in {"none", "true"} /\ resolved' = resolved
    BY <1>3 DEF EndPass
  <2>2. \A m \in Names : Bare(resolved[m]) \in Seq(Letters)  BY <2>1 DEF Clean
  <2>3. ASSUME verdict' = "true" PROVE resolved \in [Names -> Seq(Letters)]
    <3>1. resolved \in [Names -> ClosedTexts] /\ \A n, m \in Names : ~Mentions(resolved[n], m)
      BY <2>1, <2>3 DEF Resolving, Settled, Mentions
    <3>2. \A n \in Names : Bare(resolved[n]) = resolved[n]  BY <3>1, <1>1, BareSame
    <3> QED BY <3>1, <3>2, <2>2
  <2> QED BY <2>1, <2>2, <2>3 DEF Clean, Bare
<1>4. CASE GiveUp
  <2>1. passes > MaxIterations /\ passes <= K + 1 /\ MaxIterations = K + 1 /\ K \in Nat /\ passes \in Nat
    BY <1>4, UserFinite DEF GiveUp, Resolving, TypeOK
  <2> QED BY <2>1
<1>5. ASSUME NEW n \in Names, NEW text \in Definitions, SetOverride(n, text) PROVE Clean'
  <2>1. verdict = "true" /\ verdict' = "overridden"
        /\ resolved' = [resolved EXCEPT ![n] = Expand(text, resolved)]
    BY <1>5 DEF SetOverride
  <2>2. resolved \in [Names -> Seq(Letters)]  BY <2>1 DEF Clean
  <2>3. Expand(text, resolved) \in Seq(Letters)  BY <2>2, CleanOverride
  <2>4. resolved' \in [Names -> Seq(Letters)]  BY <2>1, <2>2, <2>3
  <2> QED BY <2>1, <2>4 DEF Clean
<1>6. CASE UNCHANGED vars  BY <1>6 DEF Clean, Bare, vars
<1> QED BY <1>2, <1>3, <1>4, <1>5, <1>6 DEF Next

LEMMA CleanlyNext == Tidy /\ Cleanly /\ [Next]_vars => Cleanly'
<1> SUFFICES ASSUME Tidy, Cleanly, [Next]_vars PROVE Cleanly'
  OBVIOUS
<1>1. Orderly /\ Orderly' /\ TypeOK  BY OrderlyNext DEF Tidy, Cleanly, Orderly
<1> SUFFICES ASSUME Acyclic' PROVE Clean'
  BY <1>1 DEF Cleanly
<1>2. raw' = raw  BY <1>1, RanksSame
<1>3. PICK rank \in [User -> 1..K] : Ranks(rank)
  BY <1>2 DEF Acyclic, Ranks, K, RefersTo
<1>4. Ranks(rank)'  BY <1>1, <1>3, RanksSame
<1>5. Resolving(rank) /\ Resolving(rank)'  BY <1>1, <1>3, <1>4 DEF Orderly
<1>6. Clean  BY <1>3 DEF Cleanly, Acyclic, Ranks, K
<1> QED BY <1>1, <1>5, <1>6, CleanNext

LEMMA AlwaysClean ==
  ASSUME Tidy
  PROVE  Spec => []Cleanly
<1>1. Init => Cleanly  BY OrderlyInit, CleanInit DEF Cleanly, Tidy
<1>2. Cleanly /\ [Next]_vars => Cleanly'  BY CleanlyNext
<1> QED BY <1>1, <1>2, PTL DEF Spec

-----------------------------------------------------------------------------
(* Values and placeholders.                                                *)

\* A text that ends with "}", or an empty one.
Ended(q) == q = <<>> \/ q[Len(q)] = Closing

\* Letters that do not begin in w do not begin in it and end after the "}".
LEMMA NotAcross ==
  ASSUME NEW s \in Seq(Letters), NEW w \in Text, w # <<>>, Ended(w), NEW r \in Text,
         ~OccursAt(s, w, 1)
  PROVE  ~OccursAt(s, Joined(w, r), 1)
<1> SUFFICES ASSUME OccursAt(s, Joined(w, r), 1) PROVE FALSE
  OBVIOUS
<1>1. s \in Text  BY LettersAreText
<1>2. PICK t \in Text : t = Joined(w, r) /\ Joins(t, w, r)  BY JoinedText
<1>3. Len(s) \in Nat /\ Len(w) \in Nat \ {0}  BY <1>1, TextIs, NonEmpty
<1>4. OccursAt(s, t, 1)  BY <1>2
<1>5. \A j \in 1..Len(s) : t[j] = s[j]
  <2>1. \A j \in 1..Len(s) : t[1 + j - 1] = s[j]  BY <1>1, <1>4, OccursAtIs
  <2>2. \A j \in 1..Len(s) : 1 + j - 1 = j  BY <1>3
  <2> QED BY <2>1, <2>2
<1>6. \A j \in 1..Len(w) : t[j] = w[j]  BY <1>2 DEF Joins
<1>7. CASE Len(s) >= Len(w)
  <2>1. Len(w) \in 1..Len(s) /\ Len(w) \in 1..Len(w)  BY <1>3, <1>7
  <2>2. s[Len(w)] = w[Len(w)]  BY <2>1, <1>5, <1>6
  <2>3. s[Len(w)] \in Letters  BY <2>1, ElementOfSeq
  <2> QED BY <2>2, <2>3 DEF Ended, Letters
<1>8. CASE Len(s) < Len(w)
  <2>1. ASSUME NEW j \in 1..Len(s) PROVE w[1 + j - 1] = s[j]
    <3>1. j \in 1..Len(w) /\ 1 + j - 1 = j  BY <1>3, <1>8
    <3> QED BY <3>1, <1>5, <1>6
  <2>2. 1 + Len(s) - 1 <= Len(w)  BY <1>3, <1>8
  <2> QED BY <2>1, <2>2, <1>1, OccursAtIs
<1> QED BY <1>3, <1>7, <1>8

\* What ends with "}" and does not have the value in it stays.
LEMMA ReplacePast ==
  ASSUME NEW s \in Seq(Letters), s # <<>>, NEW p \in Text, NEW q \in Text, Ended(q), ~Occurs(s, q),
         NEW r \in Text
  PROVE  Replace(Joined(q, r), s, p) = Joined(q, Replace(r, s, p))
<1> DEFINE A == {w \in Text : Ended(w)}
           G == {w \in A : ~Occurs(s, w) => Replace(Joined(w, r), s, p) = Joined(w, Replace(r, s, p))}
<1>1. s \in Text  BY LettersAreText
<1>2. PICK e \in Text : e = Replace(r, s, p)  BY <1>1, ReplaceTyped
<1>3. ASSUME NEW w \in A, \A z \in A : Len(z) < Len(w) => z \in G PROVE w \in G
  <2> SUFFICES ASSUME ~Occurs(s, w) PROVE Replace(Joined(w, r), s, p) = Joined(w, Replace(r, s, p))
    OBVIOUS
  <2>1. CASE w = <<>>
    <3>1. Joined(<<>>, r) = r /\ Joined(<<>>, e) = e  BY <1>2, TextEmpty
    <3> QED BY <3>1, <2>1, <1>2
  <2>2. CASE w # <<>>
    <3>1. PICK z \in Text : w = Joined(<<w[1]>>, z) /\ Len(w) = Len(z) + 1 /\ w[1] \in Symbols
      BY <2>2, FirstSymbol DEF Text
    <3>2. PICK x \in Symbols : x = w[1]  BY <3>1
    <3>3. PICK u \in Text : u = <<x>> /\ u # <<>> /\ Len(u) = 1  BY SymbolIsText
    <3>4. w = Joined(u, z) /\ Joins(w, u, z)  BY <3>1, <3>2, <3>3, JoinedText
    <3>5. Len(z) \in Nat /\ Len(w) = 1 + Len(z) /\ Len(z) < Len(w)
      <4>1. Len(z) \in Nat  BY TextIs
      <4> QED BY <4>1, <3>1
    <3>6. Ended(z)
      <4>1. CASE z = <<>>  BY <4>1 DEF Ended
      <4>2. CASE z # <<>>
        <5>1. Len(z) \in 1..Len(z)
          <6>1. Len(z) \in Nat \ {0}  BY <4>2, NonEmpty
          <6> QED BY <6>1
        <5>2. w[Len(u) + Len(z)] = z[Len(z)]  BY <5>1, <3>4 DEF Joins
        <5>3. w[Len(w)] = Closing  BY <2>2 DEF Ended
        <5> QED BY <5>2, <5>3, <3>3, <3>5 DEF Ended
      <4> QED BY <4>1, <4>2
    <3>7. ~Occurs(s, z) /\ ~OccursAt(s, w, 1)
      <4>1. ~Occurs(s, Joined(u, z))  BY <3>4
      <4>2. ~Occurs(s, z) /\ ~OccursAt(s, Joined(u, z), 1)  BY <4>1, <3>3, <1>1, OccursIs
      <4> QED BY <4>2, <3>4
    <3>8. Replace(Joined(z, r), s, p) = Joined(z, e)  BY <3>5, <3>6, <3>7, <1>2, <1>3
    <3>9. PICK y \in Text : y = Joined(z, r)  BY JoinedText
    <3>10. Joined(w, r) = Joined(u, y)  BY <3>3, <3>4, <3>9, TextAssoc
    <3>11. ~OccursAt(s, Joined(u, y), 1)
      <4>1. ~OccursAt(s, Joined(w, r), 1)  BY <2>2, <3>7, NotAcross
      <4> QED BY <4>1, <3>10
    <3>12. Replace(Joined(u, y), s, p) = Joined(u, Replace(y, s, p))
      BY <3>3, <3>11, <1>1, ReplaceMiss
    <3>13. Joined(w, e) = Joined(u, Joined(z, e))  BY <3>3, <3>4, TextAssoc
    <3> QED BY <3>8, <3>9, <3>10, <3>12, <3>13, <1>2
  <2> QED BY <2>1, <2>2
<1>4. \A w \in A : w \in G
  <2>1. A \in SUBSET Seq(Symbols)  BY DEF Text
  <2> HIDE DEF A, G
  <2> QED BY <2>1, <1>3, EveryText
<1> QED BY <1>4

LEMMA PlaceholderEnded ==
  ASSUME NEW n \in Text
  PROVE  Ended(Placeholder(n))
<1>1. PICK p \in Text : p = Placeholder(n) /\ Delimits(p, n)  BY PlaceholderIs
<1>2. Len(p) = Len(n) + 2 /\ p[Len(n) + 2] = Closing  BY <1>1 DEF Delimits
<1> QED BY <1>1, <1>2 DEF Ended

\* Texts of letters and of references to the variables d.
Fine(d) ==
    {t \in ClosedTexts : Bare(t) \in Seq(Letters) /\ \A k \in Names : Mentions(t, k) => k \in d}

LEMMA FineEmpty ==
  ASSUME NEW d
  PROVE  <<>> \in Fine(d)
<1>1. Bare(<<>>) = <<>>  BY BareTyped, ExpandEmpty DEF Bare
<1>2. <<>> \in Seq(Letters)  BY EmptySeq
<1> QED BY <1>1, <1>2, EmptyClosed, MentionsEmpty DEF Fine

LEMMA FinePlaceholder ==
  ASSUME Names \subseteq Seq(Letters), NEW d \in SUBSET Names, NEW n \in Names, NEW r \in ClosedTexts
  PROVE  Joined(Placeholder(n), r) \in Fine(d) <=> n \in d /\ r \in Fine(d)
<1>1. Joined(Placeholder(n), r) \in ClosedTexts
      /\ \A k \in Names : Mentions(Joined(Placeholder(n), r), k) <=> n = k \/ Mentions(r, k)
  BY NamesArePlain
<1>2. Bare(Joined(Placeholder(n), r)) = Bare(r)
  <2> DEFINE none == [k \in Names |-> <<>>]
  <2>1. none \in [Names -> Text] /\ none[n] = <<>> /\ \A t : Bare(t) = Expand(t, none)
    BY BareTyped DEF Bare
  <2>2. r \in Text  BY ClosedIsText
  <2> HIDE DEF none
  <2>3. Bare(r) \in Text  BY <2>1, <2>2, ExpandTyped
  <2>4. Expand(Joined(Placeholder(n), r), none) = Joined(none[n], Expand(r, none))
    BY <2>1, <2>2, ExpandHit
  <2>5. Bare(Joined(Placeholder(n), r)) = Joined(<<>>, Bare(r))  BY <2>1, <2>4
  <2> QED BY <2>3, <2>5, TextEmpty
<1> QED BY <1>1, <1>2 DEF Fine

LEMMA FineLetters ==
  ASSUME Names \subseteq Seq(Letters), NEW d \in SUBSET Names, NEW s \in Seq(Letters), NEW r \in Text
  PROVE  Joined(s, r) \in Fine(d) <=> r \in Fine(d)
<1>1. s \in ClosedTexts /\ s \in Text  BY LettersAreClosed, ClosedIsText
<1>2. Joined(s, r) \in ClosedTexts <=> r \in ClosedTexts
  <2>1. r \in ClosedTexts => Joined(s, r) \in ClosedTexts  BY <1>1, ClosedJoined
  <2>2. Joined(s, r) \in ClosedTexts => r \in ClosedTexts  BY <1>1, ClosedTail DEF ClosedTexts
  <2> QED BY <2>1, <2>2
<1>3. ASSUME NEW k \in Names PROVE Mentions(Joined(s, r), k) <=> Mentions(r, k)
  <2>1. k \in Seq(Letters)  OBVIOUS
  <2>2. Mentions(Joined(s, r), k) <=> Mentions(s, k) \/ Mentions(r, k)  BY <2>1, <1>1, MentionsJoined
  <2>3. ~Mentions(s, k)  BY BareTyped, ExpandLetters
  <2> QED BY <2>2, <2>3
<1>4. Bare(Joined(s, r)) \in Seq(Letters) <=> Bare(r) \in Seq(Letters)
  <2>1. Bare(r) \in Text  BY BareTyped, ExpandTyped DEF Bare
  <2>2. Bare(Joined(s, r)) = Joined(s, Bare(r))
    <3>1. Bare(Joined(s, r)) = Joined(Bare(s), Bare(r))
      BY <1>1, BareTyped, ExpandConcat DEF Bare
    <3> QED BY <3>1, BareLetters
  <2>3. Joined(s, Bare(r)) \in Seq(Letters) => Bare(r) \in Seq(Letters)
    BY <2>1, <1>1, JoinedLetters
  <2>4. Bare(r) \in Seq(Letters) => Joined(s, Bare(r)) \in Seq(Letters)  BY JoinedIs
  <2> QED BY <2>2, <2>3, <2>4
<1> QED BY <1>2, <1>3, <1>4 DEF Fine

\* Such a text begins with a reference to one of d or with a letter.
LEMMA FineSplits ==
  ASSUME Names \subseteq Seq(Letters), NEW d \in SUBSET Names, NEW t \in Fine(d), t # <<>>
  PROVE  \E r \in Fine(d) : Len(r) < Len(t) /\
            (\/ \E n \in d : t = Joined(Placeholder(n), r)
             \/ \E x \in Letters : t = Joined(<<x>>, r))
<1>1. t \in ClosedTexts /\ Bare(t) \in Seq(Letters)  BY DEF Fine
<1>2. PICK u \in Others \cup {Placeholder(n) : n \in Names}, r \in ClosedTexts :
        t = Joined(u, r) /\ Len(r) < Len(t)
  BY <1>1, ClosedSplits
<1>3. r \in Text  BY ClosedIsText
<1>4. CASE u \in {Placeholder(n) : n \in Names}
  <2>1. PICK n \in Names : u = Placeholder(n)  BY <1>4
  <2>2. n \in d /\ r \in Fine(d)  BY <2>1, <1>2, FinePlaceholder
  <2> QED BY <2>1, <2>2, <1>2
<1>5. CASE u \in Others
  <2>1. u \in Text /\ Bare(r) \in Text
    <3>1. u \in Text  BY <1>5, OtherIs
    <3>2. Bare(r) \in Text  BY <1>3, BareTyped, ExpandTyped DEF Bare
    <3> QED BY <3>1, <3>2
  <2>2. Bare(Joined(u, r)) = Joined(u, Bare(r))  BY <1>3, <1>5, BareTyped, ExpandOther DEF Bare
  <2>3. Joined(u, Bare(r)) \in Seq(Letters)  BY <2>2, <1>1, <1>2
  <2>4. u \in Seq(Letters)  BY <2>1, <2>3, JoinedLetters
  <2>5. r \in Fine(d)  BY <2>4, <1>2, <1>3, FineLetters
  <2>6. ASSUME NEW x \in Symbols, u = <<x>> PROVE x \in Letters
    <3>1. Len(u) = 1 /\ u[1] = x  BY <2>6, SymbolIsText
    <3>2. 1 \in 1..Len(u)  BY <3>1
    <3> QED BY <3>1, <3>2, <2>4, ElementOfSeq
  <2>7. ASSUME NEW w \in Seq(Letters), u = Placeholder(w) PROVE FALSE
    <3>1. w \in Text  BY LettersAreText
    <3>2. PICK p \in Text : p = Placeholder(w) /\ Delimits(p, w)  BY <3>1, PlaceholderIs
    <3>3. Len(w) \in Nat /\ Len(p) = Len(w) + 2 /\ p[1] = Opening  BY <3>1, <3>2, TextIs DEF Delimits
    <3>4. 1 \in 1..Len(p)  BY <3>3
    <3>5. p[1] \in Letters  BY <3>2, <3>4, <2>4, <2>7, ElementOfSeq
    <3> QED BY <3>3, <3>5 DEF Letters
  <2>8. PICK x \in Symbols : u = <<x>>  BY <2>7, <1>5 DEF Others
  <2> QED BY <2>5, <2>6, <2>8, <1>2
<1> QED BY <1>2, <1>4, <1>5

LEMMA FineMore ==
  ASSUME NEW d, NEW n, NEW t \in Fine(d)
  PROVE  t \in Fine(d \cup {n}) /\ t \in ClosedTexts /\ t \in Text
BY ClosedIsText DEF Fine

\* t is the text with the references to d, and expands to the same.
Portable(t, d, text) == t \in Fine(d) /\ Expand(t, resolved) = text

\* One value after the other becomes its placeholder, and no placeholder is broken.
LEMMA ReplaceFine ==
  ASSUME Names \subseteq Seq(Letters), resolved \in [Names -> Seq(Letters)],
         NEW d \in SUBSET Names, NEW n \in Names, n \notin d, resolved[n] # <<>>,
         \A m \in Names : m # n => ~Occurs(resolved[n], Placeholder(m)),
         NEW t \in Fine(d)
  PROVE  Portable(Replace(t, resolved[n], Placeholder(n)), d \cup {n}, Expand(t, resolved))
<1> DEFINE e == d \cup {n}
<1>1. PICK s \in Seq(Letters) : s = resolved[n] /\ s # <<>>  OBVIOUS
<1>2. s \in Text /\ s \in ClosedTexts  BY LettersAreText, LettersAreClosed
<1>3. PICK p \in Text : p = Placeholder(n)  BY NameIsText
<1>4. resolved \in [Names -> Text]  BY LettersAreText
<1>5. e \in SUBSET Names /\ n \in e /\ d \subseteq e  OBVIOUS
<1>6. \A a \in Text : Expand(a, resolved) \in Text /\ Replace(a, s, p) \in Text
  BY <1>1, <1>2, <1>4, ExpandTyped, ReplaceTyped
<1> DEFINE G == {a \in Fine(d) : Portable(Replace(a, s, p), e, Expand(a, resolved))}
<1>7. ASSUME NEW a \in Fine(d), \A z \in Fine(d) : Len(z) < Len(a) => z \in G PROVE a \in G
  <2> HIDE DEF e
  <2>1. CASE a = <<>>
    <3>1. Replace(<<>>, s, p) = <<>> /\ Expand(<<>>, resolved) = <<>>
      BY <1>1, <1>2, <1>4, ReplaceEmpty, ExpandEmpty
    <3>2. <<>> \in Fine(e)  BY FineEmpty
    <3> QED BY <2>1, <3>1, <3>2 DEF Portable
  <2>2. CASE a # <<>>
    <3>1. PICK r \in Fine(d) : Len(r) < Len(a) /\
            (\/ \E m \in d : a = Joined(Placeholder(m), r)
             \/ \E x \in Letters : a = Joined(<<x>>, r))
      BY <2>2, FineSplits
    <3>2. r \in Text /\ a \in Text  BY FineMore
    <3>3. ASSUME NEW z \in Fine(d), Len(z) < Len(a)
          PROVE  /\ z \in Text /\ Replace(z, s, p) \in Text /\ Replace(z, s, p) \in ClosedTexts
                 /\ Replace(z, s, p) \in Fine(e)
                 /\ Expand(Replace(z, s, p), resolved) = Expand(z, resolved)
      <4>1. Portable(Replace(z, s, p), e, Expand(z, resolved))  BY <3>3, <1>7
      <4> QED BY <4>1, FineMore DEF Portable
    <3>4. PICK y \in Fine(e) : y = Replace(r, s, p) /\ y \in Text /\ y \in ClosedTexts
                               /\ Expand(y, resolved) = Expand(r, resolved)
      BY <3>1, <3>3
    <3>5. ASSUME NEW m \in d, a = Joined(Placeholder(m), r)
          PROVE  Portable(Replace(a, s, p), e, Expand(a, resolved))
      <4>1. m \in Names /\ m \in e /\ m # n  BY <1>5
      <4>2. PICK q \in Text : q = Placeholder(m) /\ Ended(q) /\ ~Occurs(s, q)
        BY <4>1, <1>1, NameIsText, PlaceholderEnded
      <4>3. Replace(Joined(q, r), s, p) = Joined(q, y)
        BY <4>2, <3>2, <3>4, <1>1, ReplacePast
      <4>4. Joined(Placeholder(m), y) \in Fine(e)  BY <4>1, <3>4, <1>5, FinePlaceholder
      <4>5. Expand(Joined(Placeholder(m), y), resolved) = Joined(resolved[m], Expand(y, resolved))
            /\ Expand(Joined(Placeholder(m), r), resolved) = Joined(resolved[m], Expand(r, resolved))
        BY <4>1, <3>2, <3>4, <1>4, ExpandHit
      <4> QED BY <4>2, <4>3, <4>4, <4>5, <3>4, <3>5 DEF Portable
    <3>6. ASSUME OccursAt(s, a, 1)
          PROVE  Portable(Replace(a, s, p), e, Expand(a, resolved))
      <4>1. PICK z \in Text : a = Joined(s, z)  BY <3>2, <3>6, <1>2, FrontSplits
      <4>2. z \in Fine(d)  BY <4>1, FineLetters
      <4>3. Len(z) < Len(a)
        <5>1. Len(s) \in Nat \ {0} /\ Len(z) \in Nat  BY <1>1, <1>2, NonEmpty, TextIs
        <5>2. Len(a) = Len(s) + Len(z)  BY <4>1, <1>2, JoinedText DEF Joins
        <5> QED BY <5>1, <5>2
      <4>4. PICK b \in Fine(e) : b = Replace(z, s, p) /\ b \in Text /\ b \in ClosedTexts
                                 /\ Expand(b, resolved) = Expand(z, resolved)
        BY <4>2, <4>3, <3>3
      <4>5. Replace(Joined(s, z), s, p) = Joined(p, b)  BY <4>4, <1>1, <1>2, ReplaceHit
      <4>6. Joined(Placeholder(n), b) \in Fine(e)  BY <4>4, <1>5, FinePlaceholder
      <4>7. Expand(Joined(Placeholder(n), b), resolved) = Joined(s, Expand(b, resolved))
        BY <4>4, <1>1, <1>4, ExpandHit
      <4>8. Expand(Joined(s, z), resolved) = Joined(s, Expand(z, resolved))
        <5>1. Expand(s, resolved) = s  BY <1>4, ExpandLetters
        <5>2. Expand(Joined(s, z), resolved) = Joined(Expand(s, resolved), Expand(z, resolved))
          BY <1>2, <1>4, ExpandConcat
        <5> QED BY <5>1, <5>2
      <4> QED BY <4>1, <4>4, <4>5, <4>6, <4>7, <4>8, <1>3 DEF Portable
    <3>7. ASSUME NEW x \in Letters, a = Joined(<<x>>, r), ~OccursAt(s, a, 1)
          PROVE  Portable(Replace(a, s, p), e, Expand(a, resolved))
      <4>1. x \in Symbols /\ <<x>> \in Seq(Letters) /\ <<x>> \in Others
        BY DEF Letters, Others
      <4>2. Replace(Joined(<<x>>, r), s, p) = Joined(<<x>>, y)
        BY <4>1, <3>2, <3>4, <3>7, <1>1, <1>2, ReplaceMiss
      <4>3. Joined(<<x>>, y) \in Fine(e)  BY <4>1, <3>4, <1>5, FineLetters
      <4>4. Expand(Joined(<<x>>, y), resolved) = Joined(<<x>>, Expand(y, resolved))
            /\ Expand(Joined(<<x>>, r), resolved) = Joined(<<x>>, Expand(r, resolved))
        BY <4>1, <3>2, <3>4, <1>4, ExpandOther
      <4> QED BY <4>2, <4>3, <4>4, <3>4, <3>7 DEF Portable
    <3> QED BY <3>1, <3>5, <3>6, <3>7
  <2> QED BY <2>1, <2>2
<1>8. \A a \in Fine(d) : a \in G
  <2> DEFINE A == Fine(d)
  <2>1. A \in SUBSET Seq(Symbols)  BY DEF Fine, ClosedTexts, Text
  <2>2. \A a \in A : (\A z \in A : Len(z) < Len(a) => z \in G) => a \in G  BY <1>7
  <2> HIDE DEF A, G
  <2>3. \A a \in A : a \in G  BY <2>1, <2>2, EveryText
  <2> QED BY <2>3 DEF A
<1> QED BY <1>1, <1>3, <1>8

LEMMA PortableNext ==
  ASSUME Names \subseteq Seq(Letters), TypeOK, resolved \in [Names -> Seq(Letters)], ~Clash,
         NEW text, NEW f, Unresolves(f, Valued, text),
         NEW d \in SUBSET Valued, d # {}, NEW s, s = Shortest(d),
         Portable(f[d \ {s}], d \ {s}, text)
  PROVE  Portable(f[d], d, text)
<1>1. s \in d /\ s \in Valued /\ s \in Names /\ resolved[s] # <<>>
  <2>1. s \in d  BY ShortestIs
  <2> QED BY <2>1, ValuedIs
<1>2. \A m \in Names : m # s => ~Occurs(resolved[s], Placeholder(m))  BY <1>1 DEF Clash
<1>3. f[d] = Replace(f[d \ {s}], resolved[s], Placeholder(s))  BY UnresolvesIs
<1>4. d \ {s} \in SUBSET Names /\ s \notin d \ {s} /\ (d \ {s}) \cup {s} = d
  BY <1>1, ValuedFinite
<1>5. f[d \ {s}] \in Fine(d \ {s}) /\ Expand(f[d \ {s}], resolved) = text  BY DEF Portable
<1>6. Portable(Replace(f[d \ {s}], resolved[s], Placeholder(s)), (d \ {s}) \cup {s},
               Expand(f[d \ {s}], resolved))
  BY <1>1, <1>2, <1>4, <1>5, ReplaceFine
<1> QED BY <1>3, <1>4, <1>5, <1>6

LEMMA CleanlyRoundTrip ==
  ASSUME Tidy, Cleanly
  PROVE  RoundTrip
<1> SUFFICES ASSUME verdict \in {"true", "overridden"}, Acyclic, ~Clash, NEW text \in Samples
             PROVE  Resolve(Unresolve(text)) = text
  BY DEF RoundTrip
<1>1. TypeOK /\ resolved \in [Names -> Seq(Letters)]  BY DEF Cleanly, Orderly, Clean
<1>2. Names \subseteq Seq(Letters) /\ text \in Seq(Letters)  BY DEF Tidy, WellFormed
<1>3. PICK f : Unresolves(f, Valued, text) /\ Unresolve(text) = f[Valued]  BY <1>1, UnresolveIs
<1> DEFINE G == {d \in SUBSET Valued : Portable(f[d], d, text)}
<1>4. {} \in G
  <2>1. f[{}] = text  BY <1>3, UnresolvesIs
  <2>2. text \in ClosedTexts /\ Bare(text) = text  BY <1>2, LettersAreClosed, BareLetters
  <2>3. \A k \in Names : ~Mentions(text, k)  BY <1>2, BareTyped, ExpandLetters
  <2>4. Expand(text, resolved) = text
    <3>1. resolved \in [Names -> Text]  BY <1>1 DEF TypeOK
    <3> QED BY <3>1, <1>2, ExpandLetters
  <2> QED BY <2>1, <2>2, <2>3, <2>4, <1>2 DEF Portable, Fine
<1>5. ASSUME NEW d \in SUBSET Valued, d # {}, d \ {Shortest(d)} \in G
      PROVE  d \in G
  BY <1>1, <1>2, <1>3, <1>5, PortableNext
<1>6. Valued \in G
  <2> HIDE DEF G
  <2> QED BY <1>1, <1>4, <1>5, EveryDone
<1> QED BY <1>3, <1>6 DEF Portable, Resolve

\* Unless a value occurs in the placeholder of another variable, a text that a backup has
\* made portable is, when a restore resolves it with the same variables, what it was
\* (unresolve and resolve, after resolve_user_variables or set_override).
THEOREM AlwaysRoundTrip ==
  ASSUME Tidy
  PROVE  Spec => []RoundTrip
<1>1. Cleanly => RoundTrip  BY CleanlyRoundTrip
<1> QED BY <1>1, AlwaysClean, PTL
=============================================================================
