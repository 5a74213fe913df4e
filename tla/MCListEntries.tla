---------------------------- MODULE MCListEntries ----------------------------
(* The instance for TLC: an entry in two spellings, the entry of another      *)
(* program, and an entry in which the delimiter separates these two.          *)
EXTENDS ListEntries

CONSTANTS c1, c2, a, A, b, ab

ClientSymmetry == Permutations({c1, c2})
StringsMC == {a, A, b, ab}
EntriesMC == {a, ab}
FoldedMC == [s \in StringsMC |-> IF s = A THEN a ELSE s]
PiecesMC == [s \in StringsMC |-> IF s = ab THEN <<a, b>> ELSE <<s>>]
=============================================================================
