----------------------------- MODULE MCVariables -----------------------------
(* The instance for TLC: three variables that may refer to each other and to  *)
(* a built-in one, and of which the value of one may be the name of another;  *)
(* and a built-in one that is not looked for in texts.                        *)
EXTENDS Variables

a == <<"a">>
b == <<"b">>
c == <<"c">>
p == <<"p">>
s == <<"s">>

SymbolsMC == {"a", "b", "c", "p", "s", "x", "y", Opening, Closing}
NamesMC == {a, b, c, p, s}
UserMC == {a, b, c}
BuiltinMC == [n \in {p, s} |-> IF n = p THEN <<"x", "y">> ELSE <<"y">>]
DefinitionsMC == {<<"x">>, b, Placeholder(a), Placeholder(b), Placeholder(c) \o <<"y">>,
                  Placeholder(p) \o Placeholder(b)}
SkippedMC == {s}
SamplesMC == UNION {[1 .. n -> {"x", "y", "b"}] : n \in 0 .. 3}

ASSUME Tidy
=============================================================================
