--------------------------- MODULE MCRegistryView ---------------------------
(* The instance for TLC: one project, and two snapshots, of which one is     *)
(* outside of the roots and found by no scan; three registries for the GUI.  *)
EXTENDS RegistryView

CONSTANTS cli, gui, own, g1, g2, g3, app, f1, f2, p1, p2

ProjectsMC == {app}
NamesMC == {p1, p2}
FileOfMC == [n \in NamesMC |-> IF n = p1 THEN f1 ELSE f2]
ScanOrderMC == <<p1>>
MentionsMC == [x \in ProjectsMC |-> {x}]
=============================================================================
