----------------------------- MODULE MCRegistry -----------------------------
(* Instances for TLC: three snapshots, of which one is outside of the roots  *)
(* under its second name, of two projects.                                   *)
EXTENDS InstallStatus

CONSTANTS cli, own, app, tool, f1, f2, p1, p2, q2

ProjectsMC == {app, tool}
FilesMC == {f1, f2}
NamesMC == {p1, p2, q2}
FileOfMC == [n \in NamesMC |-> IF n = p1 THEN f1 ELSE f2]
ScanOrderMC == <<p1, p2>>
\* The blueprint of the tool has a variable named like the application.
MentionsMC == [x \in ProjectsMC |-> {x, app}]
=============================================================================
