------------------------------- MODULE MCGuard -------------------------------
(* Instances of Guard for TLC. *)
EXTENDS Guard, TLC

CONSTANTS t1, t2, r1, r2, c1, c2

\* Two routes with a client each; the second client moved to the first route; the second
\* route disabled.
TwoRoutes == [r \in Routes |-> IF r = r1 THEN {c1} ELSE {c2}]
Moved == [r \in Routes |-> IF r = r1 THEN {c1, c2} ELSE {}]
OneRoute == [r \in {r1} |-> {c1}]

MCLayouts == {TwoRoutes, Moved, OneRoute}
JustOneRoute == {OneRoute}

\* A round may be cut anywhere but between the sets and guard.json.
CutBeforeLease == {"probe", "lease"}
Nowhere == {}

\* Every call of nft, or only the one whose failure nobody is told.
AnyCall == {"list", "lease", "flush"}
OnlyList == {"list"}
=============================================================================
