---------------------------- MODULE MCIspIdentity ----------------------------
(* Instances of IspIdentity for TLC. *)
EXTENDS IspIdentity

CONSTANTS i1, i2, e1, e2, g1, ip1, ip2, r1, r2

Nothing == {}
OneIsp == {i1}
OneExit == {e1}
OneGateway == {g1}
TwoIPs == {ip1, ip2}
OneRequest == {r1}

\* Every exit uses the first ISP; there is one gateway.
FirstIsp == [e \in Exits |-> i1]
FirstHome == [i \in Isps |-> g1]
SameGateway == [e \in Exits |-> g1]
=============================================================================
