--------------------------- MODULE MCSubscriptions ---------------------------
(* An instance of Subscriptions for TLC: an ISP and a direct exit on one gateway, an ISP on *)
(* another.                                                                                 *)
EXTENDS Subscriptions, TLC

CONSTANTS e1, e2, e3, gwA, gwB, g1, g2, a1, a2, t1, t2

MCGatewayOf == (e1 :> gwA) @@ (e2 :> gwA) @@ (e3 :> gwB)

MCSymmetry == Permutations({t1, t2}) \cup Permutations({a1, a2})
=============================================================================
