----------------------------- MODULE MCSessions -----------------------------
(* An instance of Sessions for TLC: two sources, two threads, a hash before   *)
(* and one after a reset, a token to come with and one to leave with.         *)
EXTENDS Sessions

CONSTANTS s1, s2, l1, l2, h1, h2, k1, k2
=============================================================================
