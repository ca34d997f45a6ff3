---------------------------- MODULE MCOperations ----------------------------
(* An instance of Operations for TLC. *)
EXTENDS Operations

CONSTANTS s1, s2
=============================================================================
