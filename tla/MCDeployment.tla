---------------------------- MODULE MCDeployment ----------------------------
(* Instances of Deployment for TLC. *)
EXTENDS Deployment

EveryCall == Commands
EveryWrite == Steps
EveryCommand == Commands \cup {"config"}
Anytime == EveryCommand \cup {"none"}

\* Holders of the lock that take longer than ten seconds.
LongHolders == Bootstraps \cup {"config"}
=============================================================================
