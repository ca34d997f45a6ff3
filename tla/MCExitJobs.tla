----------------------------- MODULE MCExitJobs -----------------------------
(* Instances of ExitJobs for TLC. *)
EXTENDS ExitJobs, TLC

CONSTANTS e1, e2, s1, s2, t0, t1, t2, t3

Nowhere == {}
Everywhere == Workers \X Steps

\* What ReadyIsDeployed tolerates: a deletion that is neither cut off nor interrupted
\* between its commit and its record.
CommitOfDelete == {<<"http", "commit">>}
ButCommitOfDelete == Everywhere \ CommitOfDelete
ButEndOfDelete == Everywhere \ {<<"http", "commit">>, <<"http", "record">>}

\* The writes that end a job of the lane, and with them the one that takes a job.
LaneWrites == {"lane"} \X {"record", "fail"}
LaneDb == LaneWrites \cup {<<"lane", "take">>}

\* And those that end a deletion.
EveryDb == LaneDb \cup ({"http"} \X {"record", "fail"})

Symmetry == Permutations(Tx \ {First}) \cup Permutations(Subs)
=============================================================================
