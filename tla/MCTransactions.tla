--------------------------- MODULE MCTransactions ---------------------------
(* Instances of Transactions for TLC. *)
EXTENDS Transactions, TLC

CONSTANTS t1, t2, t3, g1, g2

Everywhere == Kinds \X Steps

\* Between the restored config.json and the restored manifest.json.
HalfRestored == RollbackKinds \X {"firewall", "manifest"}
\* Between the removal of meta.json and that of its directory.
HalfRemoved == Kinds \X {"rmdir"}

FailAnywhereButHalfRestored ==
    ({"apply"} \X (ApplySteps \ {"check"})) \cup
    ((RollbackKinds \X (RollbackSteps \ {"rmdir", "timer"})) \ HalfRestored)
KillAnywhereButHalfRestored == Everywhere \ (HalfRestored \cup {<<"none", "idle">>})
RebootAnywhereButHalfRestored == Everywhere \ HalfRestored

\* What the liveness properties tolerate: anything but the three windows the README
\* names (pending published and no timer yet, a boot whose only
\* recovery attempt fails, meta.json gone and its directory still there).
FailWatched ==
    FailAnywhereButHalfRestored \ ({<<"apply", "arm">>} \cup ({"boot"} \X Steps))
KillWatched ==
    KillAnywhereButHalfRestored \
        (HalfRemoved \cup {<<"apply", "arm">>} \cup ({"boot"} \X Steps))
RebootWatched == RebootAnywhereButHalfRestored \ HalfRemoved

Symmetry == Permutations(Tx) \cup Permutations(Groups)
=============================================================================
