-------------------------------- MODULE Guard --------------------------------
(***************************************************************************)
(* The guard of a gateway: gateways/guard.py, run every 15 seconds by      *)
(* guard.timer.  A round snapshots the manifest under the configuration    *)
(* lock, probes every enabled route through the running core without the   *)
(* lock, takes the lock again and, when the manifest is still the one it   *)
(* saw, opens the phone ports of the routes that deserve it: an nftables   *)
(* set for the direct ports, whose elements lapse after 70 seconds, and    *)
(* one for the HTTPS ingress, whose elements do not.                       *)
(*                                                                         *)
(* Its environment is the transaction protocol of Transactions, reduced to *)
(* what the guard can tell apart: which manifest is installed, what the    *)
(* core runs, whether a version is on trial and who holds the lock.  The   *)
(* sets belong to the kernel: loading the firewall file again does not     *)
(* touch them ("flush table" removes the rules of a table, not the         *)
(* elements of its sets), a reboot does.  A rollback is one step here;     *)
(* Transactions takes it apart.                                            *)
(*                                                                         *)
(* Simplifications: the probes of a route see one core; a lease may lapse  *)
(* at any time; a round that finds the lock taken may do so at any time,   *)
(* since short holders of the lock (a commit, a restart) are single steps; *)
(* the firewall always has the set of the HTTPS ports.                     *)
(***************************************************************************)
EXTENDS Naturals

CONSTANTS
    Tx, Routes, Clients, None,
    Layouts,     \* the configurations: the clients of every enabled route
    KillAt,      \* steps of a round before which its process may be killed
    NftFails,    \* which calls of nft may fail: "list" the HTTPS set, "lease", "flush"
    MayUpgrade,  \* TRUE: the gateway may have run an older release
    MaxStreak,   \* bound: failures in a row that are counted
    MaxFaults    \* bound: kills, failed calls and reboots of one behaviour

\* A client is bound to one route, and its port number is its own.
ASSUME LayoutsOK ==
    \A l \in Layouts :
        /\ DOMAIN l \subseteq Routes
        /\ \A r \in DOMAIN l : l[r] \subseteq Clients
        /\ \A r, s \in DOMAIN l : r # s => l[r] \cap l[s] = {}

ASSUME BoundsOK == MaxFaults \in Nat /\ MaxStreak \in Nat \ {0}

VARIABLES
    manifest,   \* manifest.json: the version installed, or None
    pending,    \* the version on trial, or None
    saved,      \* the manifest a rollback of the trial restores
    core,       \* the version the core runs and the firewall file was rendered from
    used,       \* transactions begun
    lock,       \* who holds /run/lock/pfem-gateway.lock: "apply", "guard" or None
    guard,      \* the round that is under way
    state,      \* guard.json, or None
    live, tls,  \* the clients in the sets pfem_live and pfem_tls_live
    evidence,   \* history: evidence[t][r] is the last definite outcome for route r under
                \* transaction t, of apply() or of a round
    skipped,    \* history: the last update of the sets left the HTTPS set alone
    faults

configVars == <<manifest, pending, saved, core, used>>
sets == <<live, tls, skipped>>
vars == <<configVars, lock, guard, state, sets, evidence, faults>>

Version == [tx : Tx, layout : Layouts]

\* How a probe ends: every address as expected, a wrong one or an expired contract, no
\* usable answer, or no worker that took it within the budget.
OutcomeKinds == {"ok", "hard", "soft", "late"}

\* A row of guard.json: ingress_open, whether last_success_at is set, failure_streak.
Row == [open : BOOLEAN, success : BOOLEAN, streak : 0..MaxStreak]

Idle == [step |-> "idle", seen |-> None, outcomes |-> None, rows |-> None, error |-> FALSE]

Enabled(version) == DOMAIN version.layout

PartialOver(S, R) == UNION {[D -> R] : D \in SUBSET S}

\* What a round keeps between its steps, and guard.json.
Rounds ==
    [step : {"probe"}, seen : Version, outcomes : PartialOver(Routes, OutcomeKinds \cup {None}),
     rows : {None}, error : {FALSE}]
    \cup [step : {"lease", "flush", "write"}, seen : Version,
          outcomes : PartialOver(Routes, OutcomeKinds), rows : PartialOver(Routes, Row),
          error : BOOLEAN]

Report == [tx : Tx, rows : PartialOver(Routes, Row), error : BOOLEAN]

ASSUME NoneOK == None \notin Version \cup OutcomeKinds \cup Report \cup {"apply", "guard"}

Updating == guard.step \in {"lease", "flush", "write"}

TypeOK ==
    /\ manifest \in Version \cup {None} /\ pending \in Version \cup {None}
    /\ saved \in Version \cup {None} /\ core \in Version \cup {None}
    /\ used \in SUBSET Tx
    /\ lock \in {"apply", "guard", None}
    /\ guard = Idle \/ /\ guard \in Rounds
                       /\ DOMAIN guard.outcomes = Enabled(guard.seen)
                       /\ Updating => DOMAIN guard.rows = Enabled(guard.seen)
    /\ lock = "guard" <=> Updating
    /\ state \in Report \cup {None}
    /\ live \in SUBSET Clients /\ tls \in SUBSET Clients /\ skipped \in BOOLEAN
    /\ evidence \in [Tx -> [Routes -> {"none", "ok", "hard"}]]
    /\ faults \in 0..MaxFaults

Init ==
    /\ manifest = None /\ pending = None /\ saved = None /\ core = None
    /\ used = {} /\ lock = None /\ guard = Idle /\ state = None
    /\ live = {} /\ tls = {} /\ skipped = FALSE
    /\ evidence = [t \in Tx |-> [r \in Routes |-> "none"]]
    /\ faults = 0

Strike == faults < MaxFaults /\ faults' = faults + 1

-----------------------------------------------------------------------------
(* The environment: transactions, restarts, reboots *)

BeginApply(t, l) ==
    /\ lock = None /\ pending = None
    /\ t \notin used
    /\ used' = used \cup {t}
    /\ pending' = [tx |-> t, layout |-> l]
    /\ saved' = manifest
    /\ lock' = "apply"
    /\ UNCHANGED <<manifest, core, guard, state, sets, evidence, faults>>

SwitchCore ==
    /\ lock = "apply" /\ core # pending
    /\ core' = pending
    /\ UNCHANGED <<manifest, pending, saved, used, lock, guard, state, sets, evidence, faults>>

\* apply() verified every enabled exit, wrote the manifest and answered.
FinishApply ==
    /\ lock = "apply" /\ core = pending
    /\ evidence' = [evidence EXCEPT ![pending.tx] =
          [r \in Routes |-> IF r \in Enabled(pending) THEN "ok" ELSE @[r]]]
    /\ manifest' = pending
    /\ lock' = None
    /\ UNCHANGED <<pending, saved, core, used, guard, state, sets, faults>>

Restore ==
    /\ manifest' = saved /\ core' = saved /\ pending' = None
    /\ UNCHANGED <<saved, used>>

UndoApply ==
    /\ lock = "apply"
    /\ Restore
    /\ lock' = None
    /\ UNCHANGED <<guard, state, sets, evidence, faults>>

KillApply ==
    /\ lock = "apply"
    /\ Strike
    /\ lock' = None
    /\ UNCHANGED <<configVars, guard, state, sets, evidence>>

Commit ==
    /\ lock = None /\ pending # None /\ manifest = pending
    /\ pending' = None
    /\ UNCHANGED <<manifest, saved, core, used, lock, guard, state, sets, evidence, faults>>

\* By the timer, or typed by root.
Rollback ==
    /\ lock = None /\ pending # None
    /\ Restore
    /\ UNCHANGED <<lock, guard, state, sets, evidence, faults>>

\* recover.service decides a trial before the firewall and the core start.
Reboot ==
    /\ guard.step \in KillAt \cup {"idle"}
    /\ Strike
    /\ IF pending = None THEN UNCHANGED configVars ELSE Restore
    /\ live' = {} /\ tls' = {} /\ skipped' = FALSE
    /\ lock' = None /\ guard' = Idle
    /\ UNCHANGED <<state, evidence>>

\* "timeout 70s": the kernel drops an element that no round renewed.
LeaseLapses(c) ==
    /\ c \in live
    /\ live' = live \ {c}
    /\ UNCHANGED <<configVars, lock, guard, state, tls, skipped, evidence, faults>>

-----------------------------------------------------------------------------
(* run() *)

\* The snapshot; with the lock taken, a trial or no manifest there is no round.
BeginRound ==
    /\ guard = Idle
    /\ lock = None /\ pending = None /\ manifest # None
    /\ guard' = [step |-> "probe", seen |-> manifest, rows |-> None, error |-> FALSE,
                 outcomes |-> [r \in Enabled(manifest) |-> None]]
    /\ UNCHANGED <<configVars, lock, state, sets, evidence, faults>>

\* check() of one route, in a worker of its own. An answer, right or wrong, needs a core
\* that serves the route; a passed expiry date is a hard failure without asking it.
Probe(r, kind) ==
    /\ guard.step = "probe"
    /\ r \in DOMAIN guard.outcomes /\ guard.outcomes[r] = None
    /\ kind = "ok" => core # None /\ r \in Enabled(core)
    /\ guard' = [guard EXCEPT !.outcomes[r] = kind]
    /\ UNCHANGED <<configVars, lock, state, sets, evidence, faults>>

Probed == guard.step = "probe" /\ \A r \in DOMAIN guard.outcomes : guard.outcomes[r] # None

\* The lock is taken, a version is on trial, or the manifest changed.
GiveUp ==
    /\ Probed
    /\ guard' = Idle
    /\ UNCHANGED <<configVars, lock, state, sets, evidence, faults>>

NoRow == [open |-> FALSE, success |-> FALSE, streak |-> 0]

\* previous_groups(): what guard.json says of a route, under the same transaction only.
Prior(r) ==
    IF state # None /\ state.tx = guard.seen.tx /\ r \in DOMAIN state.rows
    THEN state.rows[r] ELSE NoRow

Verified == [open |-> TRUE, success |-> TRUE, streak |-> 0]

Failed(r, open) ==
    [Prior(r) EXCEPT !.open = open, !.streak = IF @ < MaxStreak THEN @ + 1 ELSE @]

\* Mutation: one failure of any kind closes the route.
NextRowStrict(r) == IF guard.outcomes[r] = "ok" THEN Verified ELSE Failed(r, FALSE)

\* Mutation: the grace of a soft failure is granted to every failure.
NextRowLenient(r) ==
    IF guard.outcomes[r] = "ok" THEN Verified
    ELSE Failed(r, Prior(r).open /\ Prior(r).success)

\* A success opens; a soft failure keeps open what a success once opened, however many
\* have gone before: the streak is counted and not asked.
NextRow(r) ==
    IF guard.outcomes[r] = "ok" THEN Verified
    ELSE Failed(r, Prior(r).open /\ Prior(r).success /\ guard.outcomes[r] # "hard")

\* Mutation: the second look compares the manifest only.
DecideDuringTrial ==
    /\ Probed
    /\ lock = None /\ manifest = guard.seen
    /\ lock' = "guard"
    /\ guard' = [guard EXCEPT !.step = "lease",
                              !.rows = [r \in DOMAIN guard.outcomes |-> NextRow(r)]]
    /\ UNCHANGED <<configVars, state, sets, evidence, faults>>

\* The second look under the lock.
Decide ==
    /\ Probed
    /\ lock = None /\ pending = None /\ manifest = guard.seen
    /\ lock' = "guard"
    /\ guard' = [guard EXCEPT !.step = "lease",
                              !.rows = [r \in DOMAIN guard.outcomes |-> NextRow(r)]]
    /\ UNCHANGED <<configVars, state, sets, evidence, faults>>

\* 20000 + id in one set and 13000 + id in the other, for every client of an open route.
Ports(version, rows) ==
    UNION {version.layout[r] : r \in {s \in DOMAIN rows : rows[s].open}}

\* The definite outcomes of the round take effect.
Record ==
    evidence' = [evidence EXCEPT ![guard.seen.tx] =
        [r \in Routes |->
            IF r \in DOMAIN guard.outcomes /\ guard.outcomes[r] \in {"ok", "hard"}
            THEN guard.outcomes[r] ELSE @[r]]]

\* lease(): one nft transaction replaces both sets. When "nft list set" does not find the
\* HTTPS set, it is neither flushed nor filled, and nobody is told.
Replace(ports) ==
    /\ live' = ports
    /\ \/ tls' = ports /\ skipped' = FALSE /\ UNCHANGED faults
       \/ "list" \in NftFails /\ Strike /\ skipped' = TRUE /\ UNCHANGED tls

Lease ==
    /\ guard.step = "lease"
    /\ Replace(Ports(guard.seen, guard.rows))
    /\ Record
    /\ guard' = [guard EXCEPT !.step = "write"]
    /\ UNCHANGED <<configVars, lock, state>>

\* LEASE_UPDATE_FAILED: every route is closed, in the state first and then in the sets.
LeaseFails ==
    /\ guard.step = "lease" /\ "lease" \in NftFails
    /\ Strike
    /\ Record
    /\ guard' = [guard EXCEPT !.step = "flush", !.error = TRUE,
                    !.rows = [r \in DOMAIN guard.rows |-> [guard.rows[r] EXCEPT !.open = FALSE]]]
    /\ UNCHANGED <<configVars, lock, state, sets>>

Flush ==
    /\ guard.step = "flush"
    /\ Replace({})
    /\ guard' = [guard EXCEPT !.step = "write"]
    /\ UNCHANGED <<configVars, lock, state, evidence>>

\* The second failure is swallowed.
FlushFails ==
    /\ guard.step = "flush" /\ "flush" \in NftFails
    /\ Strike
    /\ guard' = [guard EXCEPT !.step = "write"]
    /\ UNCHANGED <<configVars, lock, state, sets, evidence>>

\* record_event() and guard.json; the lock is released.
Write ==
    /\ guard.step = "write"
    /\ state' = [tx |-> guard.seen.tx, rows |-> guard.rows, error |-> guard.error]
    /\ lock' = None /\ guard' = Idle
    /\ UNCHANGED <<configVars, sets, evidence, faults>>

\* TimeoutStartSec, an exception of record_event() or of a write.
KillGuard ==
    /\ guard.step \in KillAt
    /\ Strike
    /\ guard' = Idle
    /\ lock' = IF lock = "guard" THEN None ELSE lock
    /\ UNCHANGED <<configVars, state, sets, evidence>>

\* What an older release left behind, as previous_groups() reads it: one verdict for the whole
\* gateway and the routes that were verified, all of them open when it is good.
TakeOver(verified) ==
    LET rows == [r \in verified |-> Verified] IN
    /\ state = None /\ guard = Idle
    /\ lock = None /\ pending = None /\ manifest # None
    /\ state' = [tx |-> manifest.tx, rows |-> rows, error |-> FALSE]
    /\ live' = Ports(manifest, rows) /\ tls' = live' /\ skipped' = FALSE
    /\ evidence' = [evidence EXCEPT ![manifest.tx] =
          [r \in Routes |-> IF r \in verified THEN "ok" ELSE @[r]]]
    /\ UNCHANGED <<configVars, lock, guard, faults>>

-----------------------------------------------------------------------------

Environment ==
    \/ \E t \in Tx, l \in Layouts : BeginApply(t, l)
    \/ SwitchCore \/ FinishApply \/ UndoApply \/ KillApply \/ Commit \/ Rollback
    \/ Reboot
    \/ \E c \in Clients : LeaseLapses(c)

Round ==
    \/ BeginRound \/ GiveUp \/ Decide \/ Write \/ KillGuard
    \/ \E r \in Routes, kind \in OutcomeKinds : Probe(r, kind)
    \/ Lease \/ LeaseFails \/ Flush \/ FlushFails

\* With a bad verdict none of its routes counts.
Upgrade ==
    /\ MayUpgrade /\ manifest # None
    /\ \E verified \in SUBSET Enabled(manifest) : TakeOver(verified)

Next == Environment \/ Round \/ Upgrade

Spec == Init /\ [][Next]_vars

-----------------------------------------------------------------------------
(* Properties *)

Open == live \cup tls

\* Where the last update left the HTTPS set alone, only the other one says what it decided.
Decided == live \cup (IF skipped THEN {} ELSE tls)

RouteOf(version, c) == {r \in Enabled(version) : c \in version.layout[r]}

\* LEASE_UPDATE_FAILED stands in guard.json: what the sets hold is not known.
Unsure == state # None /\ state.error

Settled == lock # "guard" /\ pending = None /\ ~Unsure

\* Between the rounds and outside a trial, a phone whose port is open is served, if at all,
\* by a route whose last definite outcome under that very transaction was a success: the
\* sets outlive the transaction they were filled under, a rollback and a restart included.
OpenIsVerified ==
    Settled =>
        \A c \in Decided : core # None /\ \A r \in RouteOf(core, c) :
                               evidence[core.tx][r] = "ok"

\* "A changed exit address closes its route at once" (ARCHITECTURE.md:33): no port of such a
\* route is open between the rounds.
MismatchCloses ==
    Settled =>
        \A c \in Open : core # None => \A r \in RouteOf(core, c) :
                            evidence[core.tx][r] # "hard"

\* No port is opened while a version is on trial, by a round that began before it either.
TrialOpensNothing ==
    [][pending # None /\ pending' # None => live' \subseteq live /\ tls' \subseteq tls]_vars

\* "One short period of grace" (ARCHITECTURE.md:33): when guard.json says, of this transaction,
\* that the last check of a route succeeded, the first soft failure after it leaves its clients
\* in both sets, whatever rollback, reboot or lapse there was in between.
GraceKeepsOpen ==
    [][guard.step = "lease" /\ guard'.step = "write" /\ ~Unsure
       /\ state # None /\ state.tx = guard.seen.tx =>
         \A r \in DOMAIN state.rows \cap DOMAIN guard.outcomes :
            state.rows[r].streak = 0 /\ guard.outcomes[r] \in {"soft", "late"} =>
                /\ guard.seen.layout[r] \subseteq live'
                /\ guard.seen.layout[r] \subseteq tls' \/ skipped']_vars

\* "Failures in a row close the route" (ARCHITECTURE.md:33): a route is not open when every
\* failure that is counted has gone by without a success.
FailuresInARowClose ==
    state # None => \A r \in DOMAIN state.rows :
        state.rows[r].open => state.rows[r].streak < MaxStreak
==============================================================================
