----------------------------- MODULE GatewayProofs -----------------------------
(***************************************************************************)
(* Proofs about a gateway: what its files say (Rendering), for any groups, *)
(* clients, providers, names and servers; and which doors its guard opens  *)
(* (Guard), for any number of transactions, routes, clients,               *)
(* configurations and faults. Only one theorem, Verifies, needs that no    *)
(* round is cut between the update of the sets and guard.json.             *)
(***************************************************************************)
EXTENDS Guard, Rendering, FiniteSetTheorems, TLAPS

-----------------------------------------------------------------------------
(* Guard *)

\* The window that OpenIsVerified leaves out: a failure that closed a route is forgotten when
\* the round dies before guard.json is written.
CutsBeforeUpdate == KillAt \subseteq {"probe", "lease"}

\* The clients that the last update let in are served by this version through verified routes
\* only.
VerifiedFor(version) ==
    \A c \in Decided : version # None /\ \A r \in RouteOf(version, c) : evidence[version.tx][r] = "ok"

\* A row without a failure since its last success is open.
Fresh(rows) == \A r \in DOMAIN rows : rows[r].streak = 0 => rows[r].open /\ rows[r].success

\* Which version is installed, saved, on trial and run by the core.
TrialInv ==
    /\ \A v \in {manifest, saved, pending} : v # None => v.tx \in used
    /\ state # None => state.tx \in used /\ (pending # None => state.tx # pending.tx)
    /\ pending = None => core = manifest
    /\ lock = "apply" => pending # None /\ manifest # pending
    /\ pending # None => /\ ~Updating
                         /\ manifest \in {saved, pending}
                         /\ saved # None => saved.tx # pending.tx
                         /\ manifest = pending =>
                              /\ core = pending
                              /\ \A r \in Enabled(pending) : evidence[pending.tx][r] = "ok"

\* A round that updates the sets works on the manifest it has seen.
SeenInv == Updating => manifest = guard.seen

\* What it made of guard.json and the outcomes, and what it wrote.
RowsInv ==
    /\ guard.step = "lease" =>
          /\ \A r \in DOMAIN guard.rows : guard.rows[r] = NextRow(r)
          /\ ~guard.error
    /\ guard.step = "flush" => guard.error
    /\ Updating /\ ~guard.error => Fresh(guard.rows)
    /\ state # None /\ ~state.error => Fresh(state.rows)

\* What the sets and the evidence then say.
RoundInv ==
    /\ SeenInv /\ RowsInv
    /\ guard.step \in {"flush", "write"} => \A r \in DOMAIN guard.rows : guard.rows[r].open =>
          guard.rows[r].success /\ evidence[guard.seen.tx][r] = "ok"
    /\ guard.step = "write" /\ ~guard.error => Decided \subseteq Ports(guard.seen, guard.rows)

\* What the sets and guard.json say, but for a round that has updated the evidence and not yet
\* both of them.
SetsInv ==
    guard.step \notin {"flush", "write"} =>
        /\ state # None => \A r \in DOMAIN state.rows : state.rows[r].open =>
              state.rows[r].success /\ evidence[state.tx][r] = "ok"
        /\ ~Unsure => VerifiedFor(IF pending = None THEN manifest ELSE saved)

GuardInv == TypeOK /\ TrialInv /\ RoundInv /\ SetsInv

\* A gateway that was just installed: no manifest, no ports.
LEMMA GuardInit == Init => GuardInv
<1> SUFFICES ASSUME Init PROVE GuardInv
  OBVIOUS
<1>1. TypeOK
  <2>1. skipped \in BOOLEAN
    BY Zenon DEF Init
  <2> QED BY <2>1, BoundsOK, NoneOK DEF Init, TypeOK, Idle, Updating
<1>2. TrialInv
  BY NoneOK DEF Init, TrialInv, Idle, Updating
<1>3. RoundInv
  BY DEF Init, RoundInv, SeenInv, RowsInv, Idle, Updating
<1>4. SetsInv
  BY DEF Init, SetsInv, VerifiedFor, Decided
<1> QED BY <1>1, <1>2, <1>3, <1>4 DEF GuardInv

\* What guard.json says of a route, and what is assumed when it says nothing.
LEMMA PriorIsRow == ASSUME TypeOK, NEW r PROVE Prior(r) \in Row
BY BoundsOK, NoneOK DEF Prior, NoRow, Row, TypeOK, Report, PartialOver

\* Every round has outcomes and rows for just the routes it has seen.
LEMMA TypeStep == TypeOK /\ TrialInv /\ [Next]_vars => TypeOK'
<1> SUFFICES ASSUME TypeOK, TrialInv, [Next]_vars PROVE TypeOK'
  OBVIOUS
<1> USE BoundsOK, NoneOK, LayoutsOK DEF vars, configVars, sets, Strike, Idle, Updating
<1>v. /\ \A v \in Version : v.tx \in Tx /\ v.layout \in Layouts /\ Enabled(v) \subseteq Routes
      /\ \A t \in Tx, l \in Layouts : [tx |-> t, layout |-> l] \in Version
  BY DEF Version, Enabled
<1>1. ASSUME Environment PROVE TypeOK'
  <2>1. ASSUME NEW t \in Tx, NEW l \in Layouts, BeginApply(t, l) PROVE TypeOK'
    BY <1>v, <2>1 DEF BeginApply, TypeOK
  <2>2. CASE SwitchCore
    BY <2>2 DEF SwitchCore, TypeOK
  <2>3. CASE FinishApply
    <3>1. evidence' \in [Tx -> [Routes -> {"none", "ok", "hard"}]]
      BY <1>v, <2>3 DEF FinishApply, TypeOK, TrialInv
    <3> QED BY <2>3, <3>1 DEF FinishApply, TypeOK
  <2>4. CASE UndoApply
    BY <2>4 DEF UndoApply, Restore, TypeOK
  <2>5. CASE KillApply
    BY <2>5 DEF KillApply, TypeOK
  <2>6. CASE Commit
    BY <2>6 DEF Commit, TypeOK
  <2>7. CASE Rollback
    BY <2>7 DEF Rollback, Restore, TypeOK
  <2>8. CASE Reboot
    <3>1. /\ manifest' \in Version \cup {None} /\ pending' \in Version \cup {None}
          /\ saved' \in Version \cup {None} /\ core' \in Version \cup {None}
          /\ used' \in SUBSET Tx
      BY <2>8 DEF Reboot, Restore, TypeOK
    <3>2. skipped' \in BOOLEAN
      BY <2>8, Zenon DEF Reboot
    <3> QED BY <2>8, <3>1, <3>2 DEF Reboot, TypeOK
  <2>9. ASSUME NEW c \in Clients, LeaseLapses(c) PROVE TypeOK'
    BY <2>9 DEF LeaseLapses, TypeOK
  <2> QED BY <1>1, <2>1, <2>2, <2>3, <2>4, <2>5, <2>6, <2>7, <2>8, <2>9 DEF Environment
<1>2. ASSUME Round PROVE TypeOK'
  <2>g. guard.step # "idle" => guard \in Rounds /\ DOMAIN guard.outcomes = Enabled(guard.seen)
    BY DEF TypeOK
  <2>s. guard.step # "idle" => guard.seen \in Version /\ guard.seen.tx \in Tx
    BY <1>v, <2>g DEF Rounds
  <2>1. CASE BeginRound
    <3>1. [r \in Enabled(manifest) |-> None] \in PartialOver(Routes, OutcomeKinds \cup {None})
      BY <1>v, <2>1 DEF BeginRound, TypeOK, PartialOver
    <3> QED BY <2>1, <3>1 DEF BeginRound, TypeOK, Rounds
  <2>2. CASE GiveUp
    BY <2>2 DEF GiveUp, Probed, TypeOK
  <2>3. CASE Decide
    <3> DEFINE rows == [r \in DOMAIN guard.outcomes |-> NextRow(r)]
    <3>1. guard \in Rounds /\ guard.step = "probe" /\ DOMAIN guard.outcomes = Enabled(guard.seen)
      BY <2>3, <2>g DEF Decide, Probed
    <3>2. guard.outcomes \in PartialOver(Routes, OutcomeKinds)
      <4>1. PICK D \in SUBSET Routes : guard.outcomes \in [D -> OutcomeKinds \cup {None}]
        BY <3>1 DEF Rounds, PartialOver
      <4>2. guard.outcomes \in [D -> OutcomeKinds]
        BY <2>3, <4>1 DEF Decide, Probed
      <4> QED BY <4>2 DEF PartialOver
    <3>3. \A r \in DOMAIN guard.outcomes : NextRow(r) \in Row
      <4> SUFFICES ASSUME NEW r \in DOMAIN guard.outcomes PROVE NextRow(r) \in Row
        OBVIOUS
      <4>1. Prior(r) \in Row
        BY PriorIsRow
      <4>2. ASSUME NEW open \in BOOLEAN PROVE Failed(r, open) \in Row
        <5> DEFINE k == IF Prior(r).streak < MaxStreak THEN Prior(r).streak + 1
                        ELSE Prior(r).streak
        <5>1. k \in 0..MaxStreak
          BY <4>1 DEF Row
        <5>2. Failed(r, open) = [Prior(r) EXCEPT !.open = open, !.streak = k]
          BY DEF Failed
        <5> HIDE DEF k
        <5> QED BY <4>1, <5>1, <5>2 DEF Row
      <4>3. Verified \in Row
        BY DEF Verified, Row
      <4> DEFINE kept == Prior(r).open /\ Prior(r).success /\ guard.outcomes[r] # "hard"
      <4>4. kept \in BOOLEAN
        OBVIOUS
      <4>5. NextRow(r) = Verified \/ NextRow(r) = Failed(r, kept)
        BY DEF NextRow
      <4> HIDE DEF kept
      <4> QED BY <4>2, <4>3, <4>4, <4>5
    <3>4. rows \in PartialOver(Routes, Row)
      BY <1>v, <2>s, <3>1, <3>3 DEF PartialOver
    <3> HIDE DEF rows
    <3>5. guard' \in Rounds /\ guard'.step = "lease" /\ guard'.seen = guard.seen
          /\ guard'.outcomes = guard.outcomes /\ guard'.rows = rows
      BY <2>3, <3>1, <3>2, <3>4 DEF Decide, Rounds, rows
    <3> QED BY <2>3, <3>1, <3>5 DEF Decide, TypeOK, rows
  <2>4. CASE Write
    <3>1. guard.rows \in PartialOver(Routes, Row) /\ guard.error \in BOOLEAN
      BY <2>4, <2>g DEF Write, Rounds
    <3> QED BY <2>4, <2>s, <3>1 DEF Write, TypeOK, Report
  <2>5. CASE KillGuard
    BY <2>5 DEF KillGuard, TypeOK
  <2>6. ASSUME NEW r \in Routes, NEW kind \in OutcomeKinds, Probe(r, kind) PROVE TypeOK'
    <3>1. guard \in Rounds /\ guard.step = "probe"
      BY <2>6, <2>g DEF Probe
    <3>2. /\ [guard.outcomes EXCEPT ![r] = kind] \in PartialOver(Routes, OutcomeKinds \cup {None})
          /\ DOMAIN [guard.outcomes EXCEPT ![r] = kind] = DOMAIN guard.outcomes
      BY <2>6, <3>1 DEF Rounds, PartialOver
    <3>3. guard' = [guard EXCEPT !.outcomes = [guard.outcomes EXCEPT ![r] = kind]]
      BY <2>6, <3>1 DEF Probe
    <3>4. guard' \in Rounds /\ guard'.step = "probe" /\ guard'.seen = guard.seen
          /\ DOMAIN guard'.outcomes = DOMAIN guard.outcomes
      BY <3>1, <3>2, <3>3 DEF Rounds
    <3> QED BY <2>6, <2>g, <3>1, <3>4 DEF Probe, TypeOK
  <2>r. guard.step = "lease" => evidence' \in [Tx -> [Routes -> {"none", "ok", "hard"}]]
        \/ ~Record
    BY <2>s DEF Record, TypeOK
  <2>u. ASSUME guard.step \in {"lease", "flush", "write"}
        PROVE  /\ guard \in Rounds /\ DOMAIN guard.rows = Enabled(guard.seen)
               /\ guard.rows \in [Enabled(guard.seen) -> Row]
               /\ guard.rows \in PartialOver(Routes, Row)
    <3>1. guard \in Rounds /\ DOMAIN guard.rows = Enabled(guard.seen)
      BY <2>g, <2>u DEF TypeOK
    <3>2. guard.rows \in PartialOver(Routes, Row)
      BY <2>u, <3>1 DEF Rounds
    <3>3. PICK D \in SUBSET Routes : guard.rows \in [D -> Row]
      BY <3>2 DEF PartialOver
    <3> QED BY <3>1, <3>2, <3>3
  <2>w. ASSUME guard.step \in {"lease", "flush"}, guard' = [guard EXCEPT !.step = "write"]
        PROVE  /\ guard' \in Rounds /\ guard'.step = "write"
               /\ DOMAIN guard'.outcomes = Enabled(guard'.seen)
               /\ DOMAIN guard'.rows = Enabled(guard'.seen)
    BY <2>g, <2>u, <2>w DEF Rounds
  <2>7. CASE Lease
    <3>1. Ports(guard.seen, guard.rows) \subseteq Clients
      <4>1. guard.seen.layout \in Layouts /\ DOMAIN guard.rows = DOMAIN guard.seen.layout
        BY <2>7, <2>s, <2>u, <1>v DEF Lease, Enabled
      <4>2. \A r \in DOMAIN guard.rows : guard.seen.layout[r] \subseteq Clients
        BY <4>1
      <4> QED BY <4>2 DEF Ports
    <3>2. live' \in SUBSET Clients /\ tls' \in SUBSET Clients /\ faults' \in 0..MaxFaults
      BY <2>7, <3>1 DEF Lease, Replace, TypeOK
    <3>3. skipped' \in BOOLEAN
      BY <2>7, Zenon DEF Lease, Replace
    <3> QED BY <2>7, <2>r, <2>w, <3>2, <3>3 DEF Lease, TypeOK
  <2>8. CASE LeaseFails
    <3> DEFINE rows == [r \in DOMAIN guard.rows |-> [guard.rows[r] EXCEPT !.open = FALSE]]
    <3>1. rows \in PartialOver(Routes, Row) /\ DOMAIN rows = DOMAIN guard.rows
      <4>1. guard.rows \in [Enabled(guard.seen) -> Row] /\ Enabled(guard.seen) \subseteq Routes
        BY <1>v, <2>8, <2>s, <2>u DEF LeaseFails
      <4>2. \A r \in DOMAIN guard.rows : [guard.rows[r] EXCEPT !.open = FALSE] \in Row
        BY <4>1 DEF Row
      <4>3. rows \in [Enabled(guard.seen) -> Row]
        BY <4>1, <4>2
      <4> QED BY <4>1, <4>3 DEF PartialOver
    <3> HIDE DEF rows
    <3>2. guard' \in Rounds /\ guard'.step = "flush" /\ guard'.seen = guard.seen
          /\ guard'.outcomes = guard.outcomes /\ guard'.rows = rows
      BY <2>8, <2>u, <3>1 DEF LeaseFails, Rounds, rows
    <3> QED BY <2>8, <2>g, <2>u, <2>r, <3>1, <3>2 DEF LeaseFails, TypeOK
  <2>9. CASE Flush
    <3>1. live' \in SUBSET Clients /\ tls' \in SUBSET Clients /\ faults' \in 0..MaxFaults
      BY <2>9 DEF Flush, Replace, TypeOK
    <3>2. skipped' \in BOOLEAN
      BY <2>9, Zenon DEF Flush, Replace
    <3> QED BY <2>9, <2>w, <3>1, <3>2 DEF Flush, TypeOK
  <2>10. CASE FlushFails
    BY <2>10, <2>w DEF FlushFails, TypeOK
  <2> QED BY <1>2, <2>1, <2>2, <2>3, <2>4, <2>5, <2>6, <2>7, <2>8, <2>9, <2>10 DEF Round
<1>3. CASE Upgrade
  <2>1. PICK verified \in SUBSET Enabled(manifest) : TakeOver(verified)
    BY <1>3 DEF Upgrade
  <2> DEFINE rows == [r \in verified |-> Verified]
  <2>2. manifest \in Version /\ verified \subseteq Routes /\ verified \subseteq DOMAIN manifest.layout
    BY <1>v, <2>1 DEF TakeOver, TypeOK, Enabled
  <2>3. rows \in PartialOver(Routes, Row) /\ DOMAIN rows = verified
    BY <2>2 DEF PartialOver, Verified, Row
  <2> HIDE DEF rows
  <2>4. Ports(manifest, rows) \subseteq Clients
    BY <1>v, <2>2, <2>3 DEF Ports
  <2>5. evidence' \in [Tx -> [Routes -> {"none", "ok", "hard"}]]
    BY <1>v, <2>1, <2>2 DEF TakeOver, TypeOK
  <2>6. state' \in Report /\ live' = Ports(manifest, rows) /\ tls' = live'
    BY <1>v, <2>1, <2>2, <2>3 DEF TakeOver, Report, rows
  <2> QED BY <2>1, <2>4, <2>5, <2>6 DEF TakeOver, TypeOK
<1>4. CASE UNCHANGED vars
  BY <1>4 DEF TypeOK
<1> QED BY <1>1, <1>2, <1>3, <1>4 DEF Next

\* What the round leaves alone, and when it may look at the sets at all.
LEMMA RoundKeeps ==
    ASSUME TypeOK, Round
    PROVE  /\ UNCHANGED configVars
           /\ ~Updating /\ Updating' => pending = None /\ Decide
           /\ Updating \/ Decide \/ UNCHANGED <<sets, state, evidence>>
           /\ lock = "apply" <=> lock' = "apply"
<1> USE NoneOK
<1>1. UNCHANGED configVars
  BY DEF Round, BeginRound, GiveUp, Decide, Write, KillGuard, Probe, Lease, LeaseFails, Flush, FlushFails
<1>0. ASSUME NEW r \in Routes, NEW kind \in OutcomeKinds, Probe(r, kind)
      PROVE  guard'.step = "probe"
  <2>1. guard \in Rounds
    BY <1>0 DEF Probe, TypeOK, Idle
  <2> QED BY <1>0, <2>1 DEF Probe, Rounds
<1>2. ~Updating /\ Updating' => pending = None /\ Decide
  BY <1>0 DEF Round, BeginRound, GiveUp, Decide, Write, KillGuard, Lease, LeaseFails, Flush,
         FlushFails, Updating, Idle
<1>3. Updating \/ Decide \/ UNCHANGED <<sets, state, evidence>>
  BY DEF Round, BeginRound, GiveUp, Decide, Write, KillGuard, Probe, Lease, LeaseFails, Flush,
         FlushFails, Updating
<1>4. lock = "apply" <=> lock' = "apply"
  BY DEF Round, BeginRound, GiveUp, Decide, Write, KillGuard, Probe, Lease, LeaseFails, Flush,
         FlushFails, Updating, TypeOK
<1> QED BY <1>1, <1>2, <1>3, <1>4

\* The environment only verifies: it never withdraws evidence, and it opens nothing.
LEMMA EnvironmentKeeps ==
    ASSUME TypeOK, TrialInv, Environment
    PROVE  /\ live' \subseteq live /\ tls' \subseteq tls /\ Decided' \subseteq Decided
           /\ UNCHANGED state
           /\ \A t \in Tx, r \in Routes : evidence[t][r] = "ok" => evidence'[t][r] = "ok"
           /\ guard' = guard \/ guard' = Idle
<1>1. CASE FinishApply
  <2>1. pending \in Version
    BY <1>1, NoneOK DEF FinishApply, TypeOK, TrialInv
  <2> QED BY <1>1, <2>1 DEF FinishApply, TypeOK, Version, sets, Decided
<1>2. CASE ~FinishApply
  BY <1>2 DEF Environment, BeginApply, SwitchCore, UndoApply, KillApply, Commit, Rollback, Reboot,
     LeaseLapses, sets, Decided
<1> QED BY <1>1, <1>2

\* Transactions have names of their own, and one is on trial at a time.
LEMMA TrialStep == TypeOK /\ TrialInv /\ SeenInv /\ [Next]_vars => TrialInv'
<1> SUFFICES ASSUME TypeOK, TrialInv, SeenInv, [Next]_vars PROVE TrialInv'
  OBVIOUS
<1> USE NoneOK DEF configVars, sets, Strike
<1>v. \A v \in Version : Enabled(v) \subseteq Routes /\ v.tx \in Tx
  BY LayoutsOK DEF Version, Enabled
<1>l. lock # "guard" <=> ~Updating
  BY DEF TypeOK
<1>1. ASSUME NEW t \in Tx, NEW l \in Layouts, BeginApply(t, l) PROVE TrialInv'
  BY <1>1, <1>l DEF BeginApply, TrialInv, TypeOK, Version, Updating
<1>2. CASE SwitchCore
  BY <1>2, <1>l DEF SwitchCore, TrialInv, TypeOK, Updating
<1>3. CASE FinishApply
  <2>1. pending \in Version /\ lock = "apply" /\ pending # None
    BY <1>3 DEF FinishApply, TypeOK, TrialInv
  <2>2. \A r \in Enabled(pending) : evidence'[pending.tx][r] = "ok"
    BY <1>3, <1>v, <2>1 DEF FinishApply, TypeOK
  <2> QED BY <1>3, <1>l, <2>1, <2>2 DEF FinishApply, TrialInv, Updating, Enabled
<1>4. CASE UndoApply
  BY <1>4 DEF UndoApply, Restore, TrialInv
<1>5. CASE KillApply
  BY <1>5 DEF KillApply, TrialInv, Updating
<1>6. CASE Commit
  BY <1>6 DEF Commit, TrialInv
<1>7. CASE Rollback
  BY <1>7 DEF Rollback, Restore, TrialInv
<1>8. CASE Reboot
  BY <1>8 DEF Reboot, Restore, TrialInv
<1>9. ASSUME NEW c \in Clients, LeaseLapses(c) PROVE TrialInv'
  BY <1>9 DEF LeaseLapses, TrialInv, Updating
<1>10. CASE Round
  <2>1. UNCHANGED <<manifest, pending, saved, core, used>>
    BY <1>10, RoundKeeps
  <2>2. lock' = "apply" => lock = "apply"
    BY <1>10, RoundKeeps
  <2>3. pending # None => ~Updating' /\ UNCHANGED evidence
    <3>1. pending # None => ~Updating /\ ~Decide
      BY DEF TrialInv, Decide
    <3> QED BY <1>10, <3>1, RoundKeeps
  <2>4. state' = state \/ (state'.tx \in used /\ pending = None)
    <3>1. Write \/ UNCHANGED state
      BY <1>10 DEF Round, BeginRound, GiveUp, Decide, KillGuard, Probe, Lease, LeaseFails, Flush,
                   FlushFails
    <3>2. CASE Write
      <4>1. Updating /\ pending = None /\ manifest = guard.seen
        BY <3>2 DEF Write, Updating, TrialInv, SeenInv
      <4>2. guard \in Rounds
        BY <3>2 DEF Write, TypeOK, Idle
      <4>3. guard.seen \in Version
        BY <4>2 DEF Rounds
      <4>4. state'.tx \in used
        BY <3>2, <4>1, <4>3 DEF Write, TrialInv
      <4> QED BY <4>1, <4>4
    <3> QED BY <3>1, <3>2
  <2> QED BY <2>1, <2>2, <2>3, <2>4 DEF TrialInv
<1>11. CASE Upgrade
  BY <1>11, <1>l DEF Upgrade, TakeOver, TrialInv
<1>12. CASE UNCHANGED vars
  BY <1>12 DEF vars, TrialInv, Updating
<1> QED
  BY <1>1, <1>2, <1>3, <1>4, <1>5, <1>6, <1>7, <1>8, <1>9, <1>10, <1>11, <1>12 DEF Next, Environment

\* The manifest changes only under the lock that such a round holds.
LEMMA SeenStep == TypeOK /\ TrialInv /\ SeenInv /\ [Next]_vars => SeenInv'
<1> SUFFICES ASSUME TypeOK, TrialInv, SeenInv, [Next]_vars, Updating' PROVE manifest' = guard'.seen
  BY DEF SeenInv
<1>1. CASE Updating
  <2>1. lock = "guard" /\ guard # Idle /\ guard \in Rounds
    BY <1>1 DEF TypeOK, Updating, Idle
  <2>2. CASE Environment
    <3>1. UNCHANGED manifest \/ guard' = Idle
      BY <2>1, <2>2, NoneOK DEF Environment, BeginApply, SwitchCore, FinishApply, UndoApply,
         KillApply, Commit, Rollback, Reboot, LeaseLapses, configVars
    <3>2. guard' = guard
      BY <2>2, EnvironmentKeeps DEF Updating, Idle
    <3> QED BY <1>1, <3>1, <3>2 DEF SeenInv, Updating, Idle
  <2>3. CASE Round
    <3>1. UNCHANGED manifest
      BY <2>3, RoundKeeps DEF configVars
    <3>2. Lease \/ LeaseFails \/ Flush \/ FlushFails
      BY <1>1, <2>3 DEF Round, BeginRound, GiveUp, Decide, Probed, Write, KillGuard, Probe,
         Updating, Idle
    <3>3. guard'.seen = guard.seen
      BY <2>1, <3>2 DEF Lease, LeaseFails, Flush, FlushFails, Rounds
    <3> QED BY <1>1, <3>1, <3>3 DEF SeenInv
  <2>4. CASE UNCHANGED vars
    BY <1>1, <2>4 DEF vars, configVars, SeenInv
  <2> QED BY <2>1, <2>2, <2>3, <2>4 DEF Next, Upgrade, TakeOver
<1>2. CASE ~Updating
  <2>1. Decide
    <3>1. ~Environment
      BY <1>2, EnvironmentKeeps DEF Updating, Idle
    <3>2. ~UNCHANGED vars
      BY <1>2 DEF vars, Updating
    <3>3. ~Upgrade
      BY <1>2 DEF Upgrade, TakeOver, Updating, Idle
    <3> QED BY <1>2, <3>1, <3>2, <3>3, RoundKeeps DEF Next
  <2>2. guard \in Rounds
    BY <2>1 DEF Decide, Probed, TypeOK, Idle
  <2> QED BY <2>1, <2>2 DEF Decide, Rounds, configVars
<1> QED BY <1>1, <1>2

\* A failure is counted, and only a success takes the count back and opens the route.
LEMMA RowsStep == TypeOK /\ RowsInv /\ [Next]_vars => RowsInv'
<1> SUFFICES ASSUME TypeOK, RowsInv, [Next]_vars PROVE RowsInv'
  OBVIOUS
<1>i. ASSUME ~Updating', UNCHANGED state PROVE RowsInv'
  BY <1>i DEF Updating, RowsInv, Fresh
<1>s. ASSUME UNCHANGED <<guard, state>> PROVE RowsInv'
  <2>1. \A r : NextRow(r)' = NextRow(r)
    BY <1>s DEF NextRow, Failed, Prior
  <2> QED BY <1>s, <2>1 DEF RowsInv, Updating, Fresh
<1>1. CASE Environment
  <2>1. UNCHANGED state /\ (guard' = guard \/ guard' = Idle)
    BY <1>1 DEF Environment, BeginApply, SwitchCore, FinishApply, UndoApply, KillApply, Commit,
       Rollback, Reboot, LeaseLapses
  <2> QED BY <1>i, <1>s, <2>1 DEF Idle, Updating
<1>2. CASE Decide
  <2>1. guard \in Rounds /\ guard.step = "probe"
    BY <1>2 DEF Decide, Probed, TypeOK, Idle
  <2>2. /\ guard'.step = "lease" /\ ~guard'.error
        /\ guard'.seen = guard.seen /\ guard'.outcomes = guard.outcomes
        /\ guard'.rows = [r \in DOMAIN guard.outcomes |-> NextRow(r)]
    BY <1>2, <2>1 DEF Decide, Rounds
  <2>3. UNCHANGED state
    BY <1>2 DEF Decide
  <2>4. \A r : NextRow(r)' = NextRow(r)
    BY <2>2, <2>3 DEF NextRow, Failed, Prior
  <2>5. ASSUME NEW r, NextRow(r).streak = 0 PROVE NextRow(r).open /\ NextRow(r).success
    <3>1. Prior(r) \in Row
      BY PriorIsRow
    <3>2. \A open \in BOOLEAN : Failed(r, open).streak \in Nat \ {0}
      BY <3>1, BoundsOK DEF Failed, Row
    <3>3. NextRow(r) = Verified
      BY <2>5, <3>1, <3>2 DEF NextRow, Row
    <3> QED BY <3>3 DEF Verified
  <2> QED BY <2>2, <2>3, <2>4, <2>5 DEF RowsInv, Fresh, Updating
<1>3. ASSUME Lease \/ LeaseFails \/ Flush \/ FlushFails PROVE RowsInv'
  <2>1. guard \in Rounds /\ Updating
    BY <1>3 DEF Lease, LeaseFails, Flush, FlushFails, TypeOK, Idle, Updating
  <2>2. UNCHANGED state
    BY <1>3 DEF Lease, LeaseFails, Flush, FlushFails
  <2>3. CASE LeaseFails
    <3>1. guard'.step = "flush" /\ guard'.error
      BY <2>1, <2>3 DEF LeaseFails, Rounds
    <3> QED BY <2>2, <3>1 DEF RowsInv, Fresh
  <2>4. CASE Lease \/ Flush \/ FlushFails
    <3>1. guard'.step = "write" /\ guard'.rows = guard.rows /\ guard'.error = guard.error
      BY <2>1, <2>4 DEF Lease, Flush, FlushFails, Rounds
    <3> QED BY <2>1, <2>2, <3>1 DEF RowsInv, Fresh
  <2> QED BY <1>3, <2>3, <2>4
<1>4. ASSUME NEW r \in Routes, NEW kind \in OutcomeKinds, Probe(r, kind) PROVE RowsInv'
  <2>1. guard \in Rounds
    BY <1>4 DEF Probe, TypeOK, Idle
  <2> QED BY <1>4, <1>i, <2>1 DEF Probe, Rounds, Updating
<1>5. CASE BeginRound \/ GiveUp \/ KillGuard
  BY <1>5, <1>i DEF BeginRound, GiveUp, KillGuard, Updating, Idle
<1>6. CASE Write
  <2>1. state' = [tx |-> guard.seen.tx, rows |-> guard.rows, error |-> guard.error] /\ guard' = Idle
    BY <1>6 DEF Write
  <2>2. ~guard.error => Fresh(guard.rows)
    BY <1>6 DEF Write, RowsInv, Updating
  <2> QED BY <2>1, <2>2 DEF RowsInv, Fresh, Idle, Updating
<1>7. CASE Upgrade
  <2>1. PICK verified \in SUBSET Enabled(manifest) : TakeOver(verified)
    BY <1>7 DEF Upgrade
  <2>2. state'.rows = [r \in verified |-> Verified] /\ guard = Idle /\ guard' = Idle
    BY <2>1 DEF TakeOver
  <2> QED BY <2>2 DEF RowsInv, Fresh, Verified, Idle, Updating
<1>8. CASE UNCHANGED vars
  BY <1>8, <1>s DEF vars
<1> QED BY <1>1, <1>2, <1>3, <1>4, <1>5, <1>6, <1>7, <1>8 DEF Next, Round

\* A round opens what it verified.
LEMMA RoundStep == TypeOK /\ TrialInv /\ RoundInv /\ SetsInv /\ [Next]_vars => RoundInv'
<1> SUFFICES ASSUME TypeOK, TrialInv, RoundInv, SetsInv, [Next]_vars PROVE RoundInv'
  OBVIOUS
<1>r. SeenInv' /\ RowsInv'
  BY SeenStep, RowsStep DEF RoundInv
<1>i. ASSUME ~Updating' PROVE RoundInv'
  BY <1>i, <1>r DEF Updating, RoundInv
<1>1. CASE Environment
  <2>1. CASE guard' = Idle
    BY <1>i, <2>1 DEF Updating, Idle
  <2>2. CASE guard' = guard /\ ~Updating
    BY <1>i, <2>2 DEF Updating
  <2>3. CASE guard' = guard /\ guard # Idle /\ Updating
    <3>1. \E c \in Clients : LeaseLapses(c)
      BY <1>1, <2>3, NoneOK DEF Environment, BeginApply, SwitchCore, FinishApply, UndoApply, KillApply,
         Commit, Rollback, Reboot, TypeOK
    <3>2. UNCHANGED evidence /\ Decided' \subseteq Decided
      BY <3>1 DEF LeaseLapses, Decided
    <3> QED BY <1>r, <2>3, <3>2 DEF RoundInv
  <2>4. Idle.step = "idle"
    BY DEF Idle
  <2> QED BY <1>1, <2>1, <2>2, <2>3, <2>4, EnvironmentKeeps DEF Updating
<1>2. CASE Decide
  <2>1. guard \in Rounds
    BY <1>2 DEF Decide, Probed, TypeOK, Idle
  <2> QED BY <1>2, <1>r, <2>1 DEF Decide, Rounds, RoundInv
<1>3. ASSUME Lease \/ LeaseFails \/ Flush \/ FlushFails PROVE RoundInv'
  <2>1. guard \in Rounds /\ Updating
    BY <1>3 DEF Lease, LeaseFails, Flush, FlushFails, TypeOK, Idle, Updating
  <2>2. guard.seen.tx \in Tx /\ DOMAIN guard.rows = DOMAIN guard.outcomes
        /\ DOMAIN guard.rows \subseteq Routes
    <3>1. guard.seen \in Version
      BY <2>1 DEF Rounds
    <3>2. guard.seen.tx \in Tx /\ Enabled(guard.seen) \subseteq Routes
      BY <3>1, LayoutsOK DEF Version, Enabled
    <3>3. guard # Idle
      BY <2>1 DEF Updating, Idle
    <3> QED BY <2>1, <3>2, <3>3 DEF TypeOK
  <2>4. CASE Lease
    <3>1. guard'.step = "write" /\ guard'.rows = guard.rows /\ guard'.seen = guard.seen
      BY <2>1, <2>4 DEF Lease, Rounds
    <3>2. \A r \in DOMAIN guard.rows : guard.rows[r].open =>
             guard.rows[r].success /\ evidence'[guard.seen.tx][r] = "ok"
      <4> SUFFICES ASSUME NEW r \in DOMAIN guard.rows, guard.rows[r].open
                   PROVE  guard.rows[r].success /\ evidence'[guard.seen.tx][r] = "ok"
        OBVIOUS
      <4>1. guard.rows[r] = NextRow(r) /\ r \in Routes
        BY <2>2, <2>4 DEF Lease, RoundInv, RowsInv
      <4>2. evidence'[guard.seen.tx][r] = IF guard.outcomes[r] \in {"ok", "hard"}
                                         THEN guard.outcomes[r] ELSE evidence[guard.seen.tx][r]
        BY <2>2, <2>4, <4>1 DEF Lease, Record, TypeOK
      <4>3. CASE guard.outcomes[r] = "ok"
        BY <4>1, <4>2, <4>3 DEF NextRow, Verified
      <4>4. CASE guard.outcomes[r] # "ok"
        <5>1. Prior(r) \in Row
          BY PriorIsRow
        <5>2. Prior(r).open /\ Prior(r).success /\ guard.outcomes[r] # "hard"
              /\ guard.rows[r].success = Prior(r).success
          BY <4>1, <4>4, <5>1 DEF NextRow, Failed, Row
        <5>3. evidence[guard.seen.tx][r] = "ok"
          BY <2>4, <5>2 DEF Lease, Prior, NoRow, SetsInv
        <5> QED BY <4>2, <4>4, <5>2, <5>3
      <4> QED BY <4>3, <4>4
    <3>3. Decided' \subseteq Ports(guard.seen, guard.rows)
      BY <2>4 DEF Lease, Replace, Decided
    <3> QED BY <1>r, <3>1, <3>2, <3>3 DEF RoundInv, Ports
  <2>5. CASE LeaseFails
    <3>1. /\ guard'.step = "flush"
          /\ guard'.rows = [r \in DOMAIN guard.rows |-> [guard.rows[r] EXCEPT !.open = FALSE]]
      BY <2>1, <2>5 DEF LeaseFails, Rounds
    <3>2. \A r \in DOMAIN guard.rows : guard.rows[r] \in Row
      <4>1. guard.rows \in PartialOver(Routes, Row)
        BY <2>1, <2>5 DEF LeaseFails, Rounds
      <4> QED BY <4>1 DEF PartialOver
    <3>3. \A r \in DOMAIN guard'.rows : ~guard'.rows[r].open
      BY <3>1, <3>2 DEF Row
    <3> QED BY <1>r, <3>1, <3>3 DEF RoundInv
  <2>6. CASE Flush \/ FlushFails
    <3>1. /\ guard'.step = "write" /\ guard'.rows = guard.rows /\ guard'.seen = guard.seen
          /\ guard'.error /\ UNCHANGED evidence /\ guard.step = "flush"
      BY <2>1, <2>6 DEF Flush, FlushFails, Rounds, RoundInv, RowsInv
    <3> QED BY <1>r, <3>1 DEF RoundInv
  <2> QED BY <1>3, <2>4, <2>5, <2>6
<1>4. ASSUME NEW r \in Routes, NEW kind \in OutcomeKinds, Probe(r, kind) PROVE RoundInv'
  <2>1. guard \in Rounds
    BY <1>4 DEF Probe, TypeOK, Idle
  <2> QED BY <1>4, <1>i, <2>1 DEF Probe, Rounds, Updating
<1>5. CASE BeginRound \/ GiveUp \/ Write \/ KillGuard
  BY <1>5, <1>i DEF BeginRound, GiveUp, Write, KillGuard, Updating, Idle
<1>6. CASE Upgrade
  BY <1>6, <1>i DEF Upgrade, TakeOver, Updating, Idle
<1>7. CASE UNCHANGED vars
  BY <1>7, <1>r DEF vars, sets, RoundInv, Decided
<1> QED BY <1>1, <1>2, <1>3, <1>4, <1>5, <1>6, <1>7 DEF Next, Round

\* The version that is installed, or will be again when the trial is undone.
Standing == IF pending = None THEN manifest ELSE saved

\* What the sets admit stays verified.
LEMMA SetsStep ==
    ASSUME CutsBeforeUpdate
    PROVE  TypeOK /\ TrialInv /\ RoundInv /\ SetsInv /\ [Next]_vars => SetsInv'
<1> SUFFICES ASSUME TypeOK, TrialInv, RoundInv, SetsInv, [Next]_vars PROVE SetsInv'
  OBVIOUS
<1>v. \A v \in Version : v.tx \in Tx /\ v.layout \in Layouts /\ Enabled(v) \subseteq Routes
  BY LayoutsOK DEF Version, Enabled
<1>1. CASE Environment
  <2> SUFFICES ASSUME guard'.step \notin {"flush", "write"} PROVE SetsInv'
    BY DEF SetsInv
  <2>1. guard.step \notin {"flush", "write"}
    <3> SUFFICES ASSUME guard.step \in {"flush", "write"} PROVE FALSE
      OBVIOUS
    <3>1. lock = "guard"
      BY DEF TypeOK, Updating
    <3> QED
      BY <1>1, <3>1, NoneOK DEF Environment, BeginApply, SwitchCore, FinishApply, UndoApply, KillApply,
         Commit, Rollback, Reboot, LeaseLapses, CutsBeforeUpdate
  <2>2. /\ Decided' \subseteq Decided /\ UNCHANGED state
        /\ \A t \in Tx, r \in Routes : evidence[t][r] = "ok" => evidence'[t][r] = "ok"
    BY <1>1, EnvironmentKeeps
  <2>3. \A v \in Version \cup {None} : VerifiedFor(v) => VerifiedFor(v)'
    BY <1>v, <2>2 DEF VerifiedFor, RouteOf
  <2>5. state # None => \A r \in DOMAIN state.rows : state.rows[r].open =>
           state.rows[r].success /\ evidence'[state.tx][r] = "ok"
    BY <2>1, <2>2 DEF SetsInv, TypeOK, Report, PartialOver
  <2>6. CASE Commit
    <3>1. /\ manifest = pending /\ manifest # None /\ pending' = None
          /\ UNCHANGED <<manifest, live, tls, skipped, state, evidence>>
      BY <2>6 DEF Commit, sets
    <3>2. \A q \in Enabled(manifest) : evidence[manifest.tx][q] = "ok"
      BY <2>6 DEF Commit, TrialInv
    <3>3. VerifiedFor(manifest)
      BY <3>1, <3>2 DEF VerifiedFor, RouteOf
    <3>4. VerifiedFor(manifest)'
      BY <3>1, <3>3 DEF VerifiedFor, Decided
    <3> QED BY <2>2, <2>5, <3>1, <3>4 DEF SetsInv
  <2>7. CASE ~Commit
    <3>1. Standing' = Standing
      BY <1>1, <2>7, NoneOK DEF Environment, BeginApply, SwitchCore, FinishApply, UndoApply, KillApply,
         Rollback, Reboot, Restore, LeaseLapses, Standing, configVars, TrialInv, TypeOK, Version
    <3>2. Standing \in Version \cup {None}
      BY DEF Standing, TypeOK
    <3>3. ~Unsure => VerifiedFor(Standing)'
      BY <2>1, <2>3, <3>1, <3>2 DEF SetsInv, Standing
    <3> QED BY <2>2, <2>5, <3>1, <3>3 DEF SetsInv, Standing, Unsure
  <2> QED BY <2>6, <2>7
<1>2. CASE Write
  <2>1. guard \in Rounds /\ pending = None /\ manifest = guard.seen /\ guard # Idle
    BY <1>2 DEF Write, TypeOK, Idle, TrialInv, RoundInv, SeenInv, Updating
  <2>2. guard.seen \in Version /\ DOMAIN guard.rows = Enabled(guard.seen)
    BY <1>2, <2>1 DEF Write, TypeOK, Rounds, Updating
  <2>3. /\ state' = [tx |-> guard.seen.tx, rows |-> guard.rows, error |-> guard.error]
        /\ UNCHANGED <<manifest, pending, live, tls, skipped, evidence>>
    BY <1>2 DEF Write, configVars, sets
  <2>4. \A r \in DOMAIN guard.rows : guard.rows[r].open =>
           guard.rows[r].success /\ evidence[guard.seen.tx][r] = "ok"
    BY <1>2 DEF Write, RoundInv
  <2>5. ASSUME ~guard.error, NEW c \in Decided, NEW r \in RouteOf(guard.seen, c)
        PROVE  r \in DOMAIN guard.rows /\ guard.rows[r].open
    <3>1. PICK s \in DOMAIN guard.rows : guard.rows[s].open /\ c \in guard.seen.layout[s]
      BY <1>2, <2>5 DEF Write, RoundInv, Ports
    <3>2. /\ r \in DOMAIN guard.seen.layout /\ s \in DOMAIN guard.seen.layout
          /\ c \in guard.seen.layout[r]
      BY <2>2 DEF RouteOf, Enabled
    <3>3. r = s
      BY <1>v, <2>2, <3>1, <3>2, LayoutsOK
    <3> QED BY <3>1, <3>3
  <2>6. ~guard.error => VerifiedFor(guard.seen)
    BY <2>2, <2>4, <2>5, NoneOK DEF VerifiedFor
  <2>8. ~guard.error => VerifiedFor(manifest)'
    BY <2>1, <2>3, <2>6 DEF VerifiedFor, Decided
  <2>9. \A r \in DOMAIN state'.rows : state'.rows[r].open =>
           state'.rows[r].success /\ evidence'[state'.tx][r] = "ok"
    BY <2>3, <2>4
  <2>10. pending' = None /\ (~Unsure' => ~guard.error)
    <3>1. state' # None
      <4>1. guard.rows \in PartialOver(Routes, Row) /\ guard.error \in BOOLEAN
        BY <1>2, <2>1 DEF Write, Rounds
      <4>2. state' \in Report
        BY <1>v, <2>2, <2>3, <4>1 DEF Report
      <4> QED BY <4>2, NoneOK
    <3> QED BY <2>1, <2>3, <3>1 DEF Unsure
  <2> QED BY <2>8, <2>9, <2>10 DEF SetsInv
<1>3. ASSUME Round, ~Write PROVE SetsInv'
  <2> SUFFICES ASSUME guard'.step \notin {"flush", "write"} PROVE SetsInv'
    BY DEF SetsInv
  <2>1. guard.step \notin {"flush", "write"}
    <3> SUFFICES ASSUME guard.step \in {"flush", "write"} PROVE FALSE
      OBVIOUS
    <3>1. guard \in Rounds
      BY DEF TypeOK, Idle
    <3>2. Flush \/ FlushFails
      BY <1>3 DEF Round, BeginRound, GiveUp, Decide, Probed, KillGuard, Probe, Lease, LeaseFails,
         Idle, CutsBeforeUpdate
    <3>3. guard'.step = "write"
      BY <3>1, <3>2 DEF Flush, FlushFails, Rounds
    <3> QED BY <3>3
  <2>2. ~Lease /\ ~LeaseFails
    <3> SUFFICES ASSUME Lease \/ LeaseFails PROVE FALSE
      OBVIOUS
    <3>1. guard \in Rounds
      BY DEF TypeOK, Idle, Lease, LeaseFails
    <3> QED BY <3>1 DEF Lease, LeaseFails, Rounds
  <2>3. UNCHANGED <<manifest, pending, saved, state, live, tls, skipped, evidence>>
    BY <1>3, <2>1, <2>2 DEF Round, BeginRound, GiveUp, Decide, KillGuard, Probe, Flush, FlushFails,
       configVars, sets
  <2> QED BY <2>1, <2>3 DEF SetsInv, VerifiedFor, Decided, Unsure
<1>4. CASE Upgrade
  <2>1. PICK verified \in SUBSET Enabled(manifest) : TakeOver(verified)
    BY <1>4 DEF Upgrade
  <2> DEFINE rows == [r \in verified |-> Verified]
  <2>2. /\ manifest \in Version /\ UNCHANGED manifest /\ pending' = None
        /\ state' = [tx |-> manifest.tx, rows |-> rows, error |-> FALSE]
        /\ Decided' = Ports(manifest, rows)
    BY <2>1 DEF TakeOver, TypeOK, configVars, Decided
  <2>3. \A r \in verified : evidence'[manifest.tx][r] = "ok" /\ rows[r].success
    BY <1>v, <2>1, <2>2 DEF TakeOver, TypeOK, Verified
  <2>4. ASSUME NEW c \in Decided', NEW r \in RouteOf(manifest, c) PROVE r \in verified
    <3>1. PICK s \in verified : c \in manifest.layout[s]
      BY <2>2, <2>4 DEF Ports
    <3>2. /\ r \in DOMAIN manifest.layout /\ s \in DOMAIN manifest.layout
          /\ c \in manifest.layout[r]
      BY <2>1, <2>4 DEF RouteOf, Enabled
    <3>3. r = s
      BY <1>v, <2>2, <3>1, <3>2, LayoutsOK
    <3> QED BY <3>3
  <2> HIDE DEF rows
  <2>5. VerifiedFor(manifest)'
    BY <2>2, <2>3, <2>4, NoneOK DEF VerifiedFor, RouteOf
  <2>6. DOMAIN rows = verified
    BY DEF rows
  <2> QED BY <2>2, <2>3, <2>5, <2>6 DEF SetsInv
<1>5. CASE UNCHANGED vars
  BY <1>5 DEF vars, configVars, sets, SetsInv, VerifiedFor, Decided, Unsure
<1> QED BY <1>1, <1>2, <1>3, <1>4, <1>5 DEF Next

\* Whatever is cut, and wherever: types, trials, and what a round works on.
LEMMA TrialAlways == Spec => [](TypeOK /\ TrialInv /\ SeenInv /\ RowsInv)
<1>1. Init => TypeOK /\ TrialInv /\ SeenInv /\ RowsInv
  BY GuardInit DEF GuardInv, RoundInv
<1>2. TypeOK /\ TrialInv /\ SeenInv /\ RowsInv /\ [Next]_vars
        => (TypeOK /\ TrialInv /\ SeenInv /\ RowsInv)'
  BY TypeStep, TrialStep, SeenStep, RowsStep
<1> QED BY <1>1, <1>2, PTL DEF Spec

\* The inductive invariant always holds.
LEMMA GuardAlways == ASSUME CutsBeforeUpdate PROVE Spec => []GuardInv
<1>1. GuardInv /\ [Next]_vars => GuardInv'
  BY TypeStep, TrialStep, RoundStep, SetsStep DEF GuardInv, RoundInv
<1> QED BY <1>1, GuardInit, PTL DEF Spec

\* What the versions, the round, guard.json and the sets can be: wherever a round is cut.
THEOREM GuardTyped == Spec => []TypeOK
BY TrialAlways, PTL

\* Between the rounds and outside a trial, a phone whose port the last update opened or kept is
\* served by a route whose last definite outcome under the version the core runs was a success.
\* An HTTPS set that this update skipped is left out: it may hold the ports of a closed route.
THEOREM Verifies == ASSUME CutsBeforeUpdate PROVE Spec => []OpenIsVerified
<1>1. GuardInv => OpenIsVerified
  <2> SUFFICES ASSUME GuardInv, lock # "guard", pending = None, ~Unsure
               PROVE  \A c \in Decided : core # None /\ \A r \in RouteOf(core, c) :
                                          evidence[core.tx][r] = "ok"
    BY DEF OpenIsVerified, Settled
  <2>1. guard.step \notin {"flush", "write"} /\ core = manifest
    BY DEF GuardInv, TypeOK, Updating, TrialInv
  <2> QED BY <2>1 DEF GuardInv, SetsInv, VerifiedFor
<1> QED BY <1>1, GuardAlways, PTL

\* No port is opened while a version is on trial, by a round that began before it either,
\* and wherever a round is cut.
THEOREM TrialKeepsShut == Spec => TrialOpensNothing
<1>1. TypeOK /\ TrialInv /\ [Next]_vars =>
        [pending # None /\ pending' # None => live' \subseteq live /\ tls' \subseteq tls]_vars
  <2> SUFFICES ASSUME TypeOK, TrialInv, [Next]_vars, pending # None
               PROVE  live' \subseteq live /\ tls' \subseteq tls
    OBVIOUS
  <2>1. CASE Environment
    BY <2>1, EnvironmentKeeps
  <2>2. CASE Round
    <3>1. ~Updating /\ ~Decide
      BY DEF TrialInv, Decide
    <3> QED BY <2>2, <3>1, RoundKeeps DEF sets
  <2>3. CASE UNCHANGED vars
    BY <2>3 DEF vars, sets
  <2> QED BY <2>1, <2>2, <2>3 DEF Next, Upgrade, TakeOver
<1> QED BY <1>1, TrialAlways, PTL DEF Spec, TrialOpensNothing

\* The first soft failure after a success that guard.json reports leaves the clients of the
\* route in both sets, wherever a round is cut; a second set that the update skips stays as it is.
THEOREM GraceKeeps == Spec => GraceKeepsOpen
<1>1. TypeOK /\ TrialInv /\ RowsInv /\ [Next]_vars =>
        [guard.step = "lease" /\ guard'.step = "write" /\ ~Unsure
         /\ state # None /\ state.tx = guard.seen.tx =>
           \A r \in DOMAIN state.rows \cap DOMAIN guard.outcomes :
              state.rows[r].streak = 0 /\ guard.outcomes[r] \in {"soft", "late"} =>
                  /\ guard.seen.layout[r] \subseteq live'
                  /\ guard.seen.layout[r] \subseteq tls' \/ skipped']_vars
  <2> SUFFICES ASSUME TypeOK, TrialInv, RowsInv, Next, guard.step = "lease", guard'.step = "write",
                      ~Unsure, state # None, state.tx = guard.seen.tx,
                      NEW r \in DOMAIN state.rows \cap DOMAIN guard.outcomes,
                      state.rows[r].streak = 0, guard.outcomes[r] \in {"soft", "late"}
               PROVE  /\ guard.seen.layout[r] \subseteq live'
                      /\ guard.seen.layout[r] \subseteq tls' \/ skipped'
    OBVIOUS
  <2>1. guard \in Rounds /\ guard # Idle
    BY DEF TypeOK, Idle
  <2>2. DOMAIN guard.rows = DOMAIN guard.outcomes
    BY <2>1 DEF TypeOK, Updating
  <2>3. Prior(r) \in Row /\ Prior(r).open /\ Prior(r).success
    BY PriorIsRow DEF Prior, RowsInv, Fresh, Unsure
  <2>4. guard.rows[r].open
    <3>1. guard.rows[r] = NextRow(r)
      BY <2>2 DEF RowsInv
    <3> QED BY <2>3, <3>1 DEF NextRow, Failed, Row
  <2>5. Lease
    <3>1. ~Environment
      <4>1. Environment => guard' = guard \/ guard' = Idle
        BY EnvironmentKeeps
      <4> QED BY <4>1 DEF Idle
    <3>2. ~LeaseFails
      <4>1. LeaseFails => guard'.step = "flush"
        BY <2>1 DEF LeaseFails, Rounds
      <4> QED BY <4>1
    <3>3. ~KillGuard
      BY DEF KillGuard, Idle
    <3> QED
      BY <2>1, <3>1, <3>2, <3>3 DEF Next, Round, BeginRound, GiveUp, Probed, Decide, Write, Probe,
         Flush, FlushFails, Upgrade, TakeOver
  <2>6. guard.seen.layout[r] \subseteq Ports(guard.seen, guard.rows)
    BY <2>2, <2>4 DEF Ports
  <2> QED BY <2>5, <2>6 DEF Lease, Replace
<1> QED BY <1>1, TrialAlways, PTL DEF Spec, GraceKeepsOpen

-----------------------------------------------------------------------------
(* The environment of the guard is the store that Transactions implements. *)

\* A version under the names of ConfigStore, and the files that hold it.
Named(v) == IF v = None THEN None ELSE [tx |-> v.tx, groups |-> v.layout]

FilesOf(v) == IF v = None THEN [config |-> None, firewall |-> None, manifest |-> None]
              ELSE [config |-> v.layout, firewall |-> v.layout, manifest |-> Named(v)]

\* Until it is decided, a trial stands beside the files that its rollback restores.
Installed == IF pending = None THEN manifest ELSE saved

Store == INSTANCE ConfigStore
         WITH Groups <- Layouts, Factory <- None,
              installed <- FilesOf(Installed), proposal <- Named(pending)

\* Nobody installs or proposes anything.
LEMMA StoreIdle ==
    ASSUME UNCHANGED <<manifest, pending, saved>> PROVE UNCHANGED Store!storeVars
BY DEF Store!storeVars, FilesOf, Named, Installed

\* What the guard is checked against is what the transactions promise: apply() proposes, commit()
\* accepts, a rollback, a failed apply() and a reboot abandon; and no round of the guard has a
\* part in it.
THEOREM GuardsStore == ASSUME None \notin Store!Version PROVE Spec => Store!StoreSpec
<1> USE NoneOK
<1>v. ASSUME NEW v \in Version
      PROVE  /\ v # None /\ Named(v) \in Store!Version /\ Named(v) # None
             /\ FilesOf(v) = Store!Whole(Named(v)) /\ FilesOf(v).manifest = Named(v)
             /\ Named(v).tx = v.tx
  BY DEF Version, Named, FilesOf, Store!Version, Store!Whole
<1>n. Named(None) = None /\ FilesOf(None) = Store!FactoryFiles /\ FilesOf(None).manifest = None
  BY DEF Named, FilesOf, Store!FactoryFiles
<1>1. Init => Store!StoreInit
  BY <1>n DEF Init, Store!StoreInit, Installed
<1>2. TypeOK /\ TrialInv /\ [Next]_vars => [Store!StoreNext]_(Store!storeVars)
  <2> SUFFICES ASSUME TypeOK, TrialInv, [Next]_vars
               PROVE  Store!StoreNext \/ UNCHANGED Store!storeVars
    OBVIOUS
  <2>r. ASSUME Restore, pending # None PROVE Store!StoreNext
    <3>1. pending \in Version /\ pending' = None /\ manifest' = saved
      BY <2>r DEF TypeOK, Restore
    <3>2. Installed' = Installed
      BY <2>r, <3>1 DEF Installed
    <3>3. Named(pending)' = None /\ FilesOf(Installed)' = FilesOf(Installed)
      BY <3>1, <3>2 DEF Named, FilesOf
    <3> QED BY <1>v, <3>1, <3>3 DEF Store!StoreNext, Store!Abandon
  <2>1. ASSUME NEW t \in Tx, NEW l \in Layouts, BeginApply(t, l)
        PROVE  Store!StoreNext
    <3>1. /\ pending = None /\ pending' = [tx |-> t, layout |-> l] /\ pending' \in Version
          /\ saved' = manifest /\ t \notin used
      BY <2>1 DEF BeginApply, Version
    <3>2. Installed' = Installed /\ Installed = manifest
      BY <3>1 DEF Installed
    <3>3. Named(pending)' = Named(pending') /\ FilesOf(Installed)' = FilesOf(Installed)
      BY <3>2 DEF Named, FilesOf
    <3>4. Named(pending') \in Store!Version /\ Named(pending').tx = t
      BY <1>v, <3>1
    <3>5. FilesOf(Installed).manifest # None => FilesOf(Installed).manifest.tx # t
      <4>1. manifest # None => manifest \in Version /\ manifest.tx \in used
        BY DEF TypeOK, TrialInv
      <4> QED BY <1>n, <1>v, <3>1, <3>2, <4>1
    <3>6. Store!Propose(Named(pending'))
      BY <1>n, <3>1, <3>3, <3>4, <3>5 DEF Store!Propose
    <3> QED BY <3>4, <3>6 DEF Store!StoreNext
  <2>2. CASE SwitchCore \/ KillApply
    BY <2>2, StoreIdle DEF SwitchCore, KillApply, configVars
  <2>3. CASE FinishApply
    <3>1. pending # None /\ UNCHANGED <<pending, saved>>
      BY <2>3 DEF FinishApply, TrialInv
    <3> QED BY <3>1 DEF Store!storeVars, FilesOf, Named, Installed
  <2>4. CASE UndoApply \/ Rollback
    BY <2>4, <2>r DEF UndoApply, Rollback, TrialInv
  <2>5. CASE Commit
    <3>1. pending \in Version /\ manifest = pending /\ pending' = None /\ manifest' = manifest
      BY <2>5 DEF Commit, TypeOK
    <3>2. FilesOf(Installed)' = FilesOf(pending) /\ Named(pending)' = None
      BY <3>1 DEF Installed, FilesOf, Named
    <3> QED BY <1>v, <3>1, <3>2 DEF Store!StoreNext, Store!Accept
  <2>6. CASE Reboot
    BY <2>6, <2>r, StoreIdle DEF Reboot, configVars
  <2>7. CASE (\E c \in Clients : LeaseLapses(c)) \/ UNCHANGED vars
    BY <2>7, StoreIdle DEF LeaseLapses, vars, configVars
  <2>8. CASE Round
    <3>1. UNCHANGED configVars
      BY <2>8, RoundKeeps
    <3>2. UNCHANGED <<manifest, pending, saved>>
      BY <3>1 DEF configVars
    <3> QED BY <3>2, StoreIdle
  <2>9. CASE Upgrade
    BY <2>9, StoreIdle DEF Upgrade, TakeOver, configVars
  <2> QED BY <2>1, <2>2, <2>3, <2>4, <2>5, <2>6, <2>7, <2>8, <2>9 DEF Next, Environment
<1> QED BY <1>1, <1>2, TrialAlways, PTL DEF Spec, Store!StoreSpec

-----------------------------------------------------------------------------
(* FlattenSeq: a recursive function over the indices. *)

\* Induction, for a set of numbers: the library's takes an operator.
LEMMA NumbersInduction ==
    ASSUME NEW N, 0 \in N, \A n \in Nat : n \in N => n + 1 \in N PROVE Nat \subseteq N
<1> SUFFICES ASSUME Nat \ N # {} PROVE FALSE
  OBVIOUS
<1>1. PICK x \in Nat \ N : \A y \in Nat \ N : <<y, x>> \notin OpToRel(<, Nat)
  <2>1. Nat \ N \subseteq Nat
    OBVIOUS
  <2> HIDE DEF OpToRel
  <2> QED BY <2>1, NatLessThanWellFounded, WFMin, Zenon
<1>2. x - 1 \in Nat /\ x - 1 \notin N
  OBVIOUS
<1>3. <<x - 1, x>> \in OpToRel(<, Nat)
  BY <1>2 DEF OpToRel
<1> QED BY <1>1, <1>2, <1>3

\* What two sequences are, one after the other.
LEMMA Joined ==
    ASSUME NEW S, NEW a \in Seq(S), NEW b \in Seq(S)
    PROVE  /\ a \o b \in Seq(S) /\ Len(a \o b) = Len(a) + Len(b)
           /\ \A i \in 1..Len(a) : (a \o b)[i] = a[i]
           /\ \A i \in 1..Len(b) : (a \o b)[Len(a) + i] = b[i]
           /\ \A i \in 1..Len(a \o b) : i \notin 1..Len(a) => i - Len(a) \in 1..Len(b)
                                                     /\ (a \o b)[i] = b[i - Len(a)]
OBVIOUS

\* The first n sequences, joined.
Join(F, seqs, i) == IF i = 1 THEN seqs[i] ELSE F[i - 1] \o seqs[i]
Joins(seqs) == CHOOSE F : F = [i \in 1..Len(seqs) |-> Join(F, seqs, i)]

\* That is what FlattenSeq unfolds to.
LEMMA FlattenUnfolds ==
    ASSUME NEW seqs
    PROVE  FlattenSeq(seqs) = IF Len(seqs) = 0 THEN seqs ELSE Joins(seqs)[Len(seqs)]
BY DEF FlattenSeq, Joins, Join

\* The definition has a solution: it is found for one index more at a time.
LEMMA JoinsSolve ==
    ASSUME NEW S, NEW seqs \in Seq(Seq(S))
    PROVE  \A i \in 1..Len(seqs) : /\ Joins(seqs)[i] = Join(Joins(seqs), seqs, i)
                                   /\ Joins(seqs)[i] \in Seq(S)
<1> DEFINE D == 1..Len(seqs)
           Solves(F, n) == \A i \in D : i <= n => F[i] = Join(F, seqs, i)
           N == {n \in Nat : \E F \in [D -> Seq(S)] : Solves(F, n)}
<1>1. Len(seqs) \in Nat /\ \A i \in D : seqs[i] \in Seq(S)
  OBVIOUS
<1>2. 0 \in N
  <2> DEFINE F == [i \in D |-> seqs[i]]
  <2>1. F \in [D -> Seq(S)] /\ Solves(F, 0)
    BY <1>1
  <2> HIDE DEF F
  <2> QED BY <2>1
<1>3. ASSUME NEW n \in Nat, n \in N PROVE n + 1 \in N
  <2>1. PICK F \in [D -> Seq(S)] : Solves(F, n)
    BY <1>3
  <2> DEFINE G == [i \in D |-> IF i <= n THEN F[i] ELSE Join(F, seqs, i)]
  <2>2. ASSUME NEW i \in D PROVE Join(F, seqs, i) \in Seq(S)
    <3>1. CASE i = 1
      BY <1>1, <3>1 DEF Join
    <3>2. CASE i # 1
      <4>1. i - 1 \in D
        BY <1>1, <3>2
      <4>2. F[i - 1] \in Seq(S) /\ seqs[i] \in Seq(S)
        BY <1>1, <4>1
      <4> QED BY <3>2, <4>2 DEF Join
    <3> QED BY <3>1, <3>2
  <2>3. G \in [D -> Seq(S)]
    BY <2>2
  <2>4. ASSUME NEW i \in D, i <= n + 1 PROVE G[i] = Join(G, seqs, i)
    <3>1. G[i] = Join(F, seqs, i)
      BY <2>1
    <3>2. i # 1 => G[i - 1] = F[i - 1]
      BY <1>1, <2>4
    <3> QED BY <3>1, <3>2 DEF Join
  <2> HIDE DEF G
  <2>5. Solves(G, n + 1)
    BY <2>4
  <2> HIDE DEF Solves
  <2> QED BY <2>3, <2>5
<1>4. Len(seqs) \in N
  <2> HIDE DEF N
  <2>1. Nat \subseteq N
    BY <1>2, <1>3, NumbersInduction
  <2> QED BY <1>1, <2>1
<1>5. PICK F \in [D -> Seq(S)] : \A i \in D : F[i] = Join(F, seqs, i)
  BY <1>1, <1>4
<1>6. F = [i \in D |-> Join(F, seqs, i)]
  BY <1>5
<1> DEFINE J == Joins(seqs)
<1>7. J = [i \in D |-> Join(J, seqs, i)]
  BY <1>6 DEF Joins
<1> HIDE DEF J
<1>8. \A i \in D : J[i] = Join(J, seqs, i)
  BY <1>7
<1> DEFINE M == {n \in Nat : n + 1 \in D => J[n + 1] \in Seq(S)}
<1>9. 0 \in M
  BY <1>1, <1>8 DEF Join
<1>10. ASSUME NEW n \in Nat, n \in M PROVE n + 1 \in M
  <2> SUFFICES ASSUME n + 2 \in D PROVE J[n + 2] \in Seq(S)
    OBVIOUS
  <2>1. J[n + 1] \in Seq(S) /\ seqs[n + 2] \in Seq(S)
    BY <1>1, <1>10
  <2>2. J[n + 2] = J[n + 1] \o seqs[n + 2]
    <3>1. (n + 2) - 1 = n + 1 /\ n + 2 # 1
      OBVIOUS
    <3>2. J[n + 2] = Join(J, seqs, n + 2)
      BY <1>8
    <3> QED BY <3>1, <3>2 DEF Join
  <2> QED BY <2>1, <2>2
<1>11. ASSUME NEW i \in D PROVE J[i] \in Seq(S)
  <2>1. Nat \subseteq M
    <3> HIDE DEF M
    <3> QED BY <1>9, <1>10, NumbersInduction
  <2>2. i - 1 \in Nat /\ (i - 1) + 1 = i
    BY <1>1
  <2>3. i - 1 \in M
    BY <2>1, <2>2
  <2> QED BY <2>2, <2>3
<1> QED BY <1>8, <1>11 DEF J

\* FlattenSeq as a reader says it: nothing, and then one sequence after the other.
LEMMA Flattened ==
    ASSUME NEW S, NEW seqs \in Seq(Seq(S))
    PROVE  \E B \in [0..Len(seqs) -> Seq(S)] :
              /\ B[0] = <<>> /\ B[Len(seqs)] = FlattenSeq(seqs)
              /\ \A k \in 0..(Len(seqs) - 1) : B[k + 1] = B[k] \o seqs[k + 1]
<1> DEFINE n == Len(seqs)
           B == [k \in 0..n |-> IF k = 0 THEN <<>> ELSE Joins(seqs)[k]]
<1>1. n \in Nat /\ \A i \in 1..n : seqs[i] \in Seq(S)
  OBVIOUS
<1>2. B \in [0..n -> Seq(S)]
  BY <1>1, JoinsSolve
<1>3. B[0] = <<>>
  BY <1>1
<1>4. B[n] = FlattenSeq(seqs)
  <2>1. CASE n = 0
    BY <2>1, FlattenUnfolds
  <2>2. CASE n # 0
    BY <1>1, <2>2, FlattenUnfolds
  <2> QED BY <2>1, <2>2
<1>5. ASSUME NEW k \in 0..(n - 1) PROVE B[k + 1] = B[k] \o seqs[k + 1]
  <2>1. k + 1 \in 1..n /\ k + 1 # 0 /\ k \in 0..n /\ (k + 1) - 1 = k
    BY <1>1
  <2>2. B[k + 1] = Join(Joins(seqs), seqs, k + 1)
    BY <2>1, JoinsSolve
  <2>3. CASE k = 0
    <3>1. B[k + 1] = seqs[k + 1] /\ B[k] = <<>>
      BY <2>1, <2>2, <2>3 DEF Join
    <3>2. seqs[k + 1] \in Seq(S)
      BY <1>1, <2>1
    <3> HIDE DEF B
    <3> QED BY <3>1, <3>2
  <2>4. CASE k # 0
    <3>1. k + 1 # 1 /\ B[k] = Joins(seqs)[k]
      BY <2>1, <2>4
    <3> QED BY <2>1, <2>2, <3>1 DEF Join
  <2> QED BY <2>3, <2>4
<1> HIDE DEF B
<1> QED BY <1>2, <1>3, <1>4, <1>5

\* A claim about what comes before each index, up to all of it.
LEMMA ByIndex ==
    ASSUME NEW n \in Nat, NEW K, 0 \in K, \A k \in 0..(n - 1) : k \in K => k + 1 \in K
    PROVE  \A k \in 0..n : k \in K
<1> DEFINE N == {k \in Nat : k <= n => k \in K}
<1>1. 0 \in N
  OBVIOUS
<1>2. \A k \in Nat : k \in N => k + 1 \in N
  OBVIOUS
<1>3. Nat \subseteq N
  <2> HIDE DEF N
  <2> QED BY <1>1, <1>2, NumbersInduction
<1> QED BY <1>3

\* What is in one of the sequences is somewhere in all of them, two entries at two places.
LEMMA FlattenPlaces ==
    ASSUME NEW S, NEW seqs \in Seq(Seq(S))
    PROVE  /\ FlattenSeq(seqs) \in Seq(S)
           /\ \A i \in DOMAIN seqs : \A p \in DOMAIN seqs[i] :
                 \E a \in DOMAIN FlattenSeq(seqs) : FlattenSeq(seqs)[a] = seqs[i][p]
           /\ \A i, j \in DOMAIN seqs : \A p \in DOMAIN seqs[i], q \in DOMAIN seqs[j] :
                 i # j \/ p # q =>
                     \E a, b \in DOMAIN FlattenSeq(seqs) :
                        a # b /\ FlattenSeq(seqs)[a] = seqs[i][p] /\ FlattenSeq(seqs)[b] = seqs[j][q]
           /\ \A a \in DOMAIN FlattenSeq(seqs) :
                 \E i \in DOMAIN seqs : \E p \in DOMAIN seqs[i] : FlattenSeq(seqs)[a] = seqs[i][p]
<1> DEFINE n == Len(seqs)
<1>1. PICK B \in [0..n -> Seq(S)] :
         /\ B[0] = <<>> /\ B[n] = FlattenSeq(seqs)
         /\ \A k \in 0..(n - 1) : B[k + 1] = B[k] \o seqs[k + 1]
  BY Flattened
<1>2. n \in Nat /\ DOMAIN seqs = 1..n /\ \A i \in 1..n : seqs[i] \in Seq(S) /\ DOMAIN seqs[i] = 1..Len(seqs[i])
  OBVIOUS
<1> DEFINE Held(k) == \A i \in 1..k : \A p \in DOMAIN seqs[i] :
                         \E a \in DOMAIN B[k] : B[k][a] = seqs[i][p]
           Apart(k) == \A i, j \in 1..k : \A p \in DOMAIN seqs[i], q \in DOMAIN seqs[j] :
                          i # j \/ p # q =>
                              \E a, b \in DOMAIN B[k] :
                                 a # b /\ B[k][a] = seqs[i][p] /\ B[k][b] = seqs[j][q]
           Known(k) == \A a \in DOMAIN B[k] :
                          \E i \in 1..k : \E p \in DOMAIN seqs[i] : B[k][a] = seqs[i][p]
           K == {k \in 0..n : Held(k) /\ Apart(k) /\ Known(k)}
<1>3. 0 \in K
  <2>1. DOMAIN B[0] = {}
    <3>1. \A x : x = <<>> => DOMAIN x = {}
      OBVIOUS
    <3> QED BY <1>1, <3>1
  <2>2. 1..0 = {} /\ 0 \in 0..n
    BY <1>2
  <2> HIDE DEF n
  <2> QED BY <2>1, <2>2
<1>4. ASSUME NEW k \in 0..(n - 1), k \in K PROVE k + 1 \in K
  <2> DEFINE b == B[k]
             s == seqs[k + 1]
             t == B[k + 1]
  <2>1. b \in Seq(S) /\ s \in Seq(S) /\ t = b \o s /\ k \in Nat /\ k + 1 \in 0..n /\ k + 1 \in 1..n
    <3>1. k \in Nat /\ k \in 0..n /\ k + 1 \in 0..n /\ k + 1 \in 1..n
      BY <1>2
    <3> HIDE DEF n
    <3>2. b \in Seq(S) /\ t = b \o s
      BY <1>1, <3>1
    <3>3. s \in Seq(S)
      BY <1>2, <3>1
    <3> QED BY <3>1, <3>2, <3>3
  <2>2. Held(k) /\ Apart(k) /\ Known(k)
    BY <1>4
  <2>3. /\ t \in Seq(S) /\ DOMAIN t = 1..Len(t) /\ Len(t) = Len(b) + Len(s)
        /\ DOMAIN b = 1..Len(b) /\ Len(b) \in Nat /\ DOMAIN s = 1..Len(s) /\ Len(s) \in Nat
        /\ \A a \in 1..Len(b) : t[a] = b[a]
        /\ \A a \in 1..Len(s) : t[Len(b) + a] = s[a]
        /\ \A a \in 1..Len(t) : a \notin 1..Len(b) => a - Len(b) \in 1..Len(s) /\ t[a] = s[a - Len(b)]
    <3> HIDE DEF b, s, t
    <3> QED BY <2>1, Joined
  <2>4. \A i \in 1..(k + 1) : i \in 1..k \/ i = k + 1
    BY <2>1
  <2> HIDE DEF K, t, b, s
  <2>5. \A a \in DOMAIN b : a \in DOMAIN t /\ t[a] = b[a]
    BY <2>3
  <2>6. \A a \in DOMAIN s : Len(b) + a \in DOMAIN t /\ t[Len(b) + a] = s[a] /\ Len(b) + a \notin DOMAIN b
    BY <2>3
  <2>7. Held(k + 1)
    <3> SUFFICES ASSUME NEW i \in 1..(k + 1), NEW p \in DOMAIN seqs[i]
                 PROVE  \E a \in DOMAIN t : t[a] = seqs[i][p]
      BY DEF t
    <3>1. CASE i \in 1..k
      BY <3>1, <2>2, <2>5 DEF b
    <3>2. CASE i = k + 1
      BY <3>2, <2>6 DEF s
    <3> QED BY <3>1, <3>2, <2>4
  <2>8. Apart(k + 1)
    <3> SUFFICES ASSUME NEW i \in 1..(k + 1), NEW j \in 1..(k + 1),
                        NEW p \in DOMAIN seqs[i], NEW q \in DOMAIN seqs[j], i # j \/ p # q
                 PROVE  \E x, y \in DOMAIN t : x # y /\ t[x] = seqs[i][p] /\ t[y] = seqs[j][q]
      BY DEF t
    <3>1. CASE i \in 1..k /\ j \in 1..k
      <4>1. PICK x, y \in DOMAIN b : x # y /\ b[x] = seqs[i][p] /\ b[y] = seqs[j][q]
        BY <3>1, <2>2 DEF b
      <4> QED BY <4>1, <2>5
    <3>2. CASE i \in 1..k /\ j = k + 1
      <4>1. PICK x \in DOMAIN b : b[x] = seqs[i][p]
        BY <3>2, <2>2 DEF b
      <4>2. x \in DOMAIN t /\ t[x] = seqs[i][p]
        BY <4>1, <2>5
      <4>3. Len(b) + q \in DOMAIN t /\ t[Len(b) + q] = seqs[j][q] /\ Len(b) + q # x
        BY <3>2, <4>1, <2>6 DEF s
      <4> QED BY <4>2, <4>3
    <3>3. CASE i = k + 1 /\ j \in 1..k
      <4>1. PICK x \in DOMAIN b : b[x] = seqs[j][q]
        BY <3>3, <2>2 DEF b
      <4>2. x \in DOMAIN t /\ t[x] = seqs[j][q]
        BY <4>1, <2>5
      <4>3. Len(b) + p \in DOMAIN t /\ t[Len(b) + p] = seqs[i][p] /\ Len(b) + p # x
        BY <3>3, <4>1, <2>6 DEF s
      <4> QED BY <4>2, <4>3
    <3>4. CASE i = k + 1 /\ j = k + 1
      <4>1. p \in DOMAIN s /\ q \in DOMAIN s /\ p # q
        BY <3>4 DEF s
      <4>2. Len(b) + p # Len(b) + q
        BY <4>1, <2>3
      <4>3. /\ Len(b) + p \in DOMAIN t /\ t[Len(b) + p] = seqs[i][p]
            /\ Len(b) + q \in DOMAIN t /\ t[Len(b) + q] = seqs[j][q]
        BY <3>4, <4>1, <2>6 DEF s
      <4> QED BY <4>2, <4>3
    <3> QED BY <3>1, <3>2, <3>3, <3>4, <2>4
  <2>9. Known(k + 1)
    <3> SUFFICES ASSUME NEW a \in DOMAIN t
                 PROVE  \E i \in 1..(k + 1) : \E p \in DOMAIN seqs[i] : t[a] = seqs[i][p]
      BY DEF t
    <3>1. CASE a \in DOMAIN b
      <4>1. t[a] = b[a]
        BY <3>1, <2>5
      <4>2. PICK i \in 1..k : \E p \in DOMAIN seqs[i] : b[a] = seqs[i][p]
        BY <3>1, <2>2 DEF b
      <4>3. i \in 1..(k + 1)
        BY <2>1
      <4> QED BY <4>1, <4>2, <4>3
    <3>2. CASE a \notin DOMAIN b
      <4>1. a - Len(b) \in DOMAIN s /\ t[a] = s[a - Len(b)]
        BY <3>2, <2>3
      <4>2. k + 1 \in 1..(k + 1)
        BY <2>1
      <4> QED BY <4>1, <4>2 DEF s
    <3> QED BY <3>1, <3>2
  <2> QED BY <2>1, <2>7, <2>8, <2>9 DEF K
<1>5. n \in K
  <2> HIDE DEF K
  <2>1. \A k \in 0..n : k \in K
    BY <1>2, <1>3, <1>4, ByIndex
  <2> QED BY <1>2, <2>1
<1>6. Held(n) /\ Apart(n) /\ Known(n)
  BY <1>5
<1>7. FlattenSeq(seqs) \in Seq(S)
  BY <1>1, <1>2
<1>8. B[n] = FlattenSeq(seqs) /\ DOMAIN seqs = 1..n
  BY <1>1, <1>2
<1> HIDE DEF n, K
<1>9. \A i \in DOMAIN seqs : \A p \in DOMAIN seqs[i] :
         \E a \in DOMAIN FlattenSeq(seqs) : FlattenSeq(seqs)[a] = seqs[i][p]
  BY <1>6, <1>8
<1>10. \A i, j \in DOMAIN seqs : \A p \in DOMAIN seqs[i], q \in DOMAIN seqs[j] :
         i # j \/ p # q =>
             \E a, b \in DOMAIN FlattenSeq(seqs) :
                a # b /\ FlattenSeq(seqs)[a] = seqs[i][p] /\ FlattenSeq(seqs)[b] = seqs[j][q]
  BY <1>6, <1>8
<1>11. \A a \in DOMAIN FlattenSeq(seqs) :
         \E i \in DOMAIN seqs : \E p \in DOMAIN seqs[i] : FlattenSeq(seqs)[a] = seqs[i][p]
  BY <1>6, <1>8
<1> QED BY <1>7, <1>9, <1>10, <1>11

-----------------------------------------------------------------------------
(* The first rule that ends a connection, in rules that are put together. *)

Kinds == {"health", "exit", "tls", "phone"}
Actions == {"sniff", "route", "reject"}
Listening == [kind : Kinds, id : Int]
RuleEntries == [tags : SUBSET Listening, hosts : SUBSET Anything,
                action : Actions, outbound : Int \cup {Nothing}]

\* These rules end the connection, by this one.
Decides(list, conn, rule) ==
    \E i \in Finals(list, conn) : list[i] = rule /\ \A j \in Finals(list, conn) : i <= j

Mentions(list, tag) == \E i \in DOMAIN list : tag \in list[i].tags

\* What comes later does not change it.
LEMMA DecidesBefore ==
    ASSUME NEW a \in Seq(RuleEntries), NEW b \in Seq(RuleEntries), NEW conn, NEW rule,
           Decides(a, conn, rule)
    PROVE  Decides(a \o b, conn, rule)
<1> DEFINE t == a \o b
<1>1. /\ t \in Seq(RuleEntries) /\ Len(t) = Len(a) + Len(b) /\ Len(a) \in Nat /\ Len(b) \in Nat
      /\ DOMAIN t = 1..Len(t) /\ DOMAIN a = 1..Len(a)
      /\ \A i \in 1..Len(a) : t[i] = a[i]
  BY Joined
<1> HIDE DEF t
<1>2. ASSUME NEW i \in 1..Len(a) PROVE Applies(t, conn, i) <=> Applies(a, conn, i)
  <2>1. \A j \in 1..(i - 1) : j \in 1..Len(a)
    BY <1>1
  <2>2. t[i] = a[i] /\ \A j \in 1..(i - 1) : t[j] = a[j]
    BY <2>1, <1>1
  <2> QED BY <2>2 DEF Applies
<1>3. \A i \in 1..Len(a) : i \in Finals(t, conn) <=> i \in Finals(a, conn)
  <2>1. \A i \in 1..Len(a) : i \in DOMAIN t /\ i \in DOMAIN a
    BY <1>1
  <2> QED BY <1>1, <1>2, <2>1 DEF Finals
<1>4. PICK i \in Finals(a, conn) : a[i] = rule /\ \A j \in Finals(a, conn) : i <= j
  BY DEF Decides
<1>5. i \in 1..Len(a) /\ i \in Finals(t, conn) /\ t[i] = rule
  <2>1. i \in 1..Len(a)
    BY <1>1, <1>4 DEF Finals
  <2> QED BY <2>1, <1>1, <1>3, <1>4
<1>6. ASSUME NEW j \in Finals(t, conn) PROVE i <= j
  <2>1. j \in 1..Len(t)
    BY <1>1 DEF Finals
  <2>2. CASE j \in 1..Len(a)
    BY <2>2, <1>3, <1>4
  <2>3. CASE j \notin 1..Len(a)
    BY <2>1, <2>3, <1>1, <1>5
  <2> QED BY <2>2, <2>3
<1> QED BY <1>5, <1>6 DEF Decides, t

\* What comes earlier does not either, unless it speaks of the listener.
LEMMA DecidesAfter ==
    ASSUME NEW a \in Seq(RuleEntries), NEW b \in Seq(RuleEntries), NEW conn, NEW rule,
           Decides(b, conn, rule), ~Mentions(a, conn.tag)
    PROVE  Decides(a \o b, conn, rule)
<1> DEFINE t == a \o b
           m == Len(a)
<1>1. /\ t \in Seq(RuleEntries) /\ Len(t) = m + Len(b) /\ m \in Nat /\ Len(b) \in Nat
      /\ DOMAIN t = 1..Len(t) /\ DOMAIN a = 1..m /\ DOMAIN b = 1..Len(b)
      /\ \A i \in 1..m : t[i] = a[i]
      /\ \A i \in 1..Len(b) : t[m + i] = b[i]
  BY Joined
<1> HIDE DEF t, m
<1>2. \A i \in 1..m : conn.tag \notin t[i].tags
  BY <1>1 DEF Mentions
<1>3. ASSUME NEW i \in 1..Len(b) PROVE Applies(t, conn, m + i) <=> Applies(b, conn, i)
  <2> DEFINE Sniffed(list, j) == list[j].action = "sniff" /\ conn.tag \in list[j].tags
  <2>1. \A j \in 1..(i - 1) : m + j \in 1..((m + i) - 1) /\ t[m + j] = b[j]
    BY <1>1
  <2>2. \A j \in 1..((m + i) - 1) : j \notin 1..m => j - m \in 1..(i - 1) /\ t[j] = b[j - m]
    <3> SUFFICES ASSUME NEW j \in 1..((m + i) - 1), j \notin 1..m
                 PROVE  j - m \in 1..(i - 1) /\ t[j] = b[j - m]
      OBVIOUS
    <3>1. j - m \in 1..(i - 1) /\ j - m \in 1..Len(b) /\ m + (j - m) = j
      BY <1>1
    <3>2. t[m + (j - m)] = b[j - m]
      BY <1>1, <3>1
    <3> QED BY <3>1, <3>2
  <2>3. (\E j \in 1..((m + i) - 1) : Sniffed(t, j)) <=> \E j \in 1..(i - 1) : Sniffed(b, j)
    <3>1. ASSUME NEW j \in 1..((m + i) - 1), Sniffed(t, j) PROVE \E k \in 1..(i - 1) : Sniffed(b, k)
      <4>1. j \notin 1..m
        BY <3>1, <1>2
      <4> QED BY <3>1, <4>1, <2>2
    <3>2. ASSUME NEW j \in 1..(i - 1), Sniffed(b, j) PROVE \E k \in 1..((m + i) - 1) : Sniffed(t, k)
      BY <3>2, <2>1
    <3> QED BY <3>1, <3>2
  <2>4. t[m + i] = b[i]
    BY <1>1
  <2> DEFINE Says(r, met) == /\ conn.tag \in r.tags
                             /\ \/ r.hosts = Anything
                                \/ conn.host \in r.hosts /\ (conn.named \/ met)
  <2>5. ASSUME NEW list, NEW k
        PROVE  Applies(list, conn, k) <=> Says(list[k], \E j \in 1..(k - 1) : Sniffed(list, j))
    BY Zenon DEF Applies
  <2> HIDE DEF Sniffed
  <2>6. Applies(b, conn, i) <=> Says(b[i], \E j \in 1..(i - 1) : Sniffed(b, j))
    BY <2>5
  <2>7. Applies(t, conn, m + i) <=> Says(t[m + i], \E j \in 1..((m + i) - 1) : Sniffed(t, j))
    BY <2>5
  <2> HIDE DEF Says
  <2> QED BY <2>3, <2>4, <2>6, <2>7
<1>4. ASSUME NEW i \in 1..Len(b) PROVE m + i \in Finals(t, conn) <=> i \in Finals(b, conn)
  <2>1. m + i \in DOMAIN t /\ i \in DOMAIN b /\ t[m + i] = b[i]
    BY <1>1
  <2> QED BY <1>3, <2>1 DEF Finals
<1>5. PICK i \in Finals(b, conn) : b[i] = rule /\ \A j \in Finals(b, conn) : i <= j
  BY DEF Decides
<1>6. i \in 1..Len(b) /\ m + i \in Finals(t, conn) /\ t[m + i] = rule
  <2>1. i \in 1..Len(b)
    BY <1>1, <1>5 DEF Finals
  <2> QED BY <2>1, <1>1, <1>4, <1>5
<1>7. ASSUME NEW j \in Finals(t, conn) PROVE m + i <= j
  <2>1. j \in 1..Len(t) /\ conn.tag \in t[j].tags
    BY <1>1 DEF Finals, Applies
  <2>2. j \notin 1..m
    BY <2>1, <1>2
  <2>3. j - m \in 1..Len(b) /\ m + (j - m) = j
    BY <2>1, <2>2, <1>1
  <2>4. j - m \in Finals(b, conn)
    BY <2>3, <1>4
  <2>5. i <= j - m
    BY <2>4, <1>5
  <2> QED BY <2>1, <2>3, <2>5, <1>1, <1>6
<1> QED BY <1>6, <1>7 DEF Decides, t

\* Two lists speak of what either speaks of.
LEMMA MentionsJoined ==
    ASSUME NEW a \in Seq(RuleEntries), NEW b \in Seq(RuleEntries), NEW tag
    PROVE  Mentions(a \o b, tag) => Mentions(a, tag) \/ Mentions(b, tag)
<1> DEFINE t == a \o b
<1>1. /\ DOMAIN t = 1..Len(t) /\ DOMAIN a = 1..Len(a) /\ DOMAIN b = 1..Len(b)
      /\ \A i \in 1..Len(a) : t[i] = a[i]
      /\ \A i \in 1..Len(t) : i \notin 1..Len(a) => i - Len(a) \in 1..Len(b) /\ t[i] = b[i - Len(a)]
  BY Joined
<1> HIDE DEF t
<1> SUFFICES Mentions(t, tag) => Mentions(a, tag) \/ Mentions(b, tag)
  BY DEF t
<1> QED BY <1>1 DEF Mentions

\* So the first of several lists that speaks of the listener decides for all.
LEMMA DecidesAmong ==
    ASSUME NEW lists \in Seq(Seq(RuleEntries)), NEW conn, NEW rule, NEW m \in DOMAIN lists,
           Decides(lists[m], conn, rule),
           \A i \in DOMAIN lists : i < m => ~Mentions(lists[i], conn.tag)
    PROVE  Decides(FlattenSeq(lists), conn, rule)
<1> DEFINE n == Len(lists)
<1>1. PICK B \in [0..n -> Seq(RuleEntries)] :
         /\ B[0] = <<>> /\ B[n] = FlattenSeq(lists)
         /\ \A k \in 0..(n - 1) : B[k + 1] = B[k] \o lists[k + 1]
  BY Flattened
<1>2. n \in Nat /\ DOMAIN lists = 1..n /\ m \in 1..n /\ \A i \in 1..n : lists[i] \in Seq(RuleEntries)
  OBVIOUS
<1> HIDE DEF n
<1> DEFINE K == {k \in 0..n : /\ k < m => ~Mentions(B[k], conn.tag)
                              /\ k >= m => Decides(B[k], conn, rule)}
<1>3. 0 \in K
  <2>1. DOMAIN B[0] = {}
    <3>1. \A x : x = <<>> => DOMAIN x = {}
      OBVIOUS
    <3> QED BY <1>1, <3>1
  <2>2. ~Mentions(B[0], conn.tag)
    BY <2>1 DEF Mentions
  <2> QED BY <1>2, <2>2
<1>4. ASSUME NEW k \in 0..(n - 1), k \in K PROVE k + 1 \in K
  <2>1. k \in Int /\ k \in 0..n /\ k + 1 \in 0..n /\ k + 1 \in 1..n
    BY <1>2
  <2>2. B[k] \in Seq(RuleEntries) /\ lists[k + 1] \in Seq(RuleEntries) /\ B[k + 1] = B[k] \o lists[k + 1]
    BY <1>1, <1>2, <2>1
  <2>3. CASE k + 1 < m
    <3>1. k < m /\ k + 1 \in DOMAIN lists
      BY <1>2, <2>1, <2>3
    <3>2. ~Mentions(B[k], conn.tag)
      BY <1>4, <3>1
    <3>3. ~Mentions(lists[k + 1], conn.tag)
      BY <2>3, <3>1
    <3>4. ~Mentions(B[k + 1], conn.tag)
      BY <2>2, <3>2, <3>3, MentionsJoined
    <3> QED BY <1>2, <2>1, <2>3, <3>4
  <2>4. CASE k + 1 = m
    <3>1. ~Mentions(B[k], conn.tag) /\ Decides(lists[k + 1], conn, rule)
      BY <1>2, <1>4, <2>1, <2>4
    <3>2. Decides(B[k + 1], conn, rule)
      BY <2>2, <3>1, DecidesAfter
    <3> QED BY <1>2, <2>1, <2>4, <3>2
  <2>5. CASE k + 1 > m
    <3>1. Decides(B[k], conn, rule)
      BY <1>2, <1>4, <2>1, <2>5
    <3>2. Decides(B[k + 1], conn, rule)
      BY <2>2, <3>1, DecidesBefore
    <3> QED BY <1>2, <2>1, <2>5, <3>2
  <2> QED BY <1>2, <2>1, <2>3, <2>4, <2>5
<1>5. n \in K
  <2> HIDE DEF K
  <2>1. \A k \in 0..n : k \in K
    BY <1>2, <1>3, <1>4, ByIndex
  <2> QED BY <1>2, <2>1
<1> QED BY <1>1, <1>2, <1>5

\* A listener that no list speaks of is not spoken of by all of them.
LEMMA MentionsAmong ==
    ASSUME NEW lists \in Seq(Seq(RuleEntries)), NEW tag, Mentions(FlattenSeq(lists), tag)
    PROVE  \E i \in DOMAIN lists : Mentions(lists[i], tag)
BY FlattenPlaces DEF Mentions

-----------------------------------------------------------------------------
(* What validate() establishes: every name stands for one thing. *)

\* Entries with distinct identifiers: the identifier tells the place.
LEMMA Distinct ==
    ASSUME NEW S, NEW list \in Seq(S), NoRepeats(list), NEW i \in DOMAIN list, NEW j \in DOMAIN list,
           list[i].id = list[j].id
    PROVE  i = j
<1> DEFINE f == [k \in DOMAIN list |-> list[k].id]
<1>1. Len(list) \in Nat /\ DOMAIN list = 1..Len(list)
  OBVIOUS
<1>2. IsFiniteSet(DOMAIN list) /\ Cardinality(DOMAIN list) = Len(list)
  <2>1. IsFiniteSet(1..Len(list)) /\ Cardinality(1..Len(list)) = IF 1 > Len(list) THEN 0 ELSE Len(list) - 1 + 1
    BY <1>1, FS_Interval
  <2> QED BY <1>1, <2>1
<1>3. f \in Surjection(DOMAIN list, Ids(list))
  BY DEF Surjection, Ids
<1>4. f \in Injection(DOMAIN list, Ids(list))
  BY <1>2, <1>3, FS_SurjSameCardinalityImpliesInj, Zenon DEF NoRepeats
<1>5. f[i] = f[j]
  OBVIOUS
<1> HIDE DEF f
<1> QED BY <1>4, <1>5 DEF Injection, IsInjective

\* The clients of a list, group by group.
ClientLists(list) == [i \in DOMAIN list |-> list[i].clients]

\* What ClientsIn flattens.
LEMMA ClientsOfAll ==
    ASSUME NEW list \in Seq(GroupEntries)
    PROVE  /\ ClientLists(list) \in Seq(Seq(ClientEntries))
           /\ ClientsIn(list) = FlattenSeq(ClientLists(list))
           /\ ClientsIn(list) \in Seq(ClientEntries)
           /\ \A i \in DOMAIN list : ClientLists(list)[i] = list[i].clients
           /\ DOMAIN ClientLists(list) = DOMAIN list
<1>1. \A i \in DOMAIN list : list[i].clients \in Seq(ClientEntries)
  <2> TAKE i \in DOMAIN list
  <2>1. list[i] \in GroupEntries
    OBVIOUS
  <2> QED BY <2>1 DEF GroupEntries
<1>2. ClientLists(list) \in Seq(Seq(ClientEntries))
  BY <1>1 DEF ClientLists
<1>3. ClientsIn(list) = FlattenSeq(ClientLists(list))
  BY DEF ClientsIn, ClientLists
<1>4. ClientsIn(list) \in Seq(ClientEntries)
  BY <1>2, <1>3, FlattenPlaces
<1> QED BY <1>2, <1>3, <1>4 DEF ClientLists

\* Two places of clients have two identifiers.
LEMMA ClientsDistinct ==
    ASSUME NEW list \in Seq(GroupEntries), Valid(list),
           NEW i \in DOMAIN list, NEW j \in DOMAIN list,
           NEW p \in DOMAIN list[i].clients, NEW q \in DOMAIN list[j].clients,
           list[i].clients[p].id = list[j].clients[q].id
    PROVE  i = j /\ p = q
<1> DEFINE all == ClientsIn(list)
<1>1. SUFFICES ASSUME i # j \/ p # q PROVE FALSE
  OBVIOUS
<1>2. PICK a, b \in DOMAIN all : a # b /\ all[a] = list[i].clients[p] /\ all[b] = list[j].clients[q]
  <2> DEFINE lists == ClientLists(list)
  <2>1. /\ lists \in Seq(Seq(ClientEntries)) /\ all = FlattenSeq(lists)
        /\ i \in DOMAIN lists /\ j \in DOMAIN lists
        /\ lists[i] = list[i].clients /\ lists[j] = list[j].clients
    BY ClientsOfAll
  <2> HIDE DEF lists, all
  <2>2. p \in DOMAIN lists[i] /\ q \in DOMAIN lists[j]
    BY <2>1
  <2>3. \E a, b \in DOMAIN FlattenSeq(lists) :
           a # b /\ FlattenSeq(lists)[a] = lists[i][p] /\ FlattenSeq(lists)[b] = lists[j][q]
    <3>1. \A x, y \in DOMAIN lists : \A u \in DOMAIN lists[x], v \in DOMAIN lists[y] :
             x # y \/ u # v =>
                 \E a, b \in DOMAIN FlattenSeq(lists) :
                    a # b /\ FlattenSeq(lists)[a] = lists[x][u] /\ FlattenSeq(lists)[b] = lists[y][v]
      BY <2>1, FlattenPlaces
    <3> QED BY <1>1, <2>1, <2>2, <3>1
  <2> QED BY <2>1, <2>3
<1>3. all \in Seq(ClientEntries) /\ NoRepeats(all)
  BY ClientsOfAll DEF Valid
<1> HIDE DEF all
<1> QED BY <1>2, <1>3, Distinct

\* A group or client of the list has an identifier that validate() allows.
LEMMA Entries ==
    ASSUME NEW list \in Seq(GroupEntries), Valid(list), NEW i \in DOMAIN list
    PROVE  /\ list[i] \in GroupEntries /\ list[i].id \in Identifiers
           /\ \A p \in DOMAIN list[i].clients :
                 /\ list[i].clients[p] \in ClientEntries
                 /\ list[i].clients[p].id \in Identifiers
                 /\ list[i].clients[p].ai # Nothing =>
                       \E j \in DOMAIN list : list[j].id = list[i].clients[p].ai
<1>1. list[i] \in GroupEntries /\ GroupOK(list[i])
  BY DEF Valid
<1>2. list[i].id \in Identifiers
  BY <1>1 DEF GroupOK
<1>3. ASSUME NEW p \in DOMAIN list[i].clients
      PROVE  /\ list[i].clients[p] \in ClientEntries
             /\ list[i].clients[p].id \in Identifiers
             /\ list[i].clients[p].ai # Nothing =>
                   \E j \in DOMAIN list : list[j].id = list[i].clients[p].ai
  <2>1. list[i].clients[p] \in ClientEntries
    BY <1>1 DEF GroupEntries
  <2>2. list[i].clients[p].id \in Identifiers
    BY <1>1 DEF GroupOK, ClientOK
  <2>3. PICK a \in DOMAIN ClientsIn(list) : ClientsIn(list)[a] = list[i].clients[p]
    BY ClientsOfAll, FlattenPlaces
  <2>4. list[i].clients[p].ai \in Ids(list) \cup {Nothing}
    BY <2>3 DEF Valid
  <2> QED BY <2>1, <2>2, <2>4 DEF Ids
<1> QED BY <1>1, <1>2, <1>3

\* The listeners: the health listener, one of each exit and two of each client.
GroupTags(g) == {Tag("exit", g.id)} \cup UNION {ClientTags(c) : c \in ToSet(g.clients)}

\* The listeners are Health and those of the groups.
LEMMA Listeners ==
    ASSUME NEW list \in Seq(GroupEntries), NEW tag
    PROVE  tag \in Inbounds(list) <=>
              \/ tag = Health
              \/ \E i \in DOMAIN list : tag \in GroupTags(list[i])
<1> DEFINE exits == {Tag("exit", list[i].id) : i \in DOMAIN list}
           others == UNION {ClientTags(ClientsIn(list)[a]) : a \in DOMAIN ClientsIn(list)}
<1>0. tag \in Inbounds(list) <=>
         \/ tag = Health
         \/ \E i \in DOMAIN list : tag = Tag("exit", list[i].id)
         \/ \E a \in DOMAIN ClientsIn(list) : tag \in ClientTags(ClientsIn(list)[a])
  <2>1. Inbounds(list) = {Health} \cup exits \cup others
    BY DEF Inbounds
  <2>2. tag \in exits <=> \E i \in DOMAIN list : tag = Tag("exit", list[i].id)
    OBVIOUS
  <2>3. tag \in others <=> \E a \in DOMAIN ClientsIn(list) : tag \in ClientTags(ClientsIn(list)[a])
    OBVIOUS
  <2> HIDE DEF exits, others
  <2> QED BY <2>1, <2>2, <2>3
<1>1. ASSUME NEW i \in DOMAIN list, NEW p \in DOMAIN list[i].clients
      PROVE  \E a \in DOMAIN ClientsIn(list) : ClientsIn(list)[a] = list[i].clients[p]
  <2>1. ClientLists(list)[i] = list[i].clients /\ i \in DOMAIN ClientLists(list)
    BY ClientsOfAll
  <2> QED BY <2>1, ClientsOfAll, FlattenPlaces
<1>2. ASSUME NEW a \in DOMAIN ClientsIn(list)
      PROVE  \E i \in DOMAIN list : \E p \in DOMAIN list[i].clients :
                ClientsIn(list)[a] = list[i].clients[p]
  <2> DEFINE lists == ClientLists(list)
  <2>1. /\ lists \in Seq(Seq(ClientEntries)) /\ ClientsIn(list) = FlattenSeq(lists)
        /\ DOMAIN lists = DOMAIN list /\ \A i \in DOMAIN list : lists[i] = list[i].clients
    BY ClientsOfAll
  <2> HIDE DEF lists
  <2>2. \E i \in DOMAIN lists : \E p \in DOMAIN lists[i] : FlattenSeq(lists)[a] = lists[i][p]
    BY <2>1, FlattenPlaces
  <2> QED BY <2>1, <2>2
<1>3. ASSUME tag \in Inbounds(list), tag # Health
      PROVE  \E i \in DOMAIN list : tag \in GroupTags(list[i])
  <2>1. CASE \E i \in DOMAIN list : tag = Tag("exit", list[i].id)
    BY <2>1 DEF GroupTags
  <2>2. CASE \E a \in DOMAIN ClientsIn(list) : tag \in ClientTags(ClientsIn(list)[a])
    <3>1. PICK a \in DOMAIN ClientsIn(list) : tag \in ClientTags(ClientsIn(list)[a])
      BY <2>2
    <3>2. PICK i \in DOMAIN list : \E p \in DOMAIN list[i].clients :
             ClientsIn(list)[a] = list[i].clients[p]
      BY <1>2
    <3>3. PICK c \in ToSet(list[i].clients) : tag \in ClientTags(c)
      BY <3>1, <3>2 DEF ToSet
    <3> QED BY <3>3 DEF GroupTags
  <2>3. \/ \E i \in DOMAIN list : tag = Tag("exit", list[i].id)
        \/ \E a \in DOMAIN ClientsIn(list) : tag \in ClientTags(ClientsIn(list)[a])
    BY <1>3, <1>0
  <2> QED BY <2>1, <2>2, <2>3
<1>4. ASSUME NEW i \in DOMAIN list, tag \in GroupTags(list[i]) PROVE tag \in Inbounds(list)
  <2>1. CASE tag = Tag("exit", list[i].id)
    BY <2>1, <1>0
  <2>2. CASE \E c \in ToSet(list[i].clients) : tag \in ClientTags(c)
    <3>1. PICK p \in DOMAIN list[i].clients : tag \in ClientTags(list[i].clients[p])
      BY <2>2 DEF ToSet
    <3>2. PICK a \in DOMAIN ClientsIn(list) : ClientsIn(list)[a] = list[i].clients[p]
      BY <1>1
    <3>3. tag \in ClientTags(ClientsIn(list)[a])
      BY <3>1, <3>2
    <3> QED BY <3>3, <1>0
  <2> QED BY <1>4, <2>1, <2>2 DEF GroupTags
<1>5. Health \in Inbounds(list)
  BY DEF Inbounds
<1> QED BY <1>3, <1>4, <1>5

\* A listener is of one group.
LEMMA OneHome ==
    ASSUME NEW list \in Seq(GroupEntries), Valid(list),
           NEW i \in DOMAIN list, NEW j \in DOMAIN list, NEW tag,
           tag \in GroupTags(list[i]), tag \in GroupTags(list[j])
    PROVE  i = j
<1>1. CASE tag.kind = "exit"
  <2>1. tag = Tag("exit", list[i].id) /\ tag = Tag("exit", list[j].id)
    BY <1>1 DEF GroupTags, ClientTags, Tag
  <2>2. list[i].id = list[j].id
    BY <2>1 DEF Tag
  <2> QED BY <2>2, Distinct DEF Valid
<1>2. CASE tag.kind # "exit"
  <2>1. PICK p \in DOMAIN list[i].clients : tag \in ClientTags(list[i].clients[p])
    BY <1>2 DEF GroupTags, Tag, ToSet
  <2>2. PICK q \in DOMAIN list[j].clients : tag \in ClientTags(list[j].clients[q])
    BY <1>2 DEF GroupTags, Tag, ToSet
  <2>3. list[i].clients[p].id = list[j].clients[q].id
    BY <2>1, <2>2 DEF ClientTags, Tag
  <2> QED BY <2>3, ClientsDistinct
<1> QED BY <1>1, <1>2

\* The same for the clients of a group.
LEMMA OneClient ==
    ASSUME NEW list \in Seq(GroupEntries), Valid(list), NEW i \in DOMAIN list, NEW tag,
           NEW p \in DOMAIN list[i].clients, NEW q \in DOMAIN list[i].clients,
           tag \in ClientTags(list[i].clients[p]), tag \in ClientTags(list[i].clients[q])
    PROVE  p = q
<1>1. list[i].clients[p].id = list[i].clients[q].id
  BY DEF ClientTags, Tag
<1> QED BY <1>1, ClientsDistinct

-----------------------------------------------------------------------------
(* What the rules of one client, of one group and of all groups decide. *)

\* The names of AI providers are hosts, and an address without a name is none of them.
LEMMA Hosted == ASSUME NEW c \in ClientEntries PROVE AiHosts(c) \subseteq Hosts /\ AiHosts(c) # Anything
<1>1. c.providers \subseteq Providers
  BY DEF ClientEntries
<1>2. AiHosts(c) \subseteq Hosts
  BY <1>1, RenderingOK DEF AiHosts
<1>3. Nothing \in Anything /\ Nothing \notin Hosts
  BY RenderingOK DEF Anything
<1> QED BY <1>2, <1>3

\* Every listener that render() names is a kind and a number.
LEMMA TagsTyped ==
    ASSUME NEW id \in Int
    PROVE  /\ Tag("exit", id) \in Listening
           /\ Tag("phone", id) \in Listening
           /\ Tag("tls", id) \in Listening
           /\ Health \in Listening
<1>1. \A k \in Kinds, n \in Int : Tag(k, n) \in Listening
  BY DEF Tag, Listening
<1>2. "exit" \in Kinds /\ "phone" \in Kinds /\ "tls" \in Kinds /\ "health" \in Kinds /\ 0 \in Int
  BY DEF Kinds
<1> HIDE DEF Tag
<1> QED BY <1>1, <1>2, Zenon DEF Health

\* Every rule that render() writes is a rule.
LEMMA RulesTyped ==
    ASSUME NEW tags \in SUBSET Listening, NEW hosts \in SUBSET Anything
    PROVE  /\ \A id \in Int : RouteTo(tags, hosts, id) \in RuleEntries
           /\ Act(tags, hosts, "sniff") \in RuleEntries /\ Act(tags, hosts, "reject") \in RuleEntries
<1>1. ASSUME NEW action \in Actions, NEW out \in Int \cup {Nothing}
      PROVE  [tags |-> tags, hosts |-> hosts, action |-> action, outbound |-> out] \in RuleEntries
  BY DEF RuleEntries
<1>2. "sniff" \in Actions /\ "reject" \in Actions /\ "route" \in Actions
  BY DEF Actions
<1> HIDE DEF RuleEntries
<1> QED BY <1>1, <1>2, Zenon DEF RouteTo, Act

\* One rule for every destination.
LEMMA LastDecides ==
    ASSUME NEW rule \in RuleEntries, NEW conn,
           conn.tag \in rule.tags, rule.hosts = Anything, rule.action # "sniff"
    PROVE  Decides(<<rule>>, conn, rule)
<1>1. DOMAIN <<rule>> = {1} /\ <<rule>>[1] = rule
  OBVIOUS
<1>2. Finals(<<rule>>, conn) = {1}
  BY <1>1 DEF Finals, Applies
<1> QED BY <1>1, <1>2 DEF Decides

\* What a single rule speaks of.
LEMMA OneMentions == ASSUME NEW rule, NEW tag PROVE Mentions(<<rule>>, tag) <=> tag \in rule.tags
<1>1. DOMAIN <<rule>> = {1} /\ <<rule>>[1] = rule
  OBVIOUS
<1> QED BY <1>1 DEF Mentions

\* The rule for the names of an AI exit.
AiRule(list, c) ==
    IF c.ai \in DOMAIN Outbounds(list)
    THEN RouteTo(ClientTags(c), AiHosts(c), c.ai)
    ELSE Act(ClientTags(c), AiHosts(c), "reject")

\* The three rules of a client with an AI exit.
LEMMA AiRulesAre ==
    ASSUME NEW list, NEW g \in GroupEntries, NEW c \in ClientEntries, c.ai # Nothing
    PROVE  /\ AiRules(list, g, c) = <<Act(ClientTags(c), Anything, "sniff"), AiRule(list, c),
                                      RouteTo(ClientTags(c), Anything, g.id)>>
           /\ AiRules(list, g, c) \in Seq(RuleEntries)
           /\ Len(AiRules(list, g, c)) = 3
           /\ AiRule(list, c).tags = ClientTags(c) /\ AiRule(list, c).hosts = AiHosts(c)
           /\ AiRule(list, c).action # "sniff"
<1>1. AiRules(list, g, c) = <<Act(ClientTags(c), Anything, "sniff"), AiRule(list, c),
                              RouteTo(ClientTags(c), Anything, g.id)>>
  BY DEF AiRules, AiRule
<1>2. g.id \in Int /\ c.id \in Int /\ c.ai \in Int
  BY DEF GroupEntries, ClientEntries
<1>3. ClientTags(c) \in SUBSET Listening
  BY <1>2, TagsTyped DEF ClientTags
<1>4. AiHosts(c) \in SUBSET Anything /\ Anything \in SUBSET Anything
  BY Hosted DEF Anything
<1>5. AiRule(list, c) \in RuleEntries
  BY <1>2, <1>3, <1>4, RulesTyped DEF AiRule
<1>6. /\ Act(ClientTags(c), Anything, "sniff") \in RuleEntries
      /\ RouteTo(ClientTags(c), Anything, g.id) \in RuleEntries
  BY <1>2, <1>3, <1>4, RulesTyped
<1>7. /\ AiRule(list, c).tags = ClientTags(c) /\ AiRule(list, c).hosts = AiHosts(c)
      /\ AiRule(list, c).action # "sniff"
  BY DEF AiRule, RouteTo, Act
<1>8. AiRules(list, g, c) \in Seq(RuleEntries) /\ Len(AiRules(list, g, c)) = 3
  BY <1>1, <1>5, <1>6
<1> QED BY <1>1, <1>7, <1>8

\* Its own names first, whether or not the client said them, and the rest by its own exit.
LEMMA AiRulesDecide ==
    ASSUME NEW list, NEW g \in GroupEntries, NEW c \in ClientEntries, c.ai # Nothing,
           NEW conn, conn.tag \in ClientTags(c)
    PROVE  Decides(AiRules(list, g, c), conn,
                   IF conn.host \in AiHosts(c) THEN AiRule(list, c)
                   ELSE RouteTo(ClientTags(c), Anything, g.id))
<1> DEFINE s == AiRules(list, g, c)
           r == RouteTo(ClientTags(c), Anything, g.id)
           m == AiRule(list, c)
<1>1. /\ DOMAIN s = 1..3
      /\ s[1] = Act(ClientTags(c), Anything, "sniff") /\ s[2] = m /\ s[3] = r
  BY AiRulesAre
<1>2. /\ s[1].tags = ClientTags(c) /\ s[1].action = "sniff"
      /\ s[2].tags = ClientTags(c) /\ s[2].hosts = AiHosts(c) /\ s[2].action # "sniff"
      /\ s[3].tags = ClientTags(c) /\ s[3].hosts = Anything /\ s[3].action # "sniff"
  BY <1>1, AiRulesAre DEF RouteTo, Act
<1>3. AiHosts(c) # Anything
  BY Hosted
<1> HIDE DEF s, m, r
<1>4. 1 \notin Finals(s, conn)
  BY <1>2 DEF Finals
<1>5. Applies(s, conn, 3) /\ 3 \in Finals(s, conn)
  BY <1>1, <1>2 DEF Finals, Applies
<1>6. Applies(s, conn, 2) <=> conn.host \in AiHosts(c)
  <2>1. 1 \in 1..(2 - 1)
    OBVIOUS
  <2>2. \E j \in 1..(2 - 1) : s[j].action = "sniff" /\ conn.tag \in s[j].tags
    BY <2>1, <1>2
  <2> QED BY <2>2, <1>2, <1>3 DEF Applies
<1>7. 2 \in Finals(s, conn) <=> conn.host \in AiHosts(c)
  BY <1>1, <1>2, <1>6 DEF Finals
<1>8. Finals(s, conn) \subseteq {1, 2, 3}
  BY <1>1 DEF Finals
<1>9. CASE conn.host \in AiHosts(c)
  <2>1. 2 \in Finals(s, conn) /\ \A j \in Finals(s, conn) : 2 <= j
    BY <1>4, <1>7, <1>8, <1>9
  <2>2. Decides(s, conn, m)
    BY <2>1, <1>1 DEF Decides
  <2> QED BY <2>2, <1>9 DEF s, m
<1>10. CASE conn.host \notin AiHosts(c)
  <2>1. 3 \in Finals(s, conn) /\ \A j \in Finals(s, conn) : 3 <= j
    BY <1>4, <1>5, <1>7, <1>8, <1>10
  <2>2. Decides(s, conn, r)
    BY <2>1, <1>1 DEF Decides
  <2> QED BY <2>2, <1>10 DEF s, r
<1> QED BY <1>9, <1>10

\* They speak of that client only.
LEMMA AiRulesMention ==
    ASSUME NEW list, NEW g \in GroupEntries, NEW c \in ClientEntries, c.ai # Nothing, NEW tag,
           Mentions(AiRules(list, g, c), tag)
    PROVE  tag \in ClientTags(c)
<1> DEFINE s == AiRules(list, g, c)
<1>1. /\ DOMAIN s = 1..3
      /\ s[1].tags = ClientTags(c) /\ s[2].tags = ClientTags(c) /\ s[3].tags = ClientTags(c)
  BY AiRulesAre DEF RouteTo, Act
<1> HIDE DEF s
<1>2. Mentions(s, tag)
  BY DEF s
<1> QED BY <1>1, <1>2 DEF Mentions

\* The rules of the clients of a group that have an AI exit.
Own(list, g, c) == IF c.ai = Nothing THEN <<>> ELSE AiRules(list, g, c)
Owns(list, g) == [p \in DOMAIN g.clients |-> Own(list, g, g.clients[p])]

\* The tags of the rule that the others share.
Plain(g) == {Tag("exit", g.id)}
            \cup UNION {ClientTags(c) : c \in {d \in ToSet(g.clients) : d.ai = Nothing}}

\* One list of rules per client, empty for those without an AI exit.
LEMMA OwnsTyped ==
    ASSUME NEW list, NEW g \in GroupEntries
    PROVE  /\ Owns(list, g) \in Seq(Seq(RuleEntries)) /\ DOMAIN Owns(list, g) = DOMAIN g.clients
           /\ \A p \in DOMAIN g.clients : /\ g.clients[p] \in ClientEntries
                                          /\ Owns(list, g)[p] = Own(list, g, g.clients[p])
<1>1. g.clients \in Seq(ClientEntries)
  BY DEF GroupEntries
<1>2. \A p \in DOMAIN g.clients : g.clients[p] \in ClientEntries
  BY <1>1
<1>3. ASSUME NEW c \in ClientEntries PROVE Own(list, g, c) \in Seq(RuleEntries)
  <2>1. CASE c.ai = Nothing
    BY <2>1 DEF Own
  <2>2. CASE c.ai # Nothing
    BY <2>2, AiRulesAre DEF Own
  <2> QED BY <2>1, <2>2
<1>4. Owns(list, g) \in Seq(Seq(RuleEntries))
  BY <1>1, <1>2, <1>3 DEF Owns
<1> QED BY <1>2, <1>4 DEF Owns

\* GroupRules with its parts named.
LEMMA GroupRulesAre ==
    ASSUME NEW list, NEW g \in GroupEntries
    PROVE  /\ GroupRules(list, g) =
                 IF g.enabled
                 THEN FlattenSeq(Owns(list, g)) \o <<RouteTo(Plain(g), Anything, g.id)>>
                 ELSE <<Act(GroupTags(g), Anything, "reject")>>
           /\ FlattenSeq(Owns(list, g)) \in Seq(RuleEntries)
           /\ RouteTo(Plain(g), Anything, g.id) \in RuleEntries
           /\ Act(GroupTags(g), Anything, "reject") \in RuleEntries
           /\ GroupRules(list, g) \in Seq(RuleEntries)
           /\ Plain(g) \subseteq GroupTags(g)
<1> DEFINE all == Plain(g) \cup UNION {ClientTags(c) : c \in ToSet(g.clients)}
<1>1. all = GroupTags(g)
  BY DEF Plain, GroupTags
<1>2. GroupRules(list, g) =
         IF g.enabled
         THEN FlattenSeq(Owns(list, g)) \o <<RouteTo(Plain(g), Anything, g.id)>>
         ELSE <<Act(all, Anything, "reject")>>
  BY Zenon DEF GroupRules, Plain, Owns, Own
<1> HIDE DEF all
<1>3. FlattenSeq(Owns(list, g)) \in Seq(RuleEntries)
  BY OwnsTyped, FlattenPlaces
<1>4. g.id \in Int /\ \A c \in ToSet(g.clients) : c.id \in Int
  <2>1. g.id \in Int /\ g.clients \in Seq(ClientEntries)
    BY DEF GroupEntries
  <2>2. \A c \in ToSet(g.clients) : c \in ClientEntries
    BY <2>1 DEF ToSet
  <2> QED BY <2>1, <2>2 DEF ClientEntries
<1>5. GroupTags(g) \in SUBSET Listening
  BY <1>4, TagsTyped DEF GroupTags, ClientTags
<1>6. Plain(g) \subseteq GroupTags(g)
  BY DEF Plain, GroupTags
<1>7. /\ RouteTo(Plain(g), Anything, g.id) \in RuleEntries
      /\ Act(GroupTags(g), Anything, "reject") \in RuleEntries
  BY <1>4, <1>5, <1>6, RulesTyped
<1>8. GroupRules(list, g) \in Seq(RuleEntries)
  BY <1>1, <1>2, <1>3, <1>7
<1> QED BY <1>1, <1>2, <1>3, <1>6, <1>7, <1>8

\* Only a client with an AI exit has rules, about its own listeners.
LEMMA OwnsMention ==
    ASSUME NEW list, NEW g \in GroupEntries, NEW tag, NEW p \in DOMAIN g.clients,
           Mentions(Owns(list, g)[p], tag)
    PROVE  tag \in ClientTags(g.clients[p]) /\ g.clients[p].ai # Nothing
<1>1. g.clients[p] \in ClientEntries /\ Mentions(Own(list, g, g.clients[p]), tag)
  BY OwnsTyped
<1>2. g.clients[p].ai # Nothing
  BY <1>1 DEF Own, Mentions
<1> QED BY <1>1, <1>2, AiRulesMention DEF Own

\* The rules of a group speak of its own listeners.
LEMMA GroupRulesMention ==
    ASSUME NEW list, NEW g \in GroupEntries, NEW tag, Mentions(GroupRules(list, g), tag)
    PROVE  tag \in GroupTags(g)
<1>1. CASE g.enabled
  <2>1. \/ Mentions(FlattenSeq(Owns(list, g)), tag)
        \/ Mentions(<<RouteTo(Plain(g), Anything, g.id)>>, tag)
    <3>1. <<RouteTo(Plain(g), Anything, g.id)>> \in Seq(RuleEntries)
      <4>1. \A x \in RuleEntries : <<x>> \in Seq(RuleEntries)
        OBVIOUS
      <4> QED BY <4>1, GroupRulesAre
    <3> QED BY <1>1, <3>1, GroupRulesAre, MentionsJoined
  <2>2. CASE Mentions(FlattenSeq(Owns(list, g)), tag)
    <3>1. PICK p \in DOMAIN g.clients : Mentions(Owns(list, g)[p], tag)
      BY <2>2, OwnsTyped, MentionsAmong
    <3>2. tag \in ClientTags(g.clients[p])
      BY <3>1, OwnsMention
    <3> QED BY <3>2 DEF GroupTags, ToSet
  <2>3. CASE Mentions(<<RouteTo(Plain(g), Anything, g.id)>>, tag)
    <3>1. tag \in Plain(g)
      BY <2>3, OneMentions DEF RouteTo
    <3> QED BY <3>1, GroupRulesAre
  <2> QED BY <2>1, <2>2, <2>3
<1>2. CASE ~g.enabled
  <2>1. Mentions(<<Act(GroupTags(g), Anything, "reject")>>, tag)
    BY <1>2, GroupRulesAre
  <2>2. tag \in Act(GroupTags(g), Anything, "reject").tags
    BY <2>1, OneMentions
  <2> QED BY <2>2 DEF Act
<1> QED BY <1>1, <1>2

\* A closed group ends everything of its own; an open one, what has no AI exit by the shared
\* rule, and what has one by the rules of its client.
LEMMA GroupDecides ==
    ASSUME NEW list \in Seq(GroupEntries), Valid(list), NEW i \in DOMAIN list, NEW conn,
           conn.tag \in GroupTags(list[i])
    PROVE  LET g == list[i] IN
           /\ ~g.enabled => Decides(GroupRules(list, g), conn, Act(GroupTags(g), Anything, "reject"))
           /\ g.enabled /\ conn.tag \in Plain(g) =>
                 Decides(GroupRules(list, g), conn, RouteTo(Plain(g), Anything, g.id))
           /\ \A p \in DOMAIN g.clients :
                 g.enabled /\ g.clients[p].ai # Nothing /\ conn.tag \in ClientTags(g.clients[p]) =>
                    Decides(GroupRules(list, g), conn,
                            IF conn.host \in AiHosts(g.clients[p]) THEN AiRule(list, g.clients[p])
                            ELSE RouteTo(ClientTags(g.clients[p]), Anything, g.id))
<1> DEFINE g == list[i]
           own == FlattenSeq(Owns(list, g))
           shared == RouteTo(Plain(g), Anything, g.id)
           closed == Act(GroupTags(g), Anything, "reject")
<1>1. g \in GroupEntries
  OBVIOUS
<1>2. /\ GroupRules(list, g) = IF g.enabled THEN own \o <<shared>> ELSE <<closed>>
      /\ own \in Seq(RuleEntries) /\ shared \in RuleEntries /\ closed \in RuleEntries
  BY <1>1, GroupRulesAre
<1>3. \A x \in RuleEntries : <<x>> \in Seq(RuleEntries)
  OBVIOUS
<1>4. ASSUME ~g.enabled PROVE Decides(GroupRules(list, g), conn, closed)
  <2>1. conn.tag \in closed.tags /\ closed.hosts = Anything /\ closed.action # "sniff"
    BY DEF Act
  <2> HIDE DEF closed
  <2> QED BY <1>2, <1>4, <2>1, LastDecides
<1>5. ASSUME g.enabled, conn.tag \in Plain(g) PROVE Decides(GroupRules(list, g), conn, shared)
  <2>1. conn.tag \in shared.tags /\ shared.hosts = Anything /\ shared.action # "sniff"
    BY <1>5 DEF RouteTo
  <2>2. ~Mentions(own, conn.tag)
    <3>1. SUFFICES ASSUME Mentions(own, conn.tag) PROVE FALSE
      OBVIOUS
    <3>2. PICK q \in DOMAIN g.clients : Mentions(Owns(list, g)[q], conn.tag)
      BY <1>1, <3>1, OwnsTyped, MentionsAmong
    <3>3. conn.tag \in ClientTags(g.clients[q]) /\ g.clients[q].ai # Nothing
      BY <1>1, <3>2, OwnsMention
    <3>4. PICK d \in ToSet(g.clients) : d.ai = Nothing /\ conn.tag \in ClientTags(d)
      BY <1>5, <3>3 DEF Plain, ClientTags, Tag
    <3>5. PICK p \in DOMAIN g.clients : g.clients[p] = d
      BY DEF ToSet
    <3>6. p = q
      BY <3>3, <3>4, <3>5, OneClient
    <3> QED BY <3>3, <3>4, <3>5, <3>6
  <2>3. Decides(<<shared>>, conn, shared)
    <3> HIDE DEF shared
    <3> QED BY <1>2, <2>1, LastDecides
  <2> HIDE DEF shared, own
  <2>4. Decides(own \o <<shared>>, conn, shared)
    BY <1>2, <1>3, <2>2, <2>3, DecidesAfter
  <2> QED BY <1>2, <1>5, <2>4
<1>6. ASSUME NEW p \in DOMAIN g.clients, g.enabled, g.clients[p].ai # Nothing,
             conn.tag \in ClientTags(g.clients[p])
      PROVE  Decides(GroupRules(list, g), conn,
                     IF conn.host \in AiHosts(g.clients[p]) THEN AiRule(list, g.clients[p])
                     ELSE RouteTo(ClientTags(g.clients[p]), Anything, g.id))
  <2> DEFINE rule == IF conn.host \in AiHosts(g.clients[p]) THEN AiRule(list, g.clients[p])
                     ELSE RouteTo(ClientTags(g.clients[p]), Anything, g.id)
             lists == Owns(list, g)
  <2>1. lists \in Seq(Seq(RuleEntries)) /\ DOMAIN lists = DOMAIN g.clients
        /\ g.clients[p] \in ClientEntries /\ lists[p] = AiRules(list, g, g.clients[p])
    BY <1>1, <1>6, OwnsTyped DEF Own
  <2>2. Decides(lists[p], conn, rule)
    BY <1>1, <1>6, <2>1, AiRulesDecide
  <2>3. ASSUME NEW q \in DOMAIN lists, q < p PROVE ~Mentions(lists[q], conn.tag)
    <3>1. SUFFICES ASSUME Mentions(lists[q], conn.tag) PROVE FALSE
      OBVIOUS
    <3>2. q \in DOMAIN g.clients
      BY <2>1
    <3>3. conn.tag \in ClientTags(g.clients[q])
      BY <1>1, <3>1, <3>2, OwnsMention
    <3>4. p = q
      BY <1>6, <3>2, <3>3, OneClient
    <3>5. q \in Int
      BY <1>1, <3>2 DEF GroupEntries
    <3> QED BY <2>3, <3>4, <3>5
  <2>4. Decides(own, conn, rule)
    <3> HIDE DEF lists, rule
    <3>1. Decides(FlattenSeq(lists), conn, rule)
      BY <2>1, <2>2, <2>3, DecidesAmong
    <3> QED BY <3>1 DEF lists
  <2> HIDE DEF rule, own, shared
  <2>5. Decides(own \o <<shared>>, conn, rule)
    BY <1>2, <1>3, <2>4, DecidesBefore
  <2>6. Decides(GroupRules(list, g), conn, rule)
    BY <1>2, <1>6, <2>5
  <2> QED BY <2>6 DEF rule
<1> HIDE DEF g
<1>7. SUFFICES
        /\ ~g.enabled => Decides(GroupRules(list, g), conn, Act(GroupTags(g), Anything, "reject"))
        /\ g.enabled /\ conn.tag \in Plain(g) =>
              Decides(GroupRules(list, g), conn, RouteTo(Plain(g), Anything, g.id))
        /\ \A p \in DOMAIN g.clients :
              g.enabled /\ g.clients[p].ai # Nothing /\ conn.tag \in ClientTags(g.clients[p]) =>
                 Decides(GroupRules(list, g), conn,
                         IF conn.host \in AiHosts(g.clients[p]) THEN AiRule(list, g.clients[p])
                         ELSE RouteTo(ClientTags(g.clients[p]), Anything, g.id))
  BY DEF g
<1> QED BY <1>4, <1>5, <1>6

\* The rules of all groups.
AllRules(list) == [i \in DOMAIN list |-> GroupRules(list, list[i])]

\* Rules with its parts named.
LEMMA RulesAre ==
    ASSUME NEW list \in Seq(GroupEntries)
    PROVE  /\ Rules(list) = (<<Act({Health}, Anything, "reject")>> \o FlattenSeq(AllRules(list)))
                            \o <<Act(Inbounds(list), Anything, "reject")>>
           /\ AllRules(list) \in Seq(Seq(RuleEntries)) /\ DOMAIN AllRules(list) = DOMAIN list
           /\ \A i \in DOMAIN list : AllRules(list)[i] = GroupRules(list, list[i])
           /\ FlattenSeq(AllRules(list)) \in Seq(RuleEntries)
           /\ Act({Health}, Anything, "reject") \in RuleEntries
           /\ Act(Inbounds(list), Anything, "reject") \in RuleEntries
<1>1. \A i \in DOMAIN list : GroupRules(list, list[i]) \in Seq(RuleEntries)
  <2> TAKE i \in DOMAIN list
  <2>1. list[i] \in GroupEntries
    OBVIOUS
  <2> QED BY <2>1, GroupRulesAre
<1>2. AllRules(list) \in Seq(Seq(RuleEntries))
  BY <1>1 DEF AllRules
<1>3. FlattenSeq(AllRules(list)) \in Seq(RuleEntries)
  BY <1>2, FlattenPlaces
<1>4. Health \in Listening
  BY TagsTyped
<1>5. ASSUME NEW tag \in Inbounds(list) PROVE tag \in Listening
  <2>1. CASE tag = Health
    BY <2>1, <1>4
  <2>2. CASE \E i \in DOMAIN list : tag \in GroupTags(list[i])
    <3>1. PICK i \in DOMAIN list : tag \in GroupTags(list[i])
      BY <2>2
    <3>2. list[i] \in GroupEntries
      OBVIOUS
    <3>3. Act(GroupTags(list[i]), Anything, "reject") \in RuleEntries
      BY <3>2, GroupRulesAre
    <3>4. GroupTags(list[i]) \in SUBSET Listening
      BY <3>3 DEF RuleEntries, Act
    <3> QED BY <3>1, <3>4
  <2> QED BY <2>1, <2>2, Listeners
<1>6. /\ Act({Health}, Anything, "reject") \in RuleEntries
      /\ Act(Inbounds(list), Anything, "reject") \in RuleEntries
  BY <1>4, <1>5, RulesTyped
<1>7. Rules(list) = (<<Act({Health}, Anything, "reject")>> \o FlattenSeq(AllRules(list)))
                    \o <<Act(Inbounds(list), Anything, "reject")>>
  BY DEF Rules, AllRules
<1> QED BY <1>1, <1>2, <1>3, <1>6, <1>7 DEF AllRules

\* What a group decides about its own listener counts among all, and nobody reaches anything
\* from the health listener.
LEMMA RulesDecide ==
    ASSUME NEW list \in Seq(GroupEntries), Valid(list), NEW conn
    PROVE  /\ conn.tag = Health => Decides(Rules(list), conn, Act({Health}, Anything, "reject"))
           /\ \A i \in DOMAIN list : \A rule :
                 conn.tag \in GroupTags(list[i]) /\ Decides(GroupRules(list, list[i]), conn, rule)
                    => Decides(Rules(list), conn, rule)
<1> DEFINE top == Act({Health}, Anything, "reject")
           flat == FlattenSeq(AllRules(list))
           bottom == Act(Inbounds(list), Anything, "reject")
<1>1. /\ Rules(list) = (<<top>> \o flat) \o <<bottom>>
      /\ flat \in Seq(RuleEntries) /\ top \in RuleEntries /\ bottom \in RuleEntries
  BY RulesAre
<1>2. top.tags = {Health} /\ top.hosts = Anything /\ top.action # "sniff"
  BY DEF Act
<1>3. \A x \in RuleEntries : <<x>> \in Seq(RuleEntries)
  OBVIOUS
<1>4. ASSUME conn.tag = Health PROVE Decides(Rules(list), conn, top)
  <2> HIDE DEF top, flat, bottom
  <2>1. Decides(<<top>>, conn, top)
    BY <1>1, <1>2, <1>4, LastDecides
  <2>2. <<top>> \o flat \in Seq(RuleEntries) /\ Decides(<<top>> \o flat, conn, top)
    BY <1>1, <1>3, <2>1, DecidesBefore, Joined
  <2> QED BY <1>1, <1>3, <2>2, DecidesBefore
<1>5. ASSUME NEW i \in DOMAIN list, NEW rule, conn.tag \in GroupTags(list[i]),
             Decides(GroupRules(list, list[i]), conn, rule)
      PROVE  Decides(Rules(list), conn, rule)
  <2> DEFINE lists == AllRules(list)
  <2>1. /\ lists \in Seq(Seq(RuleEntries)) /\ i \in DOMAIN lists /\ DOMAIN lists = DOMAIN list
        /\ Decides(lists[i], conn, rule)
    BY <1>5, RulesAre
  <2>2. ASSUME NEW j \in DOMAIN lists, j < i PROVE ~Mentions(lists[j], conn.tag)
    <3>1. SUFFICES ASSUME Mentions(lists[j], conn.tag) PROVE FALSE
      OBVIOUS
    <3>2. j \in DOMAIN list /\ list[j] \in GroupEntries /\ lists[j] = GroupRules(list, list[j])
      <4>1. j \in DOMAIN list
        BY <2>1
      <4>2. list[j] \in GroupEntries
        BY <4>1
      <4> QED BY <4>1, <4>2, RulesAre
    <3>3. conn.tag \in GroupTags(list[j])
      BY <3>1, <3>2, GroupRulesMention
    <3>4. i = j
      BY <1>5, <3>2, <3>3, OneHome
    <3>5. i \in Int
      OBVIOUS
    <3> QED BY <2>2, <3>4, <3>5
  <2> HIDE DEF lists
  <2>3. Decides(FlattenSeq(lists), conn, rule)
    BY <2>1, <2>2, DecidesAmong
  <2>4. Decides(flat, conn, rule)
    BY <2>3 DEF lists
  <2>5. conn.tag # Health
    BY <1>5 DEF GroupTags, ClientTags, Tag, Health
  <2>6. ~Mentions(<<top>>, conn.tag)
    BY <1>2, <2>5, OneMentions
  <2> HIDE DEF top, flat, bottom
  <2>7. <<top>> \o flat \in Seq(RuleEntries) /\ Decides(<<top>> \o flat, conn, rule)
    BY <1>1, <1>3, <2>4, <2>6, DecidesAfter, Joined
  <2> QED BY <1>1, <1>3, <2>7, DecidesBefore
<1> QED BY <1>4, <1>5

-----------------------------------------------------------------------------
(* What the core does with a connection, and what the groups promise. *)

\* The rule that decides is the verdict.
LEMMA FirstCounts ==
    ASSUME NEW conn, NEW rule, rules \in Seq(RuleEntries), Decides(rules, conn, rule)
    PROVE  Verdict(conn) = IF rule.action = "route" THEN outbounds[rule.outbound] ELSE Nowhere
<1> DEFINE final == Finals(rules, conn)
           first == CHOOSE i \in final : \A j \in final : i <= j
<1>1. PICK k \in final : rules[k] = rule /\ \A j \in final : k <= j
  BY DEF Decides
<1>2. final \subseteq Int
  BY DEF Finals
<1>3. first \in final /\ \A j \in final : first <= j
  <2> HIDE DEF final
  <2> QED BY <1>1, Zenon
<1>4. first = k
  <2> HIDE DEF final, first
  <2> QED BY <1>1, <1>2, <1>3
<1>5. Verdict(conn) = IF rules[first].action = "route" THEN outbounds[rules[first].outbound] ELSE Nowhere
  BY Zenon DEF Verdict
<1> HIDE DEF first, final
<1> QED BY <1>1, <1>4, <1>5

\* An outbound for each enabled group, and for no other.
LEMMA OutboundsAre ==
    ASSUME NEW list \in Seq(GroupEntries), Valid(list)
    PROVE  /\ \A i \in DOMAIN list :
                 list[i].enabled => /\ list[i].id \in DOMAIN Outbounds(list)
                                    /\ Outbounds(list)[list[i].id] = Outbound(list[i])
           /\ \A i \in DOMAIN list : list[i].id \in DOMAIN Outbounds(list) => list[i].enabled
<1> DEFINE enabled == {g \in ToSet(list) : g.enabled}
           chosen(id) == CHOOSE g \in enabled : g.id = id
<1>1. Outbounds(list) = [id \in {g.id : g \in enabled} |-> Outbound(chosen(id))]
  BY Zenon DEF Outbounds
<1>2. ASSUME NEW i \in DOMAIN list, NEW g \in enabled, g.id = list[i].id PROVE g = list[i]
  <2>1. PICK j \in DOMAIN list : g = list[j]
    BY DEF ToSet
  <2>2. i = j
    BY <1>2, <2>1, Distinct DEF Valid
  <2> QED BY <2>1, <2>2
<1>3. ASSUME NEW i \in DOMAIN list, list[i].enabled
      PROVE  /\ list[i].id \in DOMAIN Outbounds(list)
             /\ Outbounds(list)[list[i].id] = Outbound(list[i])
  <2>1. list[i] \in enabled
    BY <1>3 DEF ToSet
  <2> HIDE DEF enabled
  <2>2. chosen(list[i].id) \in enabled /\ chosen(list[i].id).id = list[i].id
    BY <2>1, Zenon
  <2>3. chosen(list[i].id) = list[i]
    BY <2>2, <1>2
  <2> HIDE DEF chosen
  <2> QED BY <1>1, <2>1, <2>3
<1>4. ASSUME NEW i \in DOMAIN list, list[i].id \in DOMAIN Outbounds(list) PROVE list[i].enabled
  <2>1. PICK g \in enabled : g.id = list[i].id
    <3> HIDE DEF enabled, chosen
    <3> QED BY <1>1, <1>4
  <2>2. g = list[i]
    BY <2>1, <1>2
  <2> QED BY <2>2
<1> QED BY <1>3, <1>4

\* Whose listener it is.
LEMMA HomeIs ==
    ASSUME NEW list \in Seq(GroupEntries), Valid(list), NEW i \in DOMAIN list, NEW tag,
           tag \in GroupTags(list[i])
    PROVE  (CHOOSE g \in ToSet(list) : \/ tag = Tag("exit", g.id)
                                       \/ \E c \in ToSet(g.clients) : tag \in ClientTags(c)) = list[i]
<1> DEFINE P(g) == \/ tag = Tag("exit", g.id)
                   \/ \E c \in ToSet(g.clients) : tag \in ClientTags(c)
<1>1. \A g : P(g) <=> tag \in GroupTags(g)
  BY DEF GroupTags
<1>2. list[i] \in ToSet(list) /\ P(list[i])
  BY <1>1 DEF ToSet
<1>3. ASSUME NEW g \in ToSet(list), P(g) PROVE g = list[i]
  <2>1. PICK j \in DOMAIN list : g = list[j]
    BY DEF ToSet
  <2>2. tag \in GroupTags(list[j])
    BY <1>3, <2>1, <1>1
  <2>3. i = j
    BY <2>2, OneHome
  <2> QED BY <2>1, <2>3
<1> DEFINE home == CHOOSE g \in ToSet(list) : P(g)
<1>4. home \in ToSet(list) /\ P(home)
  <2> HIDE DEF P
  <2> QED BY <1>2, Zenon
<1>5. home = list[i]
  <2> HIDE DEF home, P
  <2> QED BY <1>3, <1>4
<1> QED BY <1>5

\* And which client's.
LEMMA ClientIs ==
    ASSUME NEW list \in Seq(GroupEntries), Valid(list), NEW i \in DOMAIN list,
           NEW p \in DOMAIN list[i].clients, NEW tag, tag \in ClientTags(list[i].clients[p])
    PROVE  (CHOOSE c \in ToSet(list[i].clients) : tag \in ClientTags(c)) = list[i].clients[p]
<1> DEFINE client == CHOOSE c \in ToSet(list[i].clients) : tag \in ClientTags(c)
<1>1. list[i].clients[p] \in ToSet(list[i].clients)
  BY DEF ToSet
<1>2. client \in ToSet(list[i].clients) /\ tag \in ClientTags(client)
  BY <1>1, Zenon
<1> HIDE DEF client
<1>3. PICK q \in DOMAIN list[i].clients : client = list[i].clients[q]
  BY <1>2 DEF ToSet
<1>4. p = q
  BY <1>2, <1>3, OneClient
<1>5. client = list[i].clients[p]
  BY <1>3, <1>4
<1> QED BY <1>5 DEF client

\* A group is found by its identifier.
LEMMA NamedIs ==
    ASSUME NEW i \in DOMAIN groups, groups \in Seq(GroupEntries), Valid(groups)
    PROVE  GroupNamed(groups[i].id) = groups[i]
<1> DEFINE named == CHOOSE g \in ToSet(groups) : g.id = groups[i].id
<1>1. groups[i] \in ToSet(groups)
  BY DEF ToSet
<1>2. named \in ToSet(groups) /\ named.id = groups[i].id
  BY <1>1, Zenon
<1> HIDE DEF named
<1>3. PICK j \in DOMAIN groups : named = groups[j]
  BY <1>2 DEF ToSet
<1>4. i = j
  BY <1>2, <1>3, Distinct DEF Valid
<1>5. named = groups[i]
  BY <1>3, <1>4
<1> QED BY <1>5 DEF named, GroupNamed

\* The promise, without the search for its group.
LEMMA PromisedIs ==
    ASSUME groups \in Seq(GroupEntries), Valid(groups), NEW conn, NEW i \in DOMAIN groups,
           conn.tag \in GroupTags(groups[i])
    PROVE  LET g == groups[i]
               client == CHOOSE c \in ToSet(g.clients) : conn.tag \in ClientTags(c)
           IN  Promised(conn) =
                  IF conn.tag.kind = "exit" \/ ~g.enabled \/ client.ai = Nothing THEN OutOf(g)
                  ELSE IF conn.host \in AiHosts(client) THEN OutOf(GroupNamed(client.ai))
                  ELSE OutOf(g)
<1> DEFINE g == groups[i]
           home == CHOOSE h \in ToSet(groups) :
                     \/ conn.tag = Tag("exit", h.id)
                     \/ \E c \in ToSet(h.clients) : conn.tag \in ClientTags(c)
           their(h) == CHOOSE c \in ToSet(h.clients) : conn.tag \in ClientTags(c)
           says(h) == IF conn.tag = Health THEN Nowhere
                      ELSE IF conn.tag.kind = "exit" \/ ~h.enabled \/ their(h).ai = Nothing THEN OutOf(h)
                      ELSE IF conn.host \in AiHosts(their(h)) THEN OutOf(GroupNamed(their(h).ai))
                      ELSE OutOf(h)
<1>1. home = g
  BY HomeIs
<1>2. Promised(conn) = says(home)
  BY Zenon DEF Promised
<1>3. Promised(conn) = says(g)
  <2> HIDE DEF says, home, g
  <2> QED BY <1>1, <1>2
<1>4. conn.tag # Health
  BY DEF GroupTags, ClientTags, Tag, Health
<1> HIDE DEF their
<1> SUFFICES Promised(conn) =
        IF conn.tag.kind = "exit" \/ ~g.enabled \/ their(g).ai = Nothing THEN OutOf(g)
        ELSE IF conn.host \in AiHosts(their(g)) THEN OutOf(GroupNamed(their(g).ai))
        ELSE OutOf(g)
  BY DEF their
<1> HIDE DEF g
<1> QED BY <1>3, <1>4

\* What was rendered.
Rendered ==
    step = "rendered" =>
        /\ groups \in Seq(GroupEntries) /\ Valid(groups)
        /\ rules = Rules(groups) /\ outbounds = Outbounds(groups) /\ firewall = Firewall(groups)

\* The verdict on a connection to a listener of a group.
LEMMA SentAsPromised ==
    ASSUME Rendered, step = "rendered", NEW conn \in Connections
    PROVE  Verdict(conn) = Promised(conn)
<1>1. /\ groups \in Seq(GroupEntries) /\ Valid(groups)
      /\ rules = Rules(groups) /\ outbounds = Outbounds(groups)
  BY DEF Rendered
<1>2. rules \in Seq(RuleEntries)
  <2>1. \A x \in RuleEntries : <<x>> \in Seq(RuleEntries)
    OBVIOUS
  <2>2. /\ <<Act({Health}, Anything, "reject")>> \in Seq(RuleEntries)
        /\ <<Act(Inbounds(groups), Anything, "reject")>> \in Seq(RuleEntries)
        /\ FlattenSeq(AllRules(groups)) \in Seq(RuleEntries)
    BY <1>1, <2>1, RulesAre
  <2>3. <<Act({Health}, Anything, "reject")>> \o FlattenSeq(AllRules(groups)) \in Seq(RuleEntries)
    BY <2>2, Joined
  <2>4. Rules(groups) \in Seq(RuleEntries)
    <3>1. \A a, b \in Seq(RuleEntries) : a \o b \in Seq(RuleEntries)
      OBVIOUS
    <3> QED BY <1>1, <2>2, <2>3, <3>1, RulesAre
  <2> QED BY <1>1, <2>4
<1>3. conn.tag \in Inbounds(groups) /\ conn.host \in Anything
  BY DEF Connections
<1>4. CASE conn.tag = Health
  <2>1. Decides(rules, conn, Act({Health}, Anything, "reject"))
    BY <1>1, <1>4, RulesDecide
  <2>2. Verdict(conn) = Nowhere
    BY <1>2, <2>1, FirstCounts DEF Act
  <2> QED BY <1>4, <2>2 DEF Promised
<1>5. CASE \E i \in DOMAIN groups : conn.tag \in GroupTags(groups[i])
  <2>1. PICK i \in DOMAIN groups : conn.tag \in GroupTags(groups[i])
    BY <1>5
  <2> DEFINE g == groups[i]
             client == CHOOSE c \in ToSet(g.clients) : conn.tag \in ClientTags(c)
  <2>2. g \in GroupEntries
    BY <1>1
  <2>4. Promised(conn) =
           IF conn.tag.kind = "exit" \/ ~g.enabled \/ client.ai = Nothing THEN OutOf(g)
           ELSE IF conn.host \in AiHosts(client) THEN OutOf(GroupNamed(client.ai))
           ELSE OutOf(g)
    BY <1>1, <2>1, PromisedIs
  <2>5. ASSUME NEW rule, Decides(GroupRules(groups, g), conn, rule)
        PROVE  Verdict(conn) = IF rule.action = "route" THEN outbounds[rule.outbound] ELSE Nowhere
    <3>1. Decides(rules, conn, rule)
      BY <1>1, <2>1, <2>5, RulesDecide
    <3> QED BY <1>2, <3>1, FirstCounts
  <2>6. g.enabled => outbounds[g.id] = Outbound(g)
    BY <1>1, OutboundsAre
  <2> DEFINE closed == Act(GroupTags(g), Anything, "reject")
             shared == RouteTo(Plain(g), Anything, g.id)
  <2>7. CASE ~g.enabled
    <3>1. Decides(GroupRules(groups, g), conn, closed)
      BY <1>1, <2>1, <2>7, GroupDecides
    <3>2. Verdict(conn) = Nowhere
      BY <3>1, <2>5 DEF Act
    <3> HIDE DEF g, client
    <3> QED BY <2>4, <2>7, <3>2 DEF OutOf
  <2>8. CASE g.enabled /\ conn.tag \in Plain(g)
    <3>1. Decides(GroupRules(groups, g), conn, shared)
      BY <1>1, <2>1, <2>8, GroupDecides
    <3>2. shared.action = "route" /\ shared.outbound = g.id
      BY DEF RouteTo
    <3>3. Verdict(conn) = Outbound(g)
      <4> HIDE DEF shared, g
      <4> QED BY <3>1, <3>2, <2>5, <2>6, <2>8
    <3>4. conn.tag.kind = "exit" \/ client.ai = Nothing
      <4>1. CASE conn.tag = Tag("exit", g.id)
        BY <4>1 DEF Tag
      <4>2. CASE \E d \in ToSet(g.clients) : d.ai = Nothing /\ conn.tag \in ClientTags(d)
        <5>1. PICK p \in DOMAIN g.clients : g.clients[p].ai = Nothing /\ conn.tag \in ClientTags(g.clients[p])
          BY <4>2 DEF ToSet
        <5>2. client = g.clients[p]
          BY <1>1, <5>1, ClientIs
        <5> HIDE DEF client, g
        <5> QED BY <5>1, <5>2
      <4> QED BY <2>8, <4>1, <4>2 DEF Plain
    <3> HIDE DEF g, client
    <3> QED BY <2>4, <2>8, <3>3, <3>4 DEF OutOf
  <2>9. CASE g.enabled /\ conn.tag \notin Plain(g)
    <3>1. PICK p \in DOMAIN g.clients : g.clients[p].ai # Nothing /\ conn.tag \in ClientTags(g.clients[p])
      BY <2>1, <2>9 DEF GroupTags, Plain, ToSet
    <3> DEFINE c == g.clients[p]
               rest == RouteTo(ClientTags(c), Anything, g.id)
    <3>2. client = c
      BY <1>1, <3>1, ClientIs
    <3>3. Decides(GroupRules(groups, g), conn, IF conn.host \in AiHosts(c) THEN AiRule(groups, c) ELSE rest)
      BY <1>1, <2>1, <2>9, <3>1, GroupDecides
    <3>4. conn.tag.kind # "exit"
      BY <3>1 DEF ClientTags, Tag
    <3>5. PICK j \in DOMAIN groups : groups[j].id = c.ai
      BY <1>1, <3>1, Entries
    <3>6. CASE conn.host \in AiHosts(c)
      <4>1. Verdict(conn) = IF AiRule(groups, c).action = "route"
                            THEN outbounds[AiRule(groups, c).outbound] ELSE Nowhere
        BY <2>5, <3>3, <3>6
      <4>2. GroupNamed(c.ai) = groups[j]
        BY <1>1, <3>5, NamedIs
      <4>3. Verdict(conn) = OutOf(groups[j])
        <5>1. CASE groups[j].enabled
          <6>1. c.ai \in DOMAIN Outbounds(groups) /\ outbounds[c.ai] = Outbound(groups[j])
            BY <1>1, <3>5, <5>1, OutboundsAre
          <6>2. AiRule(groups, c).action = "route" /\ AiRule(groups, c).outbound = c.ai
            BY <6>1 DEF AiRule, RouteTo
          <6> QED BY <4>1, <5>1, <6>1, <6>2 DEF OutOf
        <5>2. CASE ~groups[j].enabled
          <6>1. c.ai \notin DOMAIN Outbounds(groups)
            BY <1>1, <3>5, <5>2, OutboundsAre
          <6>2. AiRule(groups, c).action # "route"
            BY <6>1 DEF AiRule, Act
          <6> QED BY <4>1, <5>2, <6>2 DEF OutOf
        <5> QED BY <5>1, <5>2
      <4> HIDE DEF g, client, c
      <4> QED BY <2>4, <2>9, <3>1, <3>2, <3>4, <3>6, <4>2, <4>3 DEF c
    <3>7. CASE conn.host \notin AiHosts(c)
      <4>1. rest.action = "route" /\ rest.outbound = g.id
        BY DEF RouteTo
      <4>2. Verdict(conn) = Outbound(g)
        <5> HIDE DEF rest, c, g
        <5> QED BY <2>5, <2>6, <2>9, <3>3, <3>7, <4>1
      <4> HIDE DEF g, client, c
      <4> QED BY <2>4, <2>9, <3>1, <3>2, <3>4, <3>7, <4>2 DEF OutOf, c
    <3> QED BY <3>6, <3>7
  <2> QED BY <2>7, <2>8, <2>9
<1> QED BY <1>1, <1>3, <1>4, <1>5, Listeners

-----------------------------------------------------------------------------
(* The theorems about what is rendered. *)

\* The inductive invariant: files are rendered from a list that validate() accepted.
LEMMA RenderedAlways == RenderSpec => []Rendered
<1>1. RenderInit => Rendered
  BY DEF RenderInit, Rendered
<1> DEFINE Given == groups \in Inputs
<1>2. RenderInit => Given
  BY DEF RenderInit
<1>3. Given /\ [RenderNext]_renderVars => Given'
  BY DEF RenderNext, Render, Refuse, renderVars
<1>4. Given /\ Rendered /\ [RenderNext]_renderVars => Rendered'
  <2> SUFFICES ASSUME Given, Rendered, [RenderNext]_renderVars PROVE Rendered'
    OBVIOUS
  <2>1. CASE Render
    <3>1. groups \in Seq(GroupEntries)
      BY RenderingOK
    <3> QED BY <2>1, <3>1 DEF Render, Rendered
  <2>2. CASE Refuse
    BY <2>2 DEF Refuse, Rendered
  <2>3. CASE UNCHANGED renderVars
    BY <2>3 DEF renderVars, Rendered
  <2> QED BY <2>1, <2>2, <2>3 DEF RenderNext
<1> HIDE DEF Given
<1> QED BY <1>1, <1>2, <1>3, <1>4, PTL DEF RenderSpec

\* For any groups, providers, names and servers: whatever enters by a listener leaves by the
\* exit its group promises (render() in configuration.py).
THEOREM Leaving == RenderSpec => []LeavesByItsExit
<1>1. Rendered => LeavesByItsExit
  BY SentAsPromised DEF LeavesByItsExit
<1> QED BY <1>1, RenderedAlways, PTL

\* What the core sends, the firewall of the same rendering lets through, and beside replies it
\* lets through only what an enabled exit sends.
THEOREM Firewalled == RenderSpec => []OnlyPromisedLeaves
<1>1. Rendered => OnlyPromisedLeaves
  <2> SUFFICES ASSUME Rendered, step = "rendered" PROVE OnlyPromisedLeaves
    BY DEF OnlyPromisedLeaves
  <2>1. groups \in Seq(GroupEntries) /\ Valid(groups) /\ firewall = Firewall(groups)
    BY DEF Rendered
  <2>2. firewall.allowed = {Outbound(g) : g \in {h \in ToSet(groups) : h.enabled}}
    BY <2>1 DEF Firewall
  <2>3. ASSUME NEW conn \in Connections, Verdict(conn) # Nowhere
        PROVE  Leaves(firewall, Verdict(conn))
    <3>1. Promised(conn) # Nowhere /\ Verdict(conn) = Promised(conn)
      BY <2>3, SentAsPromised
    <3>2. ASSUME NEW i \in DOMAIN groups PROVE OutOf(groups[i]) # Nowhere => OutOf(groups[i]) \in firewall.allowed
      BY <2>2 DEF OutOf, ToSet
    <3>3. PICK i \in DOMAIN groups : conn.tag \in GroupTags(groups[i])
      <4>1. conn.tag # Health
        BY <3>1 DEF Promised
      <4> QED BY <2>1, <4>1, Listeners DEF Connections
    <3>4. \E j \in DOMAIN groups : Promised(conn) = OutOf(groups[j])
      <4> DEFINE g == groups[i]
                 client == CHOOSE c \in ToSet(g.clients) : conn.tag \in ClientTags(c)
      <4>1. Promised(conn) =
               IF conn.tag.kind = "exit" \/ ~g.enabled \/ client.ai = Nothing THEN OutOf(g)
               ELSE IF conn.host \in AiHosts(client) THEN OutOf(GroupNamed(client.ai))
               ELSE OutOf(g)
        BY <2>1, <3>3, PromisedIs
      <4>2. CASE conn.tag.kind = "exit" \/ client.ai = Nothing
        <5> HIDE DEF g, client
        <5>1. Promised(conn) = OutOf(g)
          BY <4>1, <4>2
        <5> QED BY <5>1 DEF g
      <4>3. CASE conn.tag.kind # "exit" /\ client.ai # Nothing
        <5>1. PICK p \in DOMAIN g.clients : conn.tag \in ClientTags(g.clients[p])
          BY <3>3, <4>3 DEF GroupTags, Tag, ToSet
        <5>2. client = g.clients[p]
          BY <2>1, <5>1, ClientIs
        <5>3. PICK j \in DOMAIN groups : groups[j].id = client.ai
          <6>1. g.clients[p].ai # Nothing
            BY <4>3, <5>2
          <6>2. \E j \in DOMAIN groups : groups[j].id = g.clients[p].ai
            BY <2>1, <6>1, Entries
          <6> QED BY <5>2, <6>2
        <5>4. GroupNamed(client.ai) = groups[j]
          BY <2>1, <5>3, NamedIs
        <5> HIDE DEF client
        <5> QED BY <4>1, <5>4
      <4> QED BY <4>2, <4>3
    <3>5. Promised(conn) \in firewall.allowed
      BY <3>1, <3>2, <3>4
    <3> QED BY <3>1, <3>5 DEF Leaves
  <2>4. ASSUME NEW packet, packet.kind # "reply", Leaves(firewall, packet)
        PROVE  \E g \in ToSet(groups) : g.enabled /\ Outbound(g) = packet
    BY <2>2, <2>4 DEF Leaves, Packet
  <2>5. \A s : Packet("isp", s).kind # "reply" /\ \A i : Packet("mark", i).kind # "reply"
    BY DEF Packet
  <2> QED BY <2>3, <2>4, <2>5 DEF OnlyPromisedLeaves
<1> QED BY <1>1, RenderedAlways, PTL

\* The listeners, by their kind and number.
LEMMA ListenerKinds ==
    ASSUME NEW list \in Seq(GroupEntries), Valid(list), NEW tag \in Inbounds(list)
    PROVE  tag = Health \/ \E k \in {"exit", "tls", "phone"}, n \in Identifiers : tag = Tag(k, n)
<1>1. CASE \E i \in DOMAIN list : tag \in GroupTags(list[i])
  <2>1. PICK i \in DOMAIN list : tag \in GroupTags(list[i])
    BY <1>1
  <2>2. CASE tag = Tag("exit", list[i].id)
    BY <2>2, Entries
  <2>3. CASE \E c \in ToSet(list[i].clients) : tag \in ClientTags(c)
    <3>1. PICK p \in DOMAIN list[i].clients : tag \in ClientTags(list[i].clients[p])
      BY <2>3 DEF ToSet
    <3>2. list[i].clients[p].id \in Identifiers
      BY Entries
    <3> QED BY <3>1, <3>2 DEF ClientTags
  <2> QED BY <2>1, <2>2, <2>3 DEF GroupTags
<1> QED BY <1>1, Listeners

\* Their ports: four ranges beside each other.
LEMMA PortsAre ==
    /\ Port(Health) = 10810 /\ Health.kind = "health"
    /\ \A n \in Identifiers :
          /\ n \in Int /\ 1 <= n /\ n <= 1000
          /\ Port(Tag("exit", n)) = 12000 + n /\ Port(Tag("tls", n)) = 13000 + n
          /\ Port(Tag("phone", n)) = 20000 + n
    /\ \A k, n : Tag(k, n).kind = k
<1>1. Port(Health) = 10810 /\ Health.kind = "health"
  BY DEF Port, Tag, Health
<1>2. ASSUME NEW n \in Identifiers
      PROVE  /\ Port(Tag("exit", n)) = 12000 + n /\ Port(Tag("tls", n)) = 13000 + n
             /\ Port(Tag("phone", n)) = 20000 + n
  BY DEF Port, Tag
<1>3. \A n \in Identifiers : n \in Int /\ 1 <= n /\ n <= 1000
  BY DEF Identifiers
<1>4. \A k, n : Tag(k, n).kind = k
  BY DEF Tag
<1> QED BY <1>1, <1>2, <1>3, <1>4

\* So no two listeners share one.
LEMMA PortsApart ==
    ASSUME NEW list \in Seq(GroupEntries), Valid(list)
    PROVE  \A a, b \in Inbounds(list) : Port(a) = Port(b) => a = b
<1> SUFFICES ASSUME NEW a \in Inbounds(list), NEW b \in Inbounds(list), Port(a) = Port(b) PROVE a = b
  OBVIOUS
<1>1. a = Health \/ \E k \in {"exit", "tls", "phone"}, n \in Identifiers : a = Tag(k, n)
  BY ListenerKinds
<1>2. b = Health \/ \E k \in {"exit", "tls", "phone"}, n \in Identifiers : b = Tag(k, n)
  BY ListenerKinds
<1> DEFINE From(t, base, n) == n \in Int /\ 1 <= n /\ n <= 1000 /\ Port(t) = base + n
<1>3. ASSUME NEW t, t = Health \/ \E k \in {"exit", "tls", "phone"}, n \in Identifiers : t = Tag(k, n)
      PROVE  \/ t = Health /\ Port(t) = 10810
             \/ \E n : t = Tag("exit", n) /\ From(t, 12000, n)
             \/ \E n : t = Tag("tls", n) /\ From(t, 13000, n)
             \/ \E n : t = Tag("phone", n) /\ From(t, 20000, n)
  <2>1. CASE t = Health
    BY <2>1, PortsAre
  <2>2. ASSUME NEW k \in {"exit", "tls", "phone"}, NEW n \in Identifiers, t = Tag(k, n)
        PROVE  \/ t = Tag("exit", n) /\ From(t, 12000, n)
               \/ t = Tag("tls", n) /\ From(t, 13000, n)
               \/ t = Tag("phone", n) /\ From(t, 20000, n)
    BY <2>2, PortsAre
  <2> HIDE DEF From
  <2> QED BY <1>3, <2>1, <2>2
<1>4. \/ a = Health /\ Port(a) = 10810
      \/ \E n : a = Tag("exit", n) /\ From(a, 12000, n)
      \/ \E n : a = Tag("tls", n) /\ From(a, 13000, n)
      \/ \E n : a = Tag("phone", n) /\ From(a, 20000, n)
  BY <1>1, <1>3
<1>5. \/ b = Health /\ Port(b) = 10810
      \/ \E n : b = Tag("exit", n) /\ From(b, 12000, n)
      \/ \E n : b = Tag("tls", n) /\ From(b, 13000, n)
      \/ \E n : b = Tag("phone", n) /\ From(b, 20000, n)
  BY <1>2, <1>3
<1> QED BY <1>4, <1>5

\* Every listener has a door of its own: no port is two listeners', and the firewall opens to
\* the outside the ports of phones only, while they are live.
THEOREM Doors == RenderSpec => []DoorsAreApart
<1>1. Rendered => DoorsAreApart
  <2> SUFFICES ASSUME Rendered, step = "rendered" PROVE DoorsAreApart
    BY DEF DoorsAreApart
  <2>1. groups \in Seq(GroupEntries) /\ Valid(groups) /\ firewall = Firewall(groups)
    BY DEF Rendered
  <2>2. \A a, b \in Inbounds(groups) : Port(a) = Port(b) => a = b
    BY <2>1, PortsApart
  <2>3. ASSUME NEW a \in Inbounds(groups)
        PROVE  Port(a) \in firewall.private <=> a.kind \in {"health", "exit"}
    <3>1. firewall.private = {Port(t) : t \in {u \in Inbounds(groups) : u.kind \in {"health", "exit"}}}
      BY <2>1 DEF Firewall
    <3> QED BY <2>2, <3>1
  <2>4. ASSUME NEW a \in Inbounds(groups), NEW open \in BOOLEAN, NEW opened,
               opened = IF open THEN {Port(a)} ELSE {}
        PROVE  /\ Enters(firewall, Port(a), FALSE, opened, opened) <=> a.kind = "phone" /\ open
               /\ a.kind = "tls" => /\ Enters(firewall, Port(a), TRUE, opened, opened) <=> open
                                    /\ Port(a) \in PathPorts
               /\ a.kind \in {"exit", "health"} => Enters(firewall, Port(a), TRUE, opened, opened)
    <3>1. Port(a) \in opened <=> open
      BY <2>4
    <3>2. CASE a = Health
      <4>1. Port(a) = 10810 /\ a.kind = "health"
        BY <3>2, PortsAre
      <4> QED BY <2>3, <4>1 DEF Enters
    <3>3. ASSUME NEW k \in {"exit", "tls", "phone"}, NEW n \in Identifiers, a = Tag(k, n)
          PROVE  /\ Enters(firewall, Port(a), FALSE, opened, opened) <=> a.kind = "phone" /\ open
                 /\ a.kind = "tls" => /\ Enters(firewall, Port(a), TRUE, opened, opened) <=> open
                                      /\ Port(a) \in PathPorts
                 /\ a.kind \in {"exit", "health"} => Enters(firewall, Port(a), TRUE, opened, opened)
      <4>1. n \in Int /\ 1 <= n /\ n <= 1000 /\ a.kind = k
        BY <3>3, PortsAre
      <4>2. CASE k = "exit"
        <5>1. Port(a) = 12000 + n
          BY <3>3, <4>2, PortsAre
        <5> QED BY <2>3, <4>1, <4>2, <5>1 DEF Enters
      <4>3. CASE k = "tls"
        <5>1. Port(a) = 13000 + n
          BY <3>3, <4>3, PortsAre
        <5> QED BY <2>3, <3>1, <4>1, <4>3, <5>1 DEF Enters, PathPorts
      <4>4. CASE k = "phone"
        <5>1. Port(a) = 20000 + n
          BY <3>3, <4>4, PortsAre
        <5> QED BY <2>3, <3>1, <4>1, <4>4, <5>1 DEF Enters
      <4> QED BY <4>2, <4>3, <4>4
    <3> QED BY <2>1, <3>2, <3>3, ListenerKinds
  <2> QED BY <2>2, <2>4 DEF DoorsAreApart
<1> QED BY <1>1, RenderedAlways, PTL

==============================================================================
