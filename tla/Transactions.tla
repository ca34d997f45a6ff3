---------------------------- MODULE Transactions ----------------------------
(***************************************************************************)
(* The root side of a gateway: gateways/transactions.py, the units that    *)
(* start it (recover.service, the transient rollback timer) and the part   *)
(* of gateways/remote_admin.py that restarts the same services under the   *)
(* same lock.  One file operation, one unit command or one removal is one  *)
(* step, so that a kill, a reboot or an exception may fall between any two *)
(* of them.                                                                *)
(*                                                                         *)
(* Simplifications:                                                        *)
(*  - a rendered file is named by the topology it was rendered from;       *)
(*  - a request that the code refuses before it writes anything (a bad     *)
(*    identifier, ANOTHER_TRANSACTION_PENDING, TRANSACTION_CHANGED ...) is *)
(*    an action that is not enabled;                                       *)
(*  - a request that finds the lock taken for ten seconds changes nothing, *)
(*    so waiting for the lock is the request starting later or not at all; *)
(*  - write() replaces a file atomically (os.replace), before or after a   *)
(*    crash, never half of it.                                             *)
(***************************************************************************)
EXTENDS Naturals

CONSTANTS
    Tx, Groups, None, Factory,  \* as in ConfigStore
    Down,       \* the core is not running
    FailAt,     \* <<kind, step>> pairs at which a command or a write may raise
    KillAt,     \* <<kind, step>> pairs before which the process may be killed
    RebootAt,   \* <<kind, step>> pairs before which the machine may restart
    MaxFaults,  \* bound: exceptions, kills and reboots of one behaviour
    QuietBoot   \* TRUE: no request is served before recover.service has run

ASSUME ConstantsOK ==
    /\ None \notin Tx \cup Groups \cup {Factory, Down}
    /\ Factory \notin Groups /\ Down \notin Groups /\ Down # Factory
    /\ MaxFaults \in Nat
    /\ QuietBoot \in BOOLEAN

VARIABLES
    config, firewall, manifest,  \* the three files a transaction replaces
    backups,    \* backups[t]: the directory BASE/backups/t, or None
    pending,    \* the transaction whose BASE/pending exists, or None
    meta,       \* BASE/pending/meta.json exists
    timer,      \* pfem-config-rollback: its state and the transaction it was armed for
    service,    \* the configuration the running core has loaded, or Down
    rules,      \* the firewall file loaded in the kernel since boot, or None
    recovered,  \* recover.service is active
    jobs,       \* start jobs of the boot that systemd has not finished
    op,         \* the process that holds /run/lock/pfem-gateway.lock
    replies,    \* verdicts printed to callers so far
    faults      \* faults so far

fileVars   == <<config, firewall, manifest>>
ledgerVars == <<backups, pending, meta>>
unitVars   == <<timer, service, rules, recovered, jobs>>
vars == <<fileVars, ledgerVars, unitVars, op, replies, faults>>

Store == INSTANCE ConfigStore WITH
    installed <- IF pending = None THEN [config |-> config, firewall |-> firewall,
                                         manifest |-> manifest]
                                   ELSE backups[pending].saved,
    proposal  <- IF pending = None THEN None
                                   ELSE [tx |-> pending, groups |-> backups[pending].candidate]

\* None is neither a version nor a set of files: records are not model values.
ASSUME NoneIsNoRecord ==
    /\ None \notin Store!Version
    /\ None \notin Store!Files
    /\ None \notin [candidate : Groups, saved : Store!Files \cup {None}]

Version == Store!Version
Whole(v) == Store!Whole(v)

Live == [config |-> config, firewall |-> firewall, manifest |-> manifest]

ManifestTx == IF manifest = None THEN None ELSE manifest.tx

Idle == [kind |-> "none", tx |-> None, step |-> "idle"]

ApplySteps    == {"check", "publish", "arm", "stop", "config", "firewall", "rules",
                  "core", "verify", "manifest", "report"}
RollbackSteps == {"stop", "meta", "config", "firewall", "manifest", "rules", "core",
                  "unlink", "rmdir", "timer"}
CommitSteps   == {"unlink", "rmdir", "timer"}
RestartSteps  == {"rules", "core"}

\* Who runs a rollback: apply() after an exception, the timer, a root shell, the boot.
RollbackKinds == {"undo", "timer", "manual", "boot"}

Kinds == {"none", "apply", "commit", "reconcile", "restart"} \cup RollbackKinds
Steps == {"idle"} \cup ApplySteps \cup RollbackSteps

\* Where each kind of process can be: recover-config restarts no service, and only apply()
\* and commit() have a timer to stop. The last three know their transaction by name.
Processes ==
    {p \in [kind : Kinds, tx : Tx \cup {None}, step : Steps] :
        /\ p.kind = "none" <=> p.step = "idle"
        /\ p.kind = "apply" => p.step \in ApplySteps
        /\ p.kind \in RollbackKinds => p.step \in RollbackSteps
        /\ p.kind = "boot" => p.step \notin {"stop", "rules", "core"}
        /\ p.kind \in RollbackKinds /\ p.step = "timer" => p.kind = "undo"
        /\ p.kind = "commit" => p.step \in CommitSteps
        /\ p.kind \in {"reconcile", "restart"} => p.step \in RestartSteps
        /\ p.kind \in {"apply", "undo", "commit"} => p.tx \in Tx}

Contents == Groups \cup {Factory}

Snapshots == [candidate : Groups, saved : Store!Files \cup {None}]

TypeOK ==
    /\ config \in Contents /\ firewall \in Contents
    /\ manifest \in Version \cup {None}
    /\ backups \in [Tx -> Snapshots \cup {None}]
    /\ pending \in Tx \cup {None}
    /\ meta \in BOOLEAN
    /\ timer \in [state : {"off", "armed", "firing"}, tx : Tx \cup {None}]
    /\ service \in Contents \cup {Down}
    /\ rules \in Contents \cup {None}
    /\ recovered \in BOOLEAN
    /\ jobs \in SUBSET {"recover", "firewall", "core"}
    /\ op \in Processes
    /\ replies \in SUBSET [tx : Tx, verdict : {"pending", "committed", "rolled_back"}]
    /\ faults \in 0..MaxFaults

\* A bootstrapped gateway, running the configuration it was installed with.
Init ==
    /\ config = Factory /\ firewall = Factory /\ manifest = None
    /\ backups = [t \in Tx |-> None]
    /\ pending = None /\ meta = FALSE
    /\ timer = [state |-> "off", tx |-> None]
    /\ service = Factory /\ rules = Factory
    /\ recovered = TRUE /\ jobs = {}
    /\ op = Idle /\ replies = {} /\ faults = 0

At(kinds, step) == op.kind \in kinds /\ op.step = step
Goto(step) == op' = [op EXCEPT !.step = step]
Reply(t, verdict) == replies' = replies \cup {[tx |-> t, verdict |-> verdict]}

\* handle() got the lock and runs the request.
Serve(kind, t, step) ==
    /\ op = Idle
    /\ QuietBoot => "recover" \notin jobs
    /\ op' = [kind |-> kind, tx |-> t, step |-> step]

-----------------------------------------------------------------------------
(* apply *)

\* Mutation: mkdir(exist_ok=True), so that an identifier can be used again.
BeginApplyAgain(t, g) ==
    /\ Serve("apply", t, "check")
    /\ pending = None
    /\ ManifestTx # t
    /\ backups' = [backups EXCEPT ![t] = [candidate |-> g, saved |-> None]]
    /\ UNCHANGED <<fileVars, pending, meta, unitVars, replies, faults>>

\* Up to the creation of the backup directory, which refuses an identifier used before.
BeginApply(t, g) ==
    /\ Serve("apply", t, "check")
    /\ pending = None
    /\ ManifestTx # t
    /\ backups[t] = None
    /\ backups' = [backups EXCEPT ![t] = [candidate |-> g, saved |-> None]]
    /\ UNCHANGED <<fileVars, pending, meta, unitVars, replies, faults>>

\* The identifier the manifest already names, outside a transaction, with the same
\* groups: verified again and answered, nothing written.
ReplayApply(t, g) ==
    /\ op = Idle
    /\ QuietBoot => "recover" \notin jobs
    /\ pending = None
    /\ manifest = [tx |-> t, groups |-> g]
    /\ Reply(t, "committed")
    /\ UNCHANGED <<fileVars, ledgerVars, unitVars, op, faults>>

\* The candidate passes both checks and the live files are copied and synced.
Snapshot ==
    /\ At({"apply"}, "check")
    /\ backups' = [backups EXCEPT ![op.tx].saved = Live]
    /\ Goto("publish")
    /\ UNCHANGED <<fileVars, pending, meta, unitVars, replies, faults>>

\* sing-box or nft refuses the candidate: the directory stays, nothing else does.
CheckFails ==
    /\ At({"apply"}, "check")
    /\ op' = Idle
    /\ UNCHANGED <<fileVars, ledgerVars, unitVars, replies, faults>>

PublishPending ==
    /\ At({"apply"}, "publish")
    /\ pending' = op.tx
    /\ meta' = TRUE
    /\ Goto("arm")
    /\ UNCHANGED <<fileVars, backups, unitVars, replies, faults>>

\* Mutation: a timer that is still loaded is taken for the transaction's own.
ArmAnyTimer ==
    /\ At({"apply"}, "arm")
    /\ timer' = IF timer.state = "off" THEN [state |-> "armed", tx |-> op.tx] ELSE timer
    /\ Goto("stop")
    /\ UNCHANGED <<fileVars, ledgerVars, service, rules, recovered, jobs, replies, faults>>

\* systemd-run refuses a name that is still loaded, see ArmRefused.
ArmTimer ==
    /\ At({"apply"}, "arm")
    /\ timer.state = "off"
    /\ timer' = [state |-> "armed", tx |-> op.tx]
    /\ Goto("stop")
    /\ UNCHANGED <<fileVars, ledgerVars, service, rules, recovered, jobs, replies, faults>>

InstallConfig ==
    /\ At({"apply"}, "config")
    /\ config' = backups[op.tx].candidate
    /\ Goto("firewall")
    /\ UNCHANGED <<firewall, manifest, ledgerVars, unitVars, replies, faults>>

InstallFirewall ==
    /\ At({"apply"}, "firewall")
    /\ firewall' = backups[op.tx].candidate
    /\ Goto("rules")
    /\ UNCHANGED <<config, manifest, ledgerVars, unitVars, replies, faults>>

VerifyPasses ==
    /\ At({"apply"}, "verify")
    /\ Goto("manifest")
    /\ UNCHANGED <<fileVars, ledgerVars, unitVars, replies, faults>>

WriteManifest ==
    /\ At({"apply"}, "manifest")
    /\ manifest' = [tx |-> op.tx, groups |-> backups[op.tx].candidate]
    /\ Goto("report")
    /\ UNCHANGED <<config, firewall, ledgerVars, unitVars, replies, faults>>

\* The caller learns that the version is on trial and that it has to commit.
ReportPending ==
    /\ At({"apply"}, "report")
    /\ op' = Idle
    /\ Reply(op.tx, "pending")
    /\ UNCHANGED <<fileVars, ledgerVars, unitVars, faults>>

-----------------------------------------------------------------------------
(* Service commands shared by apply, rollback and remote_admin *)

\* A stop also cancels the start job a boot may still have queued for the core.
StopCore ==
    /\ At({"apply", "undo", "timer", "manual"}, "stop")
    /\ service' = Down
    /\ jobs' = jobs \ {"core"}
    /\ Goto(IF op.kind = "apply" THEN "config" ELSE "meta")
    /\ UNCHANGED <<fileVars, ledgerVars, timer, rules, recovered, replies, faults>>

\* firewall.service and the core Require recover.service: when it is not active, it is
\* started first, and recover-config needs the lock unless nothing is pending.
DependenciesStart == recovered \/ pending = None

\* Restarting the firewall restarts a running core with it (Requires).
RestartRules ==
    /\ At({"apply", "undo", "timer", "manual", "reconcile"}, "rules")
    /\ DependenciesStart
    /\ rules' = firewall
    /\ service' = IF service = Down THEN Down ELSE config
    /\ recovered' = TRUE
    /\ jobs' = jobs \ {"recover", "firewall"}
    /\ Goto("core")
    /\ UNCHANGED <<fileVars, ledgerVars, timer, replies, faults>>

AfterCore ==
    CASE op.kind = "apply" -> [op EXCEPT !.step = "verify"]
      [] op.kind \in {"undo", "timer", "manual"} -> [op EXCEPT !.step = "unlink"]
      [] OTHER -> Idle

\* reconcile starts the core, which leaves a running one alone; the others restart it.
RestartCore ==
    /\ At({"apply", "undo", "timer", "manual", "reconcile", "restart"}, "core")
    /\ rules # None \/ DependenciesStart
    /\ service' = IF op.kind = "reconcile" /\ service # Down THEN service ELSE config
    /\ rules' = IF rules = None THEN firewall ELSE rules
    /\ recovered' = TRUE
    /\ jobs' = {}
    /\ op' = AfterCore
    /\ UNCHANGED <<fileVars, ledgerVars, timer, replies, faults>>

\* The result of systemctl stop is ignored here, so the timer may outlive it; a timer
\* that has fired is not stopped by it at all.
StopTimer ==
    /\ At({"undo", "commit"}, "timer")
    /\ timer' \in {timer, [timer EXCEPT !.state = IF @ = "armed" THEN "off" ELSE @]}
    /\ op' = Idle
    /\ Reply(op.tx, IF op.kind = "commit" THEN "committed" ELSE "rolled_back")
    /\ UNCHANGED <<fileVars, ledgerVars, service, rules, recovered, jobs, faults>>

-----------------------------------------------------------------------------
(* rollback *)

\* rollback-config typed by root; apply() enters its own rollback through Raise.
BeginManualRollback ==
    /\ Serve("manual", None, "stop")
    /\ pending # None
    /\ UNCHANGED <<fileVars, ledgerVars, unitVars, replies, faults>>

\* restore_files() finds the snapshot through meta.json.
ReadMeta ==
    /\ At(RollbackKinds, "meta")
    /\ meta
    /\ Goto("config")
    /\ UNCHANGED <<fileVars, ledgerVars, unitVars, replies, faults>>

RestoreConfig ==
    /\ At(RollbackKinds, "config")
    /\ config' = backups[pending].saved.config
    /\ Goto("firewall")
    /\ UNCHANGED <<firewall, manifest, ledgerVars, unitVars, replies, faults>>

\* Mutation: firewall.nft is left out of the restored files.
RestoreFirewallForgotten ==
    /\ At(RollbackKinds, "firewall")
    /\ Goto("manifest")
    /\ UNCHANGED <<fileVars, ledgerVars, unitVars, replies, faults>>

RestoreFirewall ==
    /\ At(RollbackKinds, "firewall")
    /\ firewall' = backups[pending].saved.firewall
    /\ Goto("manifest")
    /\ UNCHANGED <<config, manifest, ledgerVars, unitVars, replies, faults>>

\* Mutation: a snapshot without a manifest leaves the one of the failed apply.
RestoreManifestIfSaved ==
    /\ At(RollbackKinds, "manifest")
    /\ manifest' = IF backups[pending].saved.manifest = None THEN manifest
                   ELSE backups[pending].saved.manifest
    /\ Goto(IF op.kind = "boot" THEN "unlink" ELSE "rules")
    /\ UNCHANGED <<config, firewall, ledgerVars, unitVars, replies, faults>>

\* Mutation: a rollback leaves the restart to whoever comes next.
RestoreManifestOnly ==
    /\ At(RollbackKinds, "manifest")
    /\ manifest' = backups[pending].saved.manifest
    /\ Goto("unlink")
    /\ UNCHANGED <<config, firewall, ledgerVars, unitVars, replies, faults>>

\* Writes the saved manifest, or removes the file when there was none. At boot the
\* units start afterwards by themselves; otherwise both are restarted here. The
\* verification of the previous exits is only reported.
RestoreManifest ==
    /\ At(RollbackKinds, "manifest")
    /\ manifest' = backups[pending].saved.manifest
    /\ Goto(IF op.kind = "boot" THEN "unlink" ELSE "rules")
    /\ UNCHANGED <<config, firewall, ledgerVars, unitVars, replies, faults>>

\* shutil.rmtree(PENDING) removes meta.json, then the directory.
UnlinkMeta ==
    /\ At(RollbackKinds \cup {"commit"}, "unlink")
    /\ meta' = FALSE
    /\ Goto("rmdir")
    /\ UNCHANGED <<fileVars, backups, pending, unitVars, replies, faults>>

\* apply() and commit() stop the timer afterwards, the timer's own process exits 0
\* and its unit is collected, the boot goes on to the firewall.
RemovePending ==
    /\ At(RollbackKinds \cup {"commit"}, "rmdir")
    /\ pending' = None
    /\ op' = IF op.kind \in {"undo", "commit"} THEN [op EXCEPT !.step = "timer"] ELSE Idle
    /\ timer' = IF op.kind = "timer" THEN [timer EXCEPT !.state = "off"] ELSE timer
    /\ recovered' = (recovered \/ op.kind = "boot")
    /\ jobs' = IF op.kind = "boot" THEN jobs \ {"recover"} ELSE jobs
    /\ UNCHANGED <<fileVars, backups, meta, service, rules, replies, faults>>

-----------------------------------------------------------------------------
(* The rollback timer: 120 seconds after it was armed, however late apply and *)
(* commit are. A run that fails or meets the lock is retried by the unit.     *)

TimerElapses ==
    /\ timer.state = "armed"
    /\ timer' = [timer EXCEPT !.state = "firing"]
    /\ UNCHANGED <<fileVars, ledgerVars, service, rules, recovered, jobs, op, replies, faults>>

\* Mutation: --property=Restart=on-failure is forgotten, the unit runs once.
BeginTimerRollbackOnce ==
    /\ timer.state = "firing"
    /\ Serve("timer", None, "stop")
    /\ pending # None
    /\ timer' = [timer EXCEPT !.state = "off"]
    /\ UNCHANGED <<fileVars, ledgerVars, service, rules, recovered, jobs, replies, faults>>

BeginTimerRollback ==
    /\ timer.state = "firing"
    /\ Serve("timer", None, "stop")
    /\ pending # None
    /\ UNCHANGED <<fileVars, ledgerVars, unitVars, replies, faults>>

\* A delayed timer now safely does nothing.
TimerFindsNothing ==
    /\ timer.state = "firing"
    /\ op = Idle
    /\ pending = None
    /\ timer' = [timer EXCEPT !.state = "off"]
    /\ UNCHANGED <<fileVars, ledgerVars, service, rules, recovered, jobs, op, replies, faults>>

-----------------------------------------------------------------------------
(* commit *)

\* Mutation: commit does not compare meta.json with the request.
BeginCommitUnchecked(t) ==
    /\ Serve("commit", t, "unlink")
    /\ ManifestTx = t
    /\ pending # None
    /\ UNCHANGED <<fileVars, ledgerVars, unitVars, replies, faults>>

\* Removes pending only when both the manifest and meta.json name the transaction.
BeginCommit(t) ==
    /\ Serve("commit", t, "unlink")
    /\ ManifestTx = t
    /\ pending # None
    /\ meta
    /\ pending = t
    /\ UNCHANGED <<fileVars, ledgerVars, unitVars, replies, faults>>

\* Nothing pending any more: the same answer, for a caller that lost the first one.
RepeatCommit(t) ==
    /\ op = Idle
    /\ QuietBoot => "recover" \notin jobs
    /\ ManifestTx = t
    /\ pending = None
    /\ Reply(t, "committed")
    /\ UNCHANGED <<fileVars, ledgerVars, unitVars, op, faults>>

-----------------------------------------------------------------------------
(* remote_admin: reconcile and restart take the same lock and ignore pending *)

BeginReconcile ==
    /\ Serve("reconcile", None, "rules")
    /\ UNCHANGED <<fileVars, ledgerVars, unitVars, replies, faults>>

BeginRestart ==
    /\ Serve("restart", None, "core")
    /\ UNCHANGED <<fileVars, ledgerVars, unitVars, replies, faults>>

-----------------------------------------------------------------------------
(* Boot: recover.service, then firewall.service, then the core *)

\* recover-config looks for PENDING before it takes the lock.
RecoverFindsNothing ==
    /\ "recover" \in jobs
    /\ op.kind # "boot"
    /\ pending = None
    /\ recovered' = TRUE
    /\ jobs' = jobs \ {"recover"}
    /\ UNCHANGED <<fileVars, ledgerVars, timer, service, rules, op, replies, faults>>

BeginRecover ==
    /\ "recover" \in jobs
    /\ pending # None
    /\ op = Idle
    /\ op' = [kind |-> "boot", tx |-> None, step |-> "meta"]
    /\ UNCHANGED <<fileVars, ledgerVars, unitVars, replies, faults>>

\* Another process kept the lock for ten seconds: exit 75, and no unit that
\* requires recover.service starts.
RecoverGivesUp ==
    /\ "recover" \in jobs
    /\ pending # None
    /\ op # Idle /\ op.kind # "boot"
    /\ jobs' = {}
    /\ UNCHANGED <<fileVars, ledgerVars, timer, service, rules, recovered, op, replies, faults>>

BootFirewall ==
    /\ "firewall" \in jobs /\ "recover" \notin jobs
    /\ rules' = firewall
    /\ jobs' = jobs \ {"firewall"}
    /\ UNCHANGED <<fileVars, ledgerVars, timer, service, recovered, op, replies, faults>>

BootCore ==
    /\ jobs = {"core"}
    /\ service' = config
    /\ jobs' = {}
    /\ UNCHANGED <<fileVars, ledgerVars, timer, rules, recovered, op, replies, faults>>

-----------------------------------------------------------------------------
(* Exceptions, kills and reboots *)

\* apply() catches everything once pending exists and rolls back itself; every other
\* handler gives the lock back. A boot that fails leaves the units that require it down.
Raise ==
    /\ op' = IF op.kind = "apply" /\ op.step \notin {"check", "publish"}
             THEN [kind |-> "undo", tx |-> op.tx, step |-> "stop"] ELSE Idle
    /\ jobs' = IF op.kind = "boot" THEN {} ELSE jobs
    /\ UNCHANGED <<fileVars, ledgerVars, timer, service, rules, recovered, replies>>

\* An exit did not answer from its pinned address, or the encrypted client failed.
VerifyFails ==
    /\ At({"apply"}, "verify")
    /\ Raise
    /\ UNCHANGED faults

\* The unit of an earlier timer is still loaded: armed, or its service is retrying.
ArmRefused ==
    /\ At({"apply"}, "arm")
    /\ timer.state # "off"
    /\ Raise
    /\ UNCHANGED faults

\* pending without meta.json: nobody can find the snapshot any more.
MetaMissing ==
    /\ At(RollbackKinds, "meta")
    /\ ~meta
    /\ Raise
    /\ UNCHANGED faults

\* recover.service cannot be started from inside a holder of the lock while pending
\* exists: recover-config waits for that same lock and gives up with 75.
DependenciesRefused ==
    /\ op.kind \in {"apply", "undo", "timer", "manual", "reconcile", "restart"}
    /\ op.step = "rules" \/ (op.step = "core" /\ rules = None)
    /\ ~DependenciesStart
    /\ "recover" \notin jobs
    /\ Raise
    /\ UNCHANGED faults

StepFails ==
    /\ <<op.kind, op.step>> \in FailAt
    /\ faults < MaxFaults
    /\ faults' = faults + 1
    /\ Raise

Kill ==
    /\ <<op.kind, op.step>> \in KillAt
    /\ faults < MaxFaults
    /\ faults' = faults + 1
    /\ op' = Idle
    /\ jobs' = IF op.kind = "boot" THEN {} ELSE jobs
    /\ UNCHANGED <<fileVars, ledgerVars, timer, service, rules, recovered, replies>>

\* Files survive; the transient timer, the kernel's rules and every process do not.
Reboot ==
    /\ <<op.kind, op.step>> \in RebootAt
    /\ faults < MaxFaults
    /\ faults' = faults + 1
    /\ op' = Idle
    /\ timer' = [timer EXCEPT !.state = "off"]
    /\ service' = Down /\ rules' = None
    /\ recovered' = FALSE /\ jobs' = {"recover", "firewall", "core"}
    /\ UNCHANGED <<fileVars, ledgerVars, replies>>

-----------------------------------------------------------------------------

Requests ==
    \/ \E t \in Tx, g \in Groups : BeginApply(t, g) \/ ReplayApply(t, g)
    \/ \E t \in Tx : BeginCommit(t) \/ RepeatCommit(t)
    \/ BeginManualRollback \/ BeginReconcile \/ BeginRestart

\* The next thing the holder of the lock does when nothing strikes it.
Work ==
    \/ Snapshot \/ CheckFails \/ PublishPending \/ ArmTimer \/ ArmRefused
    \/ InstallConfig \/ InstallFirewall \/ VerifyPasses \/ VerifyFails
    \/ WriteManifest \/ ReportPending
    \/ StopCore \/ RestartRules \/ RestartCore \/ DependenciesRefused \/ StopTimer
    \/ ReadMeta \/ MetaMissing \/ RestoreConfig \/ RestoreFirewall \/ RestoreManifest
    \/ UnlinkMeta \/ RemovePending

Boot == RecoverFindsNothing \/ BeginRecover \/ RecoverGivesUp \/ BootFirewall \/ BootCore

Timer == TimerElapses \/ BeginTimerRollback \/ TimerFindsNothing

Next == Requests \/ Work \/ Boot \/ Timer \/ StepFails \/ Kill \/ Reboot

Spec == Init /\ [][Next]_vars

\* The lock holder runs, systemd works off its jobs and its timer, and the timer's unit
\* retries every five seconds, waiting ten for the lock each time, so that a lock which
\* keeps becoming free is obtained. Requests, kills and reboots are owed to nobody.
Fairness ==
    /\ WF_vars(Work)
    /\ WF_vars(RecoverFindsNothing \/ RecoverGivesUp \/ BootFirewall \/ BootCore)
    /\ SF_vars(BeginRecover)
    /\ WF_vars(TimerElapses)
    /\ SF_vars(BeginTimerRollback)
    /\ SF_vars(TimerFindsNothing)

FairSpec == Spec /\ Fairness

-----------------------------------------------------------------------------
(* Properties *)

Said(t, verdict) == [tx |-> t, verdict |-> verdict] \in replies

\* "Publish pending only after a complete, durable recovery snapshot exists": whatever
\* interrupted a transaction, the copy a rollback needs is there.
SnapshotBeforePending == pending # None => backups[pending] # None /\ backups[pending].saved # None

\* Outside a transaction the three files are one version, and a core that runs outside
\* boot runs that version under that version's firewall.
RunningIsInstalled ==
    pending = None /\ op = Idle =>
        /\ Live \in Store!Coherent
        /\ jobs = {} /\ service # Down => service = config /\ rules = firewall

\* No caller hears "committed" and another (or the same one, later) "rolled back" of one
\* transaction, however requests are repeated.
OneVerdict == \A t \in Tx : ~(Said(t, "committed") /\ Said(t, "rolled_back"))

\* The timer that may undo a version on trial is the one armed for it, never one
\* left over from an earlier transaction.
TrialOwnsTimer ==
    pending # None /\ Said(pending, "pending") => timer.state = "off" \/ timer.tx = pending

\* A caller that is told "committed" is told so of the version the three files hold,
\* with nothing pending that could take it away.
AcknowledgedIsInstalled ==
    [][\A t \in Tx : Said(t, "committed")' /\ ~Said(t, "committed") =>
         /\ pending = None
         /\ Live = Whole([tx |-> t, groups |-> backups[t].candidate])]_vars

\* A caller that is told "pending" leaves a timer behind that will undo the version.
TrialIsWatched ==
    [][\A t \in Tx : Said(t, "pending")' /\ ~Said(t, "pending") =>
         timer.state # "off" /\ timer.tx = t /\ pending = t]_vars

\* Configuration changes are all or nothing, and a rollback or an interrupted apply
\* leaves the installed version untouched: the abstract store is implemented.
ImplementsStore == Store!StoreSpec

\* Every transaction is decided: a lost commit, a killed apply or a reboot ends in the
\* old version, not in a gateway that refuses every later transaction.
EventuallyDecided == pending # None ~> pending = None

\* A core that a transaction stopped runs again, in the new version or the old one; the
\* exception is a commit that overtakes a rollback which stopped the core and then failed.
CoreReturns ==
    \A t \in Tx : 
        service = Down /\ pending = t ~> service # Down \/ (pending = None /\ ManifestTx = t)

-----------------------------------------------------------------------------
(* The inductive invariant behind RunningIsInstalled, AcknowledgedIsInstalled *)
(* and ImplementsStore, for gateways whose restore_files() is not interrupted *)
(* between config.json and the manifest.                                      *)

RestoreIsAtomic ==
    \A k \in RollbackKinds, s \in {"firewall", "manifest"} :
        <<k, s>> \notin FailAt \cup KillAt \cup RebootAt

Saved == backups[pending].saved
Trial == [tx |-> pending, groups |-> backups[pending].candidate]
Known(v) == backups[v.tx] # None /\ v.groups = backups[v.tx].candidate

\* Every version any file or snapshot names came from one apply, and no snapshot
\* holds the version that replaced it.
HistoryInv ==
    /\ SnapshotBeforePending
    /\ manifest # None => Known(manifest)
    /\ \A t \in Tx : backups[t] # None /\ backups[t].saved # None =>
          /\ backups[t].saved \in Store!Coherent
          /\ backups[t].saved.manifest # None =>
                backups[t].saved.manifest.tx # t /\ Known(backups[t].saved.manifest)

\* Which process may be where, and whose transaction it works on.
OwnerInv ==
    /\ op.kind = "apply" =>
          /\ backups[op.tx] # None
          /\ IF op.step \in {"check", "publish"}
             THEN pending = None /\ ManifestTx # op.tx ELSE pending = op.tx
    /\ op.kind = "apply" /\ op.step = "publish" => backups[op.tx].saved = Live
    /\ op.kind \in RollbackKinds => (pending = None <=> op.step = "timer")
    /\ op.kind = "undo" => backups[op.tx] # None /\ (op.step # "timer" => op.tx = pending)
    /\ op.kind = "boot" => "recover" \in jobs
    /\ op.kind = "commit" =>
          IF op.step = "timer" THEN pending = None /\ ManifestTx = op.tx
                               ELSE pending = op.tx /\ ManifestTx = op.tx

\* What the three files hold at each step of a transaction.
FilesInv ==
    /\ pending = None => Live \in Store!Coherent
    /\ op.kind = "apply" /\ op.step \in {"arm", "stop", "config"} => Live = Saved
    /\ op.kind = "apply" /\ op.step = "firewall" =>
          Live = [Saved EXCEPT !.config = Trial.groups]
    /\ op.kind = "apply" /\ op.step \in {"rules", "core", "verify", "manifest"} =>
          Live = [Whole(Trial) EXCEPT !.manifest = Saved.manifest]
    /\ op.kind \in RollbackKinds /\ op.step = "firewall" => config = Saved.config
    /\ op.kind \in RollbackKinds /\ op.step = "manifest" =>
          config = Saved.config /\ firewall = Saved.firewall
    /\ op.kind \in RollbackKinds /\ op.step \in {"rules", "core", "unlink", "rmdir"} =>
          Live = Saved
    /\ pending # None /\ ManifestTx = pending =>
          \/ Live = Whole(Trial)
          \/ op.kind \in RollbackKinds /\ op.step \in {"firewall", "manifest"}

Loaded == /\ rules \in {firewall, None} /\ service \in {config, Down}
          /\ service # Down => rules # None

\* Apply and rollback keep the core down while they write files; whoever leaves pending
\* behind as a trial, or removes it, leaves what runs equal to what is installed.
UnitsInv ==
    /\ rules # None => recovered
    /\ jobs # {} /\ "recover" \notin jobs => recovered
    /\ "recover" \in jobs => "firewall" \in jobs /\ rules = None /\ service = Down
    /\ "firewall" \in jobs => service = Down
    /\ "core" \in jobs /\ "firewall" \notin jobs => rules # None
    /\ \/ op.kind = "apply" /\ op.step \in {"config", "firewall", "rules", "core"}
       \/ op.kind \in {"undo", "timer", "manual"} /\
             op.step \in {"meta", "config", "firewall", "manifest", "rules", "core"}
       => service = Down /\ "core" \notin jobs
    /\ op.kind \in {"apply", "undo", "timer", "manual"} /\ op.step = "core" => rules = firewall
    /\ \/ pending = None
       \/ op.kind = "apply" /\ op.step \in {"arm", "stop", "verify", "manifest", "report"}
       \/ op.kind \in RollbackKinds /\ op.step \in {"unlink", "rmdir"}
       \/ ManifestTx = pending /\ op.kind \notin RollbackKinds
       \/ ManifestTx = pending /\ op.step \in {"stop", "meta", "config"}
       => Loaded

IInv == TypeOK /\ HistoryInv /\ OwnerInv /\ FilesInv /\ UnitsInv

-----------------------------------------------------------------------------
(* What OneVerdict and TrialOwnsTimer rest on, whatever fails. *)

SavedBy(u, t) ==
    /\ backups[u] # None /\ backups[u].saved # None
    /\ backups[u].saved.manifest # None /\ backups[u].saved.manifest.tx = t

\* Some file still names t: the manifest, or the snapshot of a later transaction.
Mentioned(t) == ManifestTx = t \/ \E u \in Tx : SavedBy(u, t)

VerdictInv ==
    /\ \A t \in Tx : Mentioned(t) => backups[t] # None
    /\ \A r \in replies : backups[r.tx] # None
    /\ op.kind = "apply" =>
          /\ op.step # "report" => ~Mentioned(op.tx)
          /\ \A r \in replies : r.tx # op.tx
          /\ op.step \notin {"check", "publish", "arm"} =>
                timer.tx = op.tx /\ timer.state # "off"
    /\ pending # None =>
          /\ \A u \in Tx : ~SavedBy(u, pending)
          /\ ~Said(pending, "committed") /\ ~Said(pending, "rolled_back")
    /\ op.kind \in RollbackKinds /\ op.step \in {"rules", "core", "unlink", "rmdir"} =>
          ManifestTx # pending
    /\ op.kind = "undo" /\ op.step = "timer" =>
          ~Mentioned(op.tx) /\ ~Said(op.tx, "committed")
    /\ \A t \in Tx : Said(t, "rolled_back") => ~Mentioned(t) /\ ~Said(t, "committed")
    /\ TrialOwnsTimer
==============================================================================
