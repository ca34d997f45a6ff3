# Formal models of the private fixed-egress network manager

The program is a controller (one Python process: HTTP requests, SQLite, background lanes)
and the gateways it administers over SSH (Debian servers with sing-box, nftables and a few
root-owned Python scripts started by systemd). Its promise is that a phone reaches the
Internet only through the address its subscription names, and that no change of
configuration, failed, interrupted or lost, breaks that.

The modules here model the parts that keep this promise under concurrency and failure. TLC
checks them on small instances; TLAPS proves every safety property of these runs for every
instance, some under a named hypothesis. Paths and lines refer to the repository.

## 1. The system

| component | state it keeps | operations | modelled in |
|---|---|---|---|
| configuration transactions, `gateways/transactions.py` and the units that start it | config.json, firewall.nft, manifest.json, backup directories, the `pending` directory, a transient timer, the running units | apply, commit, rollback (by hand, by the timer, by apply itself), recovery at boot, reconcile, restart | `Transactions`, abstractly `ConfigStore` |
| egress guard, `gateways/guard.py` | guard.json, two nftables sets | one round every 15 seconds | `Guard` |
| rendering and validation, `gateways/configuration.py`, `ingress.py` | none | pure functions: groups to rules, outbounds, firewall | `Rendering` |
| exit configuration jobs, `services/exits.py` | `exit_jobs`, `exit_groups` | enqueue, the configuration lane, apply and commit over SSH, recover | `ExitJobs`, `IspIdentity` |
| subscription groups, `services/groups.py`, `subscriptions.py` | `subscription_groups`, `group_confirmations` | register, activate, edit, prepare and confirm a change of exit, rotate, delete, answer a link | `Subscriptions`, `ExitJobs` |
| health monitor, `services/monitor.py` | statuses and reports of gateways and exits | ask a gateway, record what it reported | `ExitJobs`, `Deployment`, `Subscriptions` |
| gateway jobs and lanes, `services/gateways.py` | `gateway_jobs`, `gateways` | enqueue, take, success, failure, recovery of a lane and of the process | `Deployment`, `ExitJobs` |
| deployment over SSH, `gateways/deployment.py`, `ssh.py`, `bootstrap.sh`, `https_ingress.sh` | what is installed on the server | install, reinstall, verify, harden, commit, inspect | `Deployment` |
| SSH hardening, `gateways/remote_admin.py` | sshd's files, the saved login, a transient timer | harden, commit-harden, rollback-harden | `Deployment` |
| ISP identities, `services/isps.py`, `secrets.py`, `gateways/remote_probe.py` | `isp_exits`, `isp_jobs`, secret files | register, edit, delete, check, recover | `IspIdentity` |
| login, `services/auth.py`, `api/dashboard.py` | `administrator`, `login_attempts`, `sessions` | login page, login in several threads, logout, reset of the password | `Sessions` |
| watchdog, upgrade, backup: `scripts/service_watch.py`, `deploy/upgrade_controller.sh`, `scripts/full_backup.py` | the linked release, the database's version, secret files, units, service-watch.json | a watchdog's round, an upgrade with its rollback, a full backup, requests meanwhile | `Operations` |
| alerts, quality, devices, web pages, migrations | see `PROJECT.json` | | not modelled, or only as guards |

How they interact:

* A request of the administrator changes rows and, for most, inserts one job; a partial
  unique index allows one active job for each gateway (and each ISP). Lanes, one thread
  each, take jobs; the deletion of a subscription group runs a job in the request's thread.
* A job is one or two commands over SSH. The command may run although the controller has
  given up, its answer may be lost, and a command sent earlier may run after a later one.
* On the gateway, one lock (`/run/lock/pfem-gateway.lock`) serialises transactions, the
  guard's decision, hardening and `bootstrap.sh`. Whoever waits for it gives up after ten
  seconds.
* Trials (of a configuration, of a login) are watched by a transient systemd timer that
  undoes them, and the configuration's also by a unit that runs at boot.
* The health lane reads the guard's report and writes the same rows as the jobs; a
  subscription's link rests on these rows.
* On the controller's server, one lock keeps upgrade, backup and the watchdog's decision
  apart; the controller itself takes none of them.

What is hard in it: a kill, an exception or a reboot between any two writes of a
transaction; a commit that meets the timer; the configuration changing during the minute a
guard's round takes; rows that are read before an SSH call and used after it; a lane's
recovery that fails a job of somebody who still runs; secrets that are files while their
references are rows; a password that is reset while it is compared; an upgrade that is
killed between code and data. `PROJECT.json` lists these hazards at their lines.

What makes each part correct:

* transactions: all or nothing; one verdict; what runs is what is installed; a trial is
  always watched by its own timer; every trial ends.
* guard: a port is opened only with evidence for the present configuration; the first soft
  failure after a success takes no open port away; a trial opens nothing.
* rendering: each connection leaves by the exit its group promises, or not at all.
* jobs: one worker for each gateway; READY means deployed; revoked means gone; every job ends.
* subscription groups: a link is answered on fresh evidence only; a change of exit is the
  one that was shown; the AI exit stays on the gateway.
* deployment: the controller always has a way in; an unconfirmed login is undone; success
  means the password login is closed.
* ISPs: the first identity stays; HEALTHY means that identity; routes follow an edit; no
  secret in use is lost.
* login: sessions are of the present password; no window has more comparisons than allowed;
  a lockout ends.
* operations: an upgrade has the database to itself; the linked release can open it; a
  backup is of one moment; services come back.

## 2. The modules

`ConfigStore` is the abstract promise of a gateway: one installed set of files, at most one
proposal, accepted as a whole or abandoned. `Transactions` implements it (an INSTANCE with a
refinement mapping: while `pending` exists, the installed set is the snapshot). `ExitJobs`
uses it in turn: its gateway is the abstract store behind a connection that loses and delays.
`Guard`, `IspIdentity` and `Subscriptions` reduce a gateway's transaction to what they can
tell apart. `Rendering` says what a configuration, which the others pass around whole, means.

**Transactions.** One action for each file operation, unit command or removal, so that a
fault may fall between any two. `op` is the process that holds the lock: its kind (apply,
undo, timer, manual, boot, commit, reconcile, restart), its transaction and its next step.
`Raise` is the `except` of apply(), which becomes an undo once `pending` exists; `Kill` and
`Reboot` drop the process; a reboot also drops the transient timer and the kernel's rules and
queues the boot's start jobs, whose dependencies (`Requires`, `After`) are guards of the boot
actions. `backups[t]` is the directory of a transaction, never removed, which is why an
identifier is never used twice. `replies` is a history variable: the verdicts that callers
were told.

**Guard.** One action for each half of a round: the snapshot under the lock, one probe per
route, the second look, the nft transaction, its failure and the flush, guard.json.
`evidence` is a history variable: the last definite outcome for a route under a transaction.
Loading the firewall file again flushes the rules of a table and not the elements of its
sets (external: nft), so the sets outlive a rollback; a reboot empties them. The lease of the
plain ports may lapse at any time. An update may find only one of the two sets (`Replace`), of
which `skipped`, a history variable, keeps note. A failure adds to the route's streak, up to
`MaxStreak`. `TakeOver` is what an older release left behind: one verdict for the whole gateway,
read as rows of the present kind.

**Rendering.** validate() and render() as operators that follow the loops of the code;
sing-box and nft are external, first match first. `Promised` is written independently, from
what a group means; the properties compare the two for each connection. The paths of the
HTTPS ingress are ports too. Two things the model shows beside: the ingress' pattern for
paths also accepts 13000, the port of the probe of exit 1000; and validate() refuses more
than 20 clients of a gateway, which the controller does not limit, so that a gateway's 21st
subscription fails its job.

**ExitJobs.** `work` holds the two kinds of workers, the lane and the request's thread of a
deletion, each with what it read (`groups`, `token`). `net` and `mail` are commands and
answers under way: a worker may give up and the command still runs. `RemoteGetsStuck` is a
gateway that answers no and could not undo. The guard's report is arbitrary here. `deleted`
and `stranded` are history variables: whether a deletion went through the gateway, and which
deletions failed and could not even record that.

**Subscriptions.** The same rows from the side of the administrator and of the phone: which
exit and AI exit a group has, shown on which page to whom, confirmed with which token; and
what `_record()` answers when the link is fetched. Time is one step, `Tick`, after which what
was observed is older than two minutes and what was shown older than five. `page` and `seen`
are history variables: the last page about a group, the exits observed since the last tick.

**Deployment.** The lane walks the steps of deploy(); the server runs one command at a time
under the lock, and a command may outlive the job that sent it. `conf` is what sshd's files
say, `sshd` what the running daemon does, `backup` the saved login whose existence means a
change on trial. The file of the first credential is removed after the rows of a success are
written, and a file that stays makes the success a failure (`ForgetCredential`,
`CredentialStays`). `confirmed` and `excused` are history variables.

**IspIdentity.** A connection is named by its secret's reference. Requests run in threads and
keep what they read; the ISP lane and the configuration lane keep what they read; the rows of
a job are read in one step and their secrets in another, as in desired(). A probe reports one
of several addresses or none. `crossed` and `raced` are history: whose last edit had read an ISP
without an identity and was stored after a check had pinned one, and which exits were first
applied during an edit.

**Sessions.** The two transactions of a login with the comparison between them, in several
threads; attempts and sessions have ages, which `Tick` advances. `guesses` is a history
variable: the comparisons since a source last got in.

**Operations.** Each command of the upgrade and of its rollback is an action, each of which may
fail or be the last; the backup copies the database in one step and the secrets in another;
the watchdog looks, looks again, decides and asks for a restart, which systemd executes later
(`queued`). A request replaces a secret file in its three steps. Releases are 0 and 1.

Each `...Proofs` module holds the theorems about the module it is named for, `GatewayProofs`
those about `Guard` and `Rendering`; the `MC` modules hold the instances.

Definitions whose comment starts with "Mutation:" are variants of the one that follows, as a
plausible mistake would have it (a missing check, a swapped order). No specification uses
them. For each property of a passing run, `PROJECT.json` names a mutation under which TLC
finds it violated.

Simplifications are listed at the head of each module. Common to all: a request that is
refused before it writes anything is an action that is not enabled; a transaction of the
database is one step; messages, wording, audit rows and statistics are left out.

## 3. The runs

Bounds are the CONSTANTS of the `.cfg` files. Sets named `FailAt`, `KillAt`, `RebootAt`,
`GiveUpAt`, `DbFailAt`, `RestartAt` say where a fault may strike; `MaxFaults` says how often.

| run | what it shows | bounds |
|---|---|---|
| `transactionsSafety` | what runs is what is installed; one verdict; a trial is left to its caller with its own timer; "committed" is said only of the installed version; the steps are those of `ConfigStore` | 3 transactions, 2 topologies, 3 faults, requests served before the boot's recovery too |
| `transactionsLiveness` | every trial ends, the core comes back | 2 transactions, 1 topology, 2 faults |
| `guard` | what is opened is backed by evidence; the first soft failure after a success closes nothing; a trial opens nothing | 2 transactions, 2 routes, 2 clients, 3 layouts (a client moved, a route disabled), 2 faults, any call of nft may fail, an older release's guard.json |
| `rendering` | each connection leaves by the exit its group promises; nothing else leaves; no two doors have one port | every list of two groups with up to two clients, at both ends of the identifiers, with AI exits of every kind, and twelve lists that are refused |
| `exitJobs` | READY is deployed; a revoked client is not served again; one worker; success means installed | 2 exits (one direct), 2 groups, 3 jobs, 1 fault, a lost answer at any point but in the commit of a deletion |
| `exitJobsLiveness` | jobs end; APPLYING means a running job | 1 exit, 1 group, 2 jobs, 1 health check, 1 guard round, 1 rotation, 2 faults, lost answers and database failures anywhere |
| `exitJobsOrphan` | a violation: see section 5 | 1 exit, 2 groups, 3 jobs, no fault |
| `subscriptions` | a link is answered on fresh evidence; READY is routed; the AI exit stays at home; a change is the one shown | 3 exits on 2 gateways (one direct), 1 group, 2 administrators, 2 tokens |
| `deployment` | a way in; DEPLOYING and CHECKING mean a running job; success means hardened; a login change is decided; jobs end | 3 jobs of any kind, 3 faults: lost answers, kills of any command but the rollback, reboots, restarts, holders of the lock over ten seconds |
| `ispIdentity` | HEALTHY is the identity, however it was pinned; the identity stays; no secret in use is lost; routes follow an edit; checks end | 1 ISP, 1 exit, 1 request at a time beside the two lanes, 2 addresses, 3 secrets, 1 restart or database failure |
| `sessions` | sessions are of the present password; the limits hold; a lockout ends | 2 threads, 2 sources, 2 passwords, 2 tokens, a window of 2, limits 2 and 3 |
| `operations` | the upgrade is alone; the linked release fits the data; a backup is of one moment; services come back | 1 upgrade, 1 backup, 1 reboot, 1 round that finds somebody busy, 2 secrets, 2 strikes, 2 rounds between restarts |

Why these are enough: the interesting cases need a present transaction, an earlier one and a
later one (three), with an apply that rolls back over files of another topology (two); a
transaction can be struck, its rollback struck, and the recovery after that struck once more
(three faults). Two exits with two groups give a job whose snapshot another group changes
under it; three jobs give a failed job, a late command and a deletion. An edit of an ISP after
its registration, and one more that fails, need three secrets; what several edits at once do
is proved (section 6). A group whose AI exit differs from its own, with a third exit it may
not choose, needs three exits on two gateways. Two logins and a window of two ages give a
login that overlaps a reset, a lockout and its end. Identifiers, jobs and secrets are used up,
and an idle system may stop, hence `CHECK_DEADLOCK FALSE` where they are; `Transactions` is
checked for deadlock, since a reconcile is always possible.

`SYMMETRY` is used in safety runs only (`transactionsSafety`: transactions and topologies;
`exitJobs`: all transactions but the first, and groups; `subscriptions`: tokens and
administrators). No property, fairness condition or initial state tells these apart.

## 4. Fairness

* `Transactions`: the holder of the lock goes on (weak); systemd works off its start jobs and
  timers (weak). The rollback's service has `Restart=on-failure` and `RestartSec=5s` and waits
  ten seconds for the lock, and recover-config waits ten seconds: strong fairness, for a lock
  that keeps becoming free. No request, kill or reboot is owed.
* `ExitJobs`: both workers go on (weak); an SSH call ends by its timeout. Nothing is owed by
  the gateway: an answer may never come, and then the worker gives up.
* `Deployment`: the lane, the server and the timer go on (weak); the rollback obtains the
  lock (strong) unless somebody keeps it over ten seconds, which is an action of its own.
* `IspIdentity`: both lanes go on (weak); probes and calls end by their timeouts.
* `Sessions`: time passes (weak on `Tick`). Nobody owes a login.
* `Operations`: the watchdog's timer, a backup or upgrade that has begun, and systemd's queue
  go on (weak). Nothing is owed by requests, and a unit may fail again at any time.

## 5. Windows the passing runs exclude

Where a property holds except in a narrow window, the run excludes that window by the sets
above, by a history variable or by a simplification, and it is named here with the change
that shows it.

`exitJobsOrphan` is a run of its own: only run_next() writes `deployed_exit_id`. A group whose
own job failed before the gateway was asked, and which another group's deletion then installs
with everything else, counts as never deployed; deleting it does not ask the gateway
(`groups.py:280`), although `USER-GUIDE.md:148` says the gateway is asked first.

Three more disagreements of the code with its documents are kept as configurations that stop at
a counterexample, beside the runs. The property the run checks instead is bounded to what the code
does, and the run's own bounds contain the disagreement.

`MCGuardSkipped.cfg` (`MismatchCloses`): lease() takes any nonzero result of `nft list set` for
the absence of the HTTPS set, does not touch that set and reports nothing (`guard.py:51`). The
mismatch that a round has just found then closes the plain port only; guard.json says the route
is closed, and without LEASE_UPDATE_FAILED. `ARCHITECTURE.md:33` and `USER-GUIDE.md:21` say it
is closed at once. What holds, and is proved, is `OpenIsVerified`: about both sets where both
were updated, and about the plain ports where the other was skipped.

`MCGuardStreak.cfg` (`FailuresInARowClose`): `ARCHITECTURE.md:33` grants one short period of
grace and lets failures in a row close the route. The code counts them in failure_streak and
never reads it (`guard.py:208`): a route that was once verified stays open through any number of
soft failures, as `tests/test_guard.py:61` and `USER-GUIDE.md:195` want it. What both sides
promise is `GraceKeepsOpen`: the first soft failure after a success does not close the route.

`MCIspIdentityCrossed.cfg` (`OtherAddressRefused`): an edit compares the address it measured
with the identity it read before (`isps.py:237`), but stores it under the identity it reads when
it writes (`isps.py:248`). If a check pins the ISP's first identity in between, the edit stores
another address as HEALTHY, although `USER-GUIDE.md:127` says this is refused.
`HealthyIsExpected` leaves out exactly an ISP whose last edit was stored so (`crossed`), until
its next check; it covers identities that were typed, and those that a check or an edit pinned.

Transactions (`FailAt`, `KillAt`, `RebootAt` of its two runs):

* A kill between the removal of meta.json and that of its directory (`HalfRemoved`,
  `transactions.py:339`) leaves a directory no rollback can read: `EventuallyDecided` fails.
* A recovery at boot that raises once is not tried again, the unit being a oneshot without
  `Restart=` (`FailAt` with `<<"boot", "config">>`): the comment at `transactions.py:381` speaks
  of retries.
* A kill after `pending` is published and before the timer is armed leaves the trial to the
  next boot or to root (`<<"apply", "arm">>`).
* A request that is served after a boot and before its recovery (`QuietBoot = FALSE`): a rollback
  by hand takes the start of the core out of systemd's queue. Nothing in the code orders the two,
  and the safety run has them in any order; the liveness run has `QuietBoot = TRUE`.
* commit() accepts a transaction whose rollback failed after restoring some files, the
  manifest being restored last (`HalfRestored`, `transactions.py:336`): `RunningIsInstalled`,
  `AcknowledgedIsInstalled` and `ImplementsStore` fail. The proofs name this hypothesis
  `RestoreIsAtomic`.

Guard (`KillAt`):

* A round killed between the sets and guard.json forgets a hard failure: the next round, with
  a timeout only, opens again what was closed for cause (`guard.py:241`; add `"write"` to
  `KillAt` and `OpenIsVerified` fails). The proofs name this hypothesis `CutsBeforeUpdate`.
* An update that failed may have left anything in the sets: while guard.json holds
  LEASE_UPDATE_FAILED, `OpenIsVerified` and `GraceKeepsOpen` say nothing of them.
* Not visible in the properties: the first timeout after any
  reconfiguration closes a verified route, guard.json of another transaction being dropped
  (`guard.py:83`); a configuration replaced and restored during a round compares equal
  (`guard.py:185`); ports of the previous configuration stay open for the one on trial
  (`transactions.py:300`); a client's port does not depend on the exit of its AI traffic.

Exit jobs (`GiveUpAt`, `DbFailAt`, `RestartAt`, `MaxTokens`):

* A deletion whose commit answer is lost, or that is interrupted or finds the link rotated
  after its commit, keeps a READY row the gateway no longer serves (`groups.py:331`):
  `ReadyIsDeployed` fails.
* The lane's recovery also fails the RUNNING row of a deletion in a request's thread
  (`exits.py:311`), which goes on beside the next job: `OneWorker`, `RevokedIsRemoved` and
  `SucceededIsInstalled` fail with `<<"lane", "take">>` in `DbFailAt`.
* The write that records the failure of a deletion may fail itself: it stands in the `except`
  block (`groups.py:369`), with nothing around it. The row stays RUNNING and its unique index
  keeps every other job of the gateway out, until a restart or the next failure of the exit lane
  recovers it. `stranded` names these deletions; `JobsFinish` excuses them and no other job.
* A job that fails after its gateway committed leaves the exit HEALTHY (`exits.py:390`, against
  `ARCHITECTURE.md:53`); a health report made before an apply that has ended overwrites its
  result (`monitor.py:146`, against the comment at line 150).

Subscriptions (`SoftFails`):

* An exit that uses the gateway's own address has no test of its own: its link rests on the
  guard's report, which counts a route in its period of grace as verified. With a direct exit
  in `SoftFails`, `ServedIsVerified` fails (`subscriptions.py:187`); for an ISP's exit it does
  not. The proof names this hypothesis `GraceIsForIsps`.

Deployment (`excused`, `KillAt`):

* The rollback of a login change is a transient timer. A reboot within its 90 seconds loses it,
  and nothing at boot undoes the change (`remote_admin.py:185`; `gateways/README.md:11` promises
  the rollback without this condition). Later hardenings are refused. So does a holder of the
  lock that takes over ten seconds when the timer fires: rollback-harden gives up for good
  (`remote_admin.py:258`). A harden or commit-harden that is killed leaves no timer or a
  stopped one. `HardeningDecided` excuses a change to which one of these happened.
* A rollback killed after restoring the files looks like a change on trial, and a commit then
  confirms a login that is open (`remote_admin.py:269`): `DeployedIsHardened` fails with
  `"rollback"` in `KillAt`. The proof names this hypothesis `RollbacksFinish`.
* A check within the 90 seconds succeeds on the trial login and drops the first credential,
  after which the timer restores the password login (`gateways.py:283`). The keys stay, so
  `NeverLockedOut` holds.
* The file of the first credential is removed after the success is recorded: if that fails, the
  same `except` records a failed job and gateway over what is deployed and hardened
  (`gateways.py:297`). The model does this too (`CredentialStays`): `DeployedIsHardened` is about
  the record of the success, and nothing says that a job recorded as failed was not deployed.

ISPs (`MayExpire`, `raced`, `HomeOf`; `crossed` is above):

* update_connection() stores HEALTHY with a date that has passed (`isps.py:250`;
  `isps/README.md:11` says an expired ISP cannot be shown Healthy). No property speaks of dates;
  the run leaves them out (`MayExpire = FALSE`), the proofs do not.
* An edit during the first job of an exit is not followed by another one (`isps.py:295`):
  `RoutesFollow` leaves out the exits of this race (`raced`). Only the ISP's own gateway gets a
  job (`isps.py:305`): `RoutesFollow` fails with exits on another gateway.

Operations (mostly simplifications of the module):

* A rollback after the new release has served edits restores rows whose old secret files were
  deleted meanwhile (`deploy/README.md:102` speaks of the database only). The model does this
  too: no property says that the database's secret exists, and a backup begins only when it does.
* A kill inside the restore of the database leaves a torn file: the restore is one step.
* The watchdog is killed (`TimeoutStartSec=25`) between a restart and the write of its state, and
  forgets the restart: the two are one step, spacing is only as good as that write.
* A restart is queued with `--no-block` and executed after the locks are released: `queued`
  models it, and `UpgradeIsAlone` holds because a stop cancels it.
* An upgrade killed after its stop is not resumed by anybody; the watchdog brings the service
  back, with the old release or the new.
* An installation from before the release links is moved first (`mv`), with a moment without
  any; a failing systemctl keeps one slot of the queue busy. Neither is modelled.
* lifespan() migrates before it takes the worker's lock, so that a second process may migrate
  under the first: one process is assumed.

## 6. What is proved

For every value of the constants (any number of transactions, exits, groups, requests,
threads, faults), from the assumptions named in the modules, which say little more than that
None is none of the values it stands beside and that sums have finitely many terms:

| module | theorem | states |
|---|---|---|
| `TransactionsProofs` | `TypeCorrect`, `SnapshotFirst` | `TypeOK`, `SnapshotBeforePending` |
| | `Verdicts`, `Watched` | `OneVerdict` and `TrialOwnsTimer`; `TrialIsWatched`: faults anywhere |
| | `Inductive`, `InstalledRuns`, `Acknowledged`, `Implementation` | `IInv`, `RunningIsInstalled`, `AcknowledgedIsInstalled`, `ImplementsStore`, under `RestoreIsAtomic` |
| | `Decided` | `PendingHasDecider`, under `Watchful` |
| | `CoreBack` | `CoreIsBack`, under `QuietBoot` |
| `GatewayProofs` | `GuardTyped`, `TrialKeepsShut` | `TypeOK`, `TrialOpensNothing` of `Guard` |
| | `GraceKeeps` | `GraceKeepsOpen`: rounds cut anywhere, any call of nft failing |
| | `Verifies` | `OpenIsVerified`, under `CutsBeforeUpdate` |
| | `GuardsStore` | `StoreSpec` of `ConfigStore`: the guard's environment is the abstract store |
| | `Leaving`, `Firewalled`, `Doors` | `LeavesByItsExit`, `OnlyPromisedLeaves`, `DoorsAreApart` of `Rendering` |
| `ExitJobsProofs` | `ExitTyped`, `JobsStore` | `TypeOK`; the gateway takes only steps of `ConfigStore` |
| | `WorkersExclude`, `RevocationIsFinal`, `SuccessIsInstalled` | `OneWorker`, `RevokedIsRemoved`, `SucceededIsInstalled`, under `TakesSucceed` |
| | `ReadyClientsAreDeployed` | `ReadyIsDeployed`, under `TakesSucceed`, `DeletionsEnd` and `LinkKept` at every step |
| | `ApplyingMeansRunning` | `ApplyingIsRunning`, under `TakesSucceed` |
| | `JobsHaveWorkers` | `RunningHasWorker`: it has one, or is in `stranded` |
| `DeploymentProofs` | `DeploymentTyped`, `KeysOrCredential`, `RunningIsShown`, `WorkedOn` | `TypeOK`, `NeverLockedOut`, `BusyIsShown`, `RunningIsWorkedOn` |
| | `SuccessIsHardened`, `Attended` | `DeployedIsHardened`, under `RollbacksFinish`; `ChangeIsWatched`, with no kill in the middle of the login's rollback |
| `SubscriptionsProofs` | `GroupsTyped`, `Routed`, `AtHome`, `AsShown` | `TypeOK`, `ReadyIsRouted`, `AiIsAtHome`, `ConfirmedAsShown` |
| | `Verified` | `ServedIsVerified`, under `GraceIsForIsps` |
| `IspIdentityProofs` | `Typed`, `Kept`, `Expected`, `Pinned`, `CheckingEnds` | `TypeOK`, `SecretsKept`, `HealthyIsExpected`, `IdentityPinned`, `CheckingIsChecked` |
| | `Followed` | `RoutesFollow`, under `ExitsAtHome` |
| `SessionsProofs` | `Current`, `CountedFirst`, `Limits`, `LockoutFades` | `SessionIsCurrent`; that every comparison has its row in the limiter first; `LimitHolds`, `LockoutIsNotProlonged` |
| `OperationsProofs` | `Alone`, `Fits`, `Whole`, `Starts` | `UpgradeIsAlone`, `CodeFitsData`, `BackupIsWhole`, `StartsSucceed` |

The hypotheses are the windows of section 5. `RestoreIsAtomic`: no fault between the restored
config.json and the restored manifest.json. `QuietBoot`: no request before the boot's recovery;
`Watchful`: that, and no fault in the first three windows of the transactions.
`CutsBeforeUpdate`: no round of the guard is killed between the sets and guard.json.
`ExitsAtHome`: an exit is on the gateway of its ISP. `GraceIsForIsps`: the guard answers for
every direct exit.
`TakesSucceed`: the transaction that takes a job does not fail (otherwise the lane's recovery
declares a deletion dead that goes on). `DeletionsEnd`: no deletion is cut off between its
confirmation and its record. `LinkKept`: no link is rotated while it is deleted.
`RollbacksFinish`: no kill or reboot in the middle of the login's rollback.

The arguments:

* **Transactions.** `RunningIsInstalled` speaks of idle states and is not inductive: it says
  nothing of an apply half way. `IInv` says at each step of each process what the three files
  hold (`FilesInv`), whose transaction the process works on (`OwnerInv`), what the units have
  loaded and that apply and rollback keep the core down while they write (`UnitsInv`); and, for
  the next apply, that every manifest or snapshot names a version some apply rendered, never the
  one that replaced it (`HistoryInv`). The refinement follows step by step: only the creation of
  `pending` proposes, only the removal of meta.json by commit accepts, only that by a rollback
  abandons. `OneVerdict` has an invariant of its own, `VerdictInv`, which does not depend on what
  the files hold and needs no assumption on faults: once rolled back, nothing names the
  transaction; once committed, its backup directory keeps it from being used again.
* **Guard.** `GuardInv`: which version is installed, saved, on trial and run (`TrialInv`); that a
  round that publishes saw the version that is installed, and that what it opens is backed by
  `evidence` (`RoundInv`); that what the sets and guard.json hold is backed too, for the version
  that is installed or that a rollback brings back (`SetsInv`), because the sets outlive both.
  That a trial opens nothing rests on `TrialInv` and the lock alone (`SeenInv`: a round that
  updates the sets has the manifest it saw), and holds wherever rounds are cut.
* **One store.** `Implementation` says that the transactions are `ConfigStore`; `GuardsStore` and
  `JobsStore` say that what the guard and the exit jobs see of a gateway are its steps too. The
  three modules hang together there. In the guard's, the files of a trial count as installed
  when it is committed; until then its rollback brings the old ones back.
* **Rendering.** `Rendered`: the lists are those of groups that validate() accepts, in which no
  identifier occurs twice (`Distinct`), hence a listener belongs to one group and one client
  (`OneHome`, `OneClient`). What decides a connection is found part by part: rules that follow a
  decision do not change it (`DecidesBefore`), nor do rules before it that do not mention the
  listener (`DecidesAfter`, `DecidesAmong`); so a client's rules decide alone, whatever groups
  surround it. The parts are joined by a recursive function; what it yields is proved by
  induction over a set of numbers (`NumbersInduction`), which needs no operator as parameter.
* **Subscriptions.** `GroupsInv`: what a job has read is still true of the database, every edit of
  a client waiting for it (`JobInv`); a token that is stored belongs to the last page about its
  group (`PageInv`). The evidence behind a link (`SeenInv`) is a
  second invariant over the first.
* **IspIdentity.** `IspInv`: who owns a secret (a row, or one request between its put and its
  commit) (`SecretInv`); what a request that probes has read of a row that cannot have changed
  its identity since (`EditInv`); shapes and counters (`RowsInv`). `RouteInv` is a second
  invariant over it: a gateway's job runs exactly while the lane works on it (`JobInv`), and what
  the lane carries from the rows through their secrets to the gateway is still what the rows say
  (`CarriedInv`), because an edit fails as a whole while its gateway has a job.
* **Sessions.** Hashes are salted, hence never the same twice, which is what makes the second look
  at the hash enough. The limits are about sums over ages and sources, recursive functions over
  finite sets: what one more row, older rows and fewer rows do to them is proved by induction over
  subsets (`SubsetsInduction`, `SumMore`, `SumOlder`, `SumLess`). The rest is `GuessesHaveRows`:
  a comparison has its row before it starts, so the rows the limiter counts bound it.
* **Operations.** `OpsInv` follows the upgrade's steps: from the stop on nothing is queued for the
  controller, and the snapshot is of a version the old release can open.
* **ExitJobs.** Two workers and one gateway, which may be at work for a worker that has left.
  `RowInv` holds whatever fails: one row is active, and a worker's row stays.
  `JobInv`: at most one row is active, and a worker runs its own. `NetInv`: a transaction has one
  command or one answer under way, and a worker that waits is the one it is for. `GatewayInv`:
  what a worker was told is installed stays so until its own next step: nothing under way can
  decide against it. `RevokedInv` adds that no topology still to be installed names a deleted
  client. `ReadyInv` says the property itself of every commit, and rests on what a deletion knows
  (`DeletionInv`) and what the lane read (`KnownInv`). `ApplyingInv` ties the status to the row, and
  needs `StrandedInv`: a stranded deletion has begun, so that no lane takes it.
* **Deployment.** `RowInv`: the lane works on the one active row. `AccessInv` needs no more: the
  first credential goes only at a success, and every way there passes the finished bootstrap.sh.
  `DeployedIsHardened` is about commands of earlier jobs, which live on at the server: numbers
  keep them apart (`IdInv`, `MailInv`), a job's harden is sent once and outlives no later one
  (`HardenInv`), hence from its answer on only a rollback changes the login (`TrialInv`), and from
  the answer to commit on nothing does (`DoneInv`).
* **What liveness rests on.** TLAPS cannot state that an action stays enabled, so the eight
  liveness properties are TLC's. What is proved is the safety in them: that no step leaves
  behind something that has to end and nobody who would end it. A transaction that is let go of
  on trial has a meta.json and a timer, or the recovery of a boot (`Decided`); a rollback ends with
  the core up (`CoreBack`). A change of the login has its timer, or the command that holds the lock
  (`Attended`). A RUNNING job has its thread, or a recovery to come (`WorkedOn`,
  `JobsHaveWorkers`, but for a stranded deletion), and CHECKING its check (`CheckingEnds`). A
  lockout only fades (`LockoutFades`: of sources that are locked out, which no step gives a new
  row). Whoever starts the controller finds a database it can open (`Starts`).

Only model-checked: what needs fairness, that is `EventuallyDecided`, `CoreReturns`,
`JobsFinish` of `ExitJobs` and of `Deployment`, `HardeningDecided`, `ChecksFinish`,
`LockoutEnds` and `ServicesReturn`.

## 7. Plan

1. Which hypotheses of section 6 can be narrowed: to transactions, clients or routes the window
   did not touch, instead of runs without it.
2. A guard with a clock: the 70 second lease, rounds that skip, more routes than a round's
   budget.
3. Alerts, one open row per condition; devices of a group; the lock that keeps a second
   controller out.
4. `Subscriptions` composed with `ExitJobs`, so that lost answers meet renewed applications.

## 8. Not modelled, and why

Hashing, TLS, SSH and SQLite are taken to work. Texts of subscriptions and pages are data
without interleaving. Quality samples have no influence on routes. Alerts are a function of the
rows that one lane applies once a minute, devices are rows without interplay. Migrations run at
start, one after another in one transaction; of them only the version is modelled. The manual
backup and a restore on another server run while the services are stopped. Clocks: timers elapse
at any time after they are armed, a test of an ISP becomes stale at any time.

## Running

    tlc -config MCTransactionsSafety.cfg MCTransactions
    tlapm TransactionsProofs.tla

and likewise for each row of the table in section 3: the configuration is `MC` and the run's
name, the module the one it instantiates; `MCGuardSkipped.cfg`, `MCGuardStreak.cfg` and
`MCIspIdentityCrossed.cfg` end at their counterexamples.
