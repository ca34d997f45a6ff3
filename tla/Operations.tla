----------------------------- MODULE Operations -----------------------------
(***************************************************************************)
(* The controller's server: an upgrade (deploy/upgrade_controller.sh), the *)
(* nightly backup (scripts/full_backup.py), the watchdog                   *)
(* (scripts/service_watch.py) and the controller itself, which serves and  *)
(* writes its database and its secret files.  The three scripts keep out   *)
(* of each other's way by /run/lock/pfem-controller-upgrade.lock, which    *)
(* the watchdog holds only while it decides.                               *)
(*                                                                         *)
(* Releases are 0 and 1, and a release's number is the version of the      *)
(* schema it migrates to.  The database has one reference to a secret      *)
(* file, which a request replaces: a new file, the commit, the removal of  *)
(* the old file.                                                           *)
(*                                                                         *)
(* Simplifications: a restore of the database is one step (a kill inside   *)
(* it is left out); systemctl does not fail; the installation links its    *)
(* release already; Caddy, which is not judged while the controller fails, *)
(* is left out; the pause file and the gateway's lock and pending file are *)
(* rounds that do nothing.                                                 *)
(***************************************************************************)
EXTENDS Naturals, FiniteSets

CONSTANTS
    Controller, Gateway,   \* the units that are watched, in the order of UNITS
    Secrets, FirstSecret, None,
    Strikes, Spacing,      \* failed rounds before a restart; rounds from one to the next
    MaxBackups, MaxBusy, MaxReboots   \* bounds

Units == {Controller, Gateway}

Databases == [version : {0, 1}, ref : Secrets]
Requests == [step : {"put", "drop"}, secret : Secrets]
Copies == [step : {"secrets", "release"}, ref : Secrets, version : {0, 1}]

ASSUME OperationsOK ==
    /\ FirstSecret \in Secrets /\ Controller # Gateway
    /\ None \notin Secrets \cup Databases \cup Requests \cup Copies
    /\ Strikes \in Nat \ {0} /\ Spacing \in Nat \ {0, 1}

VARIABLES
    link,       \* the release /opt/private-fixed-egress links to
    prepared,   \* the directory of release 1 exists
    db,         \* controller.db: schema version, reference
    files,      \* the secret files
    unit,       \* "up", "bad" (active, but it does not answer) or "down"
    queued,     \* units with a restart in systemd's queue
    request,    \* a request that replaces the secret, or None
    up,         \* the upgrade: its step, backup_ready, the snapshot
    bk,         \* the backup: its step and the database it copied, or None
    wd,         \* the watchdog: its step and what it saw
    record,     \* service-watch.json: failures, and rounds since the last restart
    backups, busy, reboots   \* how many there were

svcVars == <<unit, queued, request>>
dataVars == <<db, files>>
wdVars == <<wd, record, busy>>
vars == <<link, prepared, dataVars, svcVars, up, bk, wdVars, backups, reboots>>

\* The steps of an upgrade, in order, and those of its rollback.
UpgradeSteps == {"idle", "prepared", "stopped", "saved", "linked", "migrated", "started",
                 "restore", "relink", "restart"}

TypeOK ==
    /\ link \in {0, 1} /\ prepared \in BOOLEAN
    /\ db \in Databases /\ files \subseteq Secrets
    /\ unit \in [Units -> {"up", "bad", "down"}] /\ queued \subseteq Units
    /\ request \in Requests \cup {None}
    /\ up \in [step : UpgradeSteps, ready : BOOLEAN, snapshot : Databases \cup {None}]
    /\ bk \in Copies \cup {None}
    /\ wd \in [step : {"idle", "checking", "deciding"}, seen : [Units -> BOOLEAN]]
    /\ record \in [Units -> [failures : 0..Strikes, age : 0..Spacing]]
    /\ backups \in Nat /\ busy \in Nat /\ reboots \in Nat

NoUpgrade == [step |-> "idle", ready |-> FALSE, snapshot |-> None]

Init ==
    /\ link = 0 /\ prepared = FALSE
    /\ db = [version |-> 0, ref |-> FirstSecret] /\ files = {FirstSecret}
    /\ unit = [u \in Units |-> "up"] /\ queued = {} /\ request = None
    /\ up = NoUpgrade
    /\ bk = None
    /\ wd = [step |-> "idle", seen |-> [u \in Units |-> TRUE]]
    /\ record = [u \in Units |-> [failures |-> 0, age |-> Spacing]]
    /\ backups = 0 /\ busy = 0 /\ reboots = 0

\* The upgrade lock, tried without waiting; a process that ends leaves it.
Free == up.step = "idle" /\ bk = None

-----------------------------------------------------------------------------
(* The controller *)

Serving == unit[Controller] = "up"

\* The backup keeps the write lock of the database.
Copying == bk # None /\ bk.step = "secrets"

\* lifespan(): migrate() comes first, and a release refuses a newer database.
StartController ==
    IF db.version <= link
    THEN unit' = [unit EXCEPT ![Controller] = "up"] /\ db' = [db EXCEPT !.version = link]
    ELSE unit' = [unit EXCEPT ![Controller] = "down"] /\ UNCHANGED db

\* What a request did so far stays.
StopController ==
    /\ unit' = [unit EXCEPT ![Controller] = "down"]
    /\ queued' = queued \ {Controller} /\ request' = None

\* The name is new: nothing refers to it, not even a snapshot.
PutSecret(s) ==
    /\ Serving /\ request = None /\ s \notin files \cup {db.ref}
    /\ up.ready => s # up.snapshot.ref
    /\ files' = files \cup {s} /\ request' = [step |-> "put", secret |-> s]
    /\ UNCHANGED <<link, prepared, db, unit, queued, up, bk, wdVars, backups, reboots>>

\* Mutation: the backup does not hold the database's write lock.
CommitAnytime ==
    /\ Serving /\ request # None /\ request.step = "put"
    /\ db' = [db EXCEPT !.ref = request.secret]
    /\ request' = [step |-> "drop", secret |-> db.ref]
    /\ UNCHANGED <<link, prepared, files, unit, queued, up, bk, wdVars, backups, reboots>>

CommitSecret ==
    /\ Serving /\ request # None /\ request.step = "put" /\ ~Copying
    /\ db' = [db EXCEPT !.ref = request.secret]
    /\ request' = [step |-> "drop", secret |-> db.ref]
    /\ UNCHANGED <<link, prepared, files, unit, queued, up, bk, wdVars, backups, reboots>>

\* The old file after the commit, or the new one after an error.
DropSecret ==
    /\ Serving /\ request # None
    /\ files' = files \ {request.secret} /\ request' = None
    /\ UNCHANGED <<link, prepared, db, unit, queued, up, bk, wdVars, backups, reboots>>

\* A unit hangs; the controller's requests hang with it.
Hang(u) ==
    /\ unit[u] = "up" /\ unit' = [unit EXCEPT ![u] = "bad"]
    /\ UNCHANGED <<link, prepared, dataVars, queued, request, up, bk, wdVars, backups, reboots>>

\* systemd executes a queued restart.
Restart(u) ==
    /\ u \in queued /\ queued' = queued \ {u}
    /\ IF u = Controller THEN StartController /\ request' = None
       ELSE unit' = [unit EXCEPT ![u] = "up"] /\ UNCHANGED <<db, request>>
    /\ UNCHANGED <<link, prepared, files, up, bk, wdVars, backups, reboots>>

-----------------------------------------------------------------------------
(* The upgrade *)

UpgradeStep(from, to) == up.step = from /\ up' = [up EXCEPT !.step = to]

UpgradeRest == UNCHANGED <<prepared, files, bk, wdVars, backups, reboots>>

\* The lock, the checks of the revision, a new directory with the release.
UpgradePrepare ==
    /\ Free /\ link = 0 /\ ~prepared /\ prepared' = TRUE
    /\ up' = [NoUpgrade EXCEPT !.step = "prepared"]
    /\ UNCHANGED <<link, dataVars, svcVars, bk, wdVars, backups, reboots>>

UpgradeStop ==
    /\ UpgradeStep("prepared", "stopped") /\ StopController
    /\ UNCHANGED <<link, db>> /\ UpgradeRest

\* An active job is a failure here (UpgradeFails).
UpgradeSnapshot ==
    /\ up.step = "stopped"
    /\ up' = [step |-> "saved", ready |-> TRUE, snapshot |-> db]
    /\ UNCHANGED <<link, db, svcVars>> /\ UpgradeRest

UpgradeLink ==
    /\ UpgradeStep("saved", "linked") /\ link' = 1
    /\ UNCHANGED <<db, svcVars>> /\ UpgradeRest

UpgradeMigrate ==
    /\ UpgradeStep("linked", "migrated") /\ db' = [db EXCEPT !.version = 1]
    /\ UNCHANGED <<link, svcVars>> /\ UpgradeRest

UpgradeStart ==
    /\ UpgradeStep("migrated", "started") /\ StartController
    /\ UNCHANGED <<link, queued, request>> /\ UpgradeRest

\* /healthz answered: the trap is off.
UpgradeDone ==
    /\ Serving /\ up.step = "started" /\ up' = NoUpgrade
    /\ UNCHANGED <<link, db, svcVars>> /\ UpgradeRest

\* Any command after the stop fails, and rollback() begins.
UpgradeFails ==
    /\ up.step \in {"stopped", "saved", "linked", "migrated", "started"}
    /\ IF up.ready
       THEN StopController /\ up' = [up EXCEPT !.step = "restore"]
       ELSE up' = [up EXCEPT !.step = "relink"] /\ UNCHANGED svcVars
    /\ UNCHANGED <<link, db>> /\ UpgradeRest

RollbackData ==
    /\ UpgradeStep("restore", "relink") /\ db' = up.snapshot
    /\ UNCHANGED <<link, svcVars>> /\ UpgradeRest

\* Mutation: the old code is linked before the old data is back.
RollbackLinkFirst ==
    /\ \/ UpgradeStep("relink", "restart")
       \/ up.step = "restore" /\ link # 0 /\ UNCHANGED up
    /\ link' = 0 /\ UNCHANGED <<db, svcVars>> /\ UpgradeRest

RollbackLink ==
    /\ UpgradeStep("relink", "restart") /\ link' = 0
    /\ UNCHANGED <<db, svcVars>> /\ UpgradeRest

RollbackStart ==
    /\ up.step = "restart" /\ up' = NoUpgrade /\ StartController
    /\ UNCHANGED <<link, queued, request>> /\ UpgradeRest

\* The terminal is lost or the script is killed: no rollback, and the lock is free.
KillUpgrade ==
    /\ up.step # "idle" /\ up' = NoUpgrade
    /\ UNCHANGED <<link, db, svcVars>> /\ UpgradeRest

-----------------------------------------------------------------------------
(* The backup *)

\* The locks, the write lock, the copy of the database, whose secret has to be there ...
BackupBegin ==
    /\ Free /\ backups < MaxBackups /\ db.ref \in files
    /\ bk' = [step |-> "secrets", ref |-> db.ref, version |-> db.version]
    /\ backups' = backups + 1
    /\ UNCHANGED <<link, prepared, dataVars, svcVars, up, wdVars, reboots>>

\* ... the copy of the secret, the end of the write lock ...
BackupSecrets ==
    /\ Copying /\ bk' = [bk EXCEPT !.step = "release"]
    /\ UNCHANGED <<link, prepared, dataVars, svcVars, up, wdVars, backups, reboots>>

\* ... and that of the release, after which the locks are let go; or an error before.
BackupEnd ==
    /\ bk # None /\ bk' = None
    /\ UNCHANGED <<link, prepared, dataVars, svcVars, up, wdVars, backups, reboots>>

-----------------------------------------------------------------------------
(* The watchdog *)

WdRest == UNCHANGED <<link, prepared, dataVars, unit, request, up, bk, backups, reboots>>

Aged == [u \in Units |-> [record[u] EXCEPT !.age = IF @ < Spacing THEN @ + 1 ELSE @]]

\* Every thirty seconds: the first look at the lock.
WatchBegin ==
    /\ wd.step = "idle" /\ Free /\ wd' = [wd EXCEPT !.step = "checking"]
    /\ record' = Aged /\ UNCHANGED <<queued, busy>> /\ WdRest

\* A round that finds the pause file, or the gateway's lock or pending configuration.
WatchSkips ==
    /\ wd.step = "idle" /\ busy < MaxBusy /\ busy' = busy + 1
    /\ record' = Aged /\ UNCHANGED <<queued, wd>> /\ WdRest

WatchCheck ==
    /\ wd.step = "checking"
    /\ wd' = [step |-> "deciding", seen |-> [u \in Units |-> unit[u] = "up"]]
    /\ UNCHANGED <<queued, record, busy>> /\ WdRest

\* decisions(): failures in a row, and who may be restarted.
Failures(u) ==
    IF wd.seen[u] THEN 0
    ELSE IF record[u].failures < Strikes THEN record[u].failures + 1 ELSE Strikes

\* Mutation: a unit may be restarted in every round.
ActionsUnspaced == {u \in Units : Failures(u) = Strikes}

\* Three rounds in a row, and none restarted in the last five minutes.
Actions == {u \in Units : Failures(u) = Strikes /\ record[u].age = Spacing}

\* actions[:1]
Chosen == IF Controller \in Actions THEN {Controller} ELSE Actions

\* Mutation: there is no second look at the lock.
WatchActBlindly ==
    /\ wd.step = "deciding" /\ wd' = [wd EXCEPT !.step = "idle"]
    /\ queued' = queued \cup Chosen
    /\ record' = [u \in Units |-> [failures |-> Failures(u),
                                   age |-> IF u \in Chosen THEN 0 ELSE record[u].age]]
    /\ UNCHANGED busy /\ WdRest

\* One restart, under the lock, unless someone else has it; the counts are kept anyway.
WatchAct ==
    /\ wd.step = "deciding" /\ wd' = [wd EXCEPT !.step = "idle"]
    /\ LET chosen == IF Free THEN Chosen ELSE {}
       IN  /\ queued' = queued \cup chosen
           /\ record' = [u \in Units |-> [failures |-> Failures(u),
                                          age |-> IF u \in chosen THEN 0 ELSE record[u].age]]
    /\ UNCHANGED busy /\ WdRest

-----------------------------------------------------------------------------

\* Every unit is enabled, and the scripts are gone.
Reboot ==
    /\ reboots < MaxReboots /\ reboots' = reboots + 1
    /\ IF db.version <= link
       THEN unit' = [u \in Units |-> "up"] /\ db' = [db EXCEPT !.version = link]
       ELSE unit' = [u \in Units |-> IF u = Controller THEN "down" ELSE "up"] /\ UNCHANGED db
    /\ queued' = {} /\ request' = None
    /\ up' = NoUpgrade /\ bk' = None /\ wd' = [wd EXCEPT !.step = "idle"]
    /\ UNCHANGED <<link, prepared, files, record, busy, backups>>

Upgrade ==
    \/ UpgradePrepare \/ UpgradeStop \/ UpgradeSnapshot \/ UpgradeLink \/ UpgradeMigrate
    \/ UpgradeStart \/ UpgradeDone \/ UpgradeFails
    \/ RollbackData \/ RollbackLink \/ RollbackStart

Backup == BackupSecrets \/ BackupEnd

Watch == WatchBegin \/ WatchCheck \/ WatchAct

Next ==
    \/ \E s \in Secrets : PutSecret(s)
    \/ CommitSecret \/ DropSecret
    \/ \E u \in Units : Hang(u) \/ Restart(u)
    \/ Upgrade \/ KillUpgrade
    \/ BackupBegin \/ Backup
    \/ Watch \/ WatchSkips
    \/ Reboot

\* The scripts go on, the watchdog's timer rings, systemd does what it queued.
Spec ==
    /\ Init /\ [][Next]_vars
    /\ WF_vars(Watch) /\ WF_vars(Backup)
    /\ WF_vars(up.step # "idle" /\ Upgrade)
    /\ \A u \in Units : WF_vars(Restart(u))

-----------------------------------------------------------------------------
(* Properties *)

\* From the stop to the start an upgrade has the database to itself, whatever the watchdog saw
\* or asked for before (service_watch.py:90).
UpgradeIsAlone ==
    up.step \notin {"idle", "prepared", "started"} =>
        unit[Controller] = "down" /\ Controller \notin queued

\* The linked release can open the database, wherever an upgrade or its rollback fails or is
\* killed (upgrade_controller.sh:50): the controller can always be started.
CodeFitsData == db.version <= link

\* While the backup copies, its database's secret is there and the release it copies can open
\* it, with requests in between (full_backup.py:51).
BackupIsWhole ==
    /\ Copying => bk.ref \in files
    /\ bk # None => bk.version <= link

\* A unit that fails comes back, though another may fail again and again, and though an upgrade
\* may have been killed after it stopped the controller (service_watch.py:30).
ServicesReturn == \A u \in Units : unit[u] # "up" ~> unit[u] = "up"

=============================================================================
