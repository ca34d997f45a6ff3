--------------------------- MODULE OperationsProofs ---------------------------
(***************************************************************************)
(* Proofs about Operations: an upgrade, however it ends, has the database  *)
(* to itself and leaves a release linked that can open it; a backup is of  *)
(* one moment.  OpsInv is inductive, for any number of secrets, strikes,   *)
(* reboots and backups.                                                    *)
(***************************************************************************)
EXTENDS Operations, TLAPS

\* What each step of the upgrade has done so far, and what a rollback will find.
UpgradeInv ==
    /\ up.step \in {"prepared", "stopped", "saved"} => link = 0
    /\ up.step \in {"linked", "migrated", "started"} => link = 1
    /\ up.step = "restart" => link = 0
    /\ up.step \in {"stopped", "relink", "restart"} => db.version = 0
    /\ up.step \in {"saved", "linked", "migrated", "started", "restore"} => up.ready
    /\ up.step \in {"idle", "prepared", "stopped"} => ~up.ready
    /\ up.ready => up.snapshot \in Databases /\ up.snapshot.version = 0

\* A request ends with the controller, and never removes the secret in use.
RequestInv ==
    /\ unit[Controller] = "down" => request = None
    /\ request # None => request.secret # db.ref

\* The lock keeps the backup and the upgrade apart, the write lock keeps the reference.
BackupInv ==
    /\ bk # None => up.step = "idle"
    /\ Copying => bk.ref = db.ref

OpsInv ==
    /\ TypeOK /\ UpgradeInv /\ RequestInv /\ BackupInv
    /\ UpgradeIsAlone /\ CodeFitsData /\ BackupIsWhole

\* An installed controller with nothing under way.
LEMMA OpsInit == Init => OpsInv
<1> SUFFICES ASSUME Init PROVE OpsInv
  OBVIOUS
<1> USE OperationsOK DEF Init, NoUpgrade, Units, Databases
<1>1. TypeOK
  <2>1. up \in [step : UpgradeSteps, ready : BOOLEAN, snapshot : Databases \cup {None}]
    BY DEF UpgradeSteps
  <2>2. record \in [Units -> [failures : 0..Strikes, age : 0..Spacing]]
    OBVIOUS
  <2>3. wd \in [step : {"idle", "checking", "deciding"}, seen : [Units -> BOOLEAN]]
    OBVIOUS
  <2> QED BY <2>1, <2>2, <2>3 DEF TypeOK
<1>2. UpgradeInv /\ RequestInv /\ BackupInv
  BY DEF UpgradeInv, RequestInv, BackupInv, Copying
<1>3. UpgradeIsAlone /\ CodeFitsData /\ BackupIsWhole
  BY DEF UpgradeIsAlone, CodeFitsData, BackupIsWhole, Copying
<1> QED BY <1>1, <1>2, <1>3 DEF OpsInv

\* Every value stays in its set, whatever fails, is killed or restarts: a rollback finds a
\* snapshot.
LEMMA TypeStep == TypeOK /\ UpgradeInv /\ [Next]_vars => TypeOK'
<1> SUFFICES ASSUME TypeOK, UpgradeInv, [Next]_vars PROVE TypeOK'
  OBVIOUS
<1> USE OperationsOK DEF
      TypeOK, Units, Databases, Requests, Copies, UpgradeSteps, NoUpgrade, Serving, Copying,
      Free, StartController, StopController, UpgradeStep, UpgradeRest, WdRest, Aged,
      svcVars, dataVars, wdVars
<1>1. ASSUME NEW s \in Secrets, PutSecret(s) PROVE TypeOK'
  BY <1>1 DEF PutSecret
<1>2. CASE CommitSecret BY <1>2 DEF CommitSecret
<1>3. CASE DropSecret BY <1>3 DEF DropSecret
<1>4. ASSUME NEW u \in Units, Hang(u) PROVE TypeOK'
  BY <1>4 DEF Hang
<1>5. ASSUME NEW u \in Units, Restart(u) PROVE TypeOK'
  BY <1>5 DEF Restart
<1>6. CASE Upgrade
  <2>1. CASE UpgradePrepare BY <2>1 DEF UpgradePrepare
  <2>2. CASE UpgradeStop BY <2>2 DEF UpgradeStop
  <2>3. CASE UpgradeSnapshot BY <2>3 DEF UpgradeSnapshot
  <2>4. CASE UpgradeLink BY <2>4 DEF UpgradeLink
  <2>5. CASE UpgradeMigrate BY <2>5 DEF UpgradeMigrate
  <2>6. CASE UpgradeStart BY <2>6 DEF UpgradeStart
  <2>7. CASE UpgradeDone BY <2>7 DEF UpgradeDone
  <2>8. CASE UpgradeFails BY <2>8 DEF UpgradeFails
  <2>9. CASE RollbackData BY <2>9 DEF RollbackData, UpgradeInv
  <2>10. CASE RollbackLink BY <2>10 DEF RollbackLink
  <2>11. CASE RollbackStart BY <2>11 DEF RollbackStart
  <2> QED
    BY <1>6, <2>1, <2>2, <2>3, <2>4, <2>5, <2>6, <2>7, <2>8, <2>9, <2>10, <2>11 DEF Upgrade
<1>7. CASE KillUpgrade BY <1>7 DEF KillUpgrade
<1>8. CASE BackupBegin BY <1>8 DEF BackupBegin
<1>9. CASE Backup BY <1>9 DEF Backup, BackupSecrets, BackupEnd
<1>10. CASE WatchBegin BY <1>10 DEF WatchBegin
<1>11. CASE WatchSkips BY <1>11 DEF WatchSkips
<1>12. CASE WatchCheck BY <1>12 DEF WatchCheck
<1>13. CASE WatchAct BY <1>13 DEF WatchAct, Chosen, Actions, Failures
<1>14. CASE Reboot BY <1>14 DEF Reboot
<1>15. CASE UNCHANGED vars BY <1>15 DEF vars
<1> QED
  BY <1>1, <1>2, <1>3, <1>4, <1>5, <1>6, <1>7, <1>8, <1>9, <1>10, <1>11, <1>12, <1>13, <1>14,
     <1>15 DEF Next, Watch

\* RollbackData undoes every version the new release wrote before RollbackLink, nothing starts
\* the controller in between, and the secret in use is never the one a request removes.
LEMMA OpsStep == OpsInv /\ [Next]_vars => OpsInv'
<1> SUFFICES ASSUME OpsInv, [Next]_vars PROVE OpsInv'
  OBVIOUS
<1> DEFINE Rest == UpgradeInv /\ RequestInv /\ BackupInv
                   /\ UpgradeIsAlone /\ CodeFitsData /\ BackupIsWhole
<1>a. TypeOK /\ TypeOK' /\ Rest
  BY TypeStep DEF OpsInv
<1>b. SUFFICES Rest'
  BY <1>a DEF OpsInv
<1> USE <1>a, OperationsOK DEF
      Rest, UpgradeInv, RequestInv, BackupInv, UpgradeIsAlone, CodeFitsData, BackupIsWhole,
      TypeOK, Units, Databases, Requests, Copies, NoUpgrade, Serving, Copying,
      Free, StartController, StopController, UpgradeStep, UpgradeRest, WdRest,
      svcVars, dataVars, wdVars
<1>1. ASSUME NEW s \in Secrets, PutSecret(s) PROVE Rest'
  BY <1>1 DEF PutSecret
<1>2. CASE CommitSecret BY <1>2 DEF CommitSecret
<1>3. CASE DropSecret BY <1>3 DEF DropSecret
<1>4. ASSUME NEW u \in Units, Hang(u) PROVE Rest'
  BY <1>4 DEF Hang
<1>5. ASSUME NEW u \in Units, Restart(u) PROVE Rest'
  BY <1>5 DEF Restart
<1>6. CASE Upgrade
  <2>1. CASE UpgradePrepare BY <2>1 DEF UpgradePrepare
  <2>2. CASE UpgradeStop BY <2>2 DEF UpgradeStop
  <2>3. CASE UpgradeSnapshot BY <2>3 DEF UpgradeSnapshot
  <2>4. CASE UpgradeLink BY <2>4 DEF UpgradeLink
  <2>5. CASE UpgradeMigrate BY <2>5 DEF UpgradeMigrate
  <2>6. CASE UpgradeStart BY <2>6 DEF UpgradeStart
  <2>7. CASE UpgradeDone BY <2>7 DEF UpgradeDone
  <2>8. CASE UpgradeFails BY <2>8 DEF UpgradeFails
  <2>9. CASE RollbackData BY <2>9 DEF RollbackData
  <2>10. CASE RollbackLink BY <2>10 DEF RollbackLink
  <2>11. CASE RollbackStart BY <2>11 DEF RollbackStart
  <2> QED
    BY <1>6, <2>1, <2>2, <2>3, <2>4, <2>5, <2>6, <2>7, <2>8, <2>9, <2>10, <2>11 DEF Upgrade
<1>7. CASE KillUpgrade BY <1>7 DEF KillUpgrade
<1>8. CASE BackupBegin BY <1>8 DEF BackupBegin
<1>9. CASE Backup BY <1>9 DEF Backup, BackupSecrets, BackupEnd
<1>10. CASE WatchBegin BY <1>10 DEF WatchBegin
<1>11. CASE WatchSkips BY <1>11 DEF WatchSkips
<1>12. CASE WatchCheck BY <1>12 DEF WatchCheck
<1>13. CASE WatchAct BY <1>13 DEF WatchAct
<1>14. CASE Reboot BY <1>14 DEF Reboot
<1>15. CASE UNCHANGED vars BY <1>15 DEF vars
<1> QED
  BY <1>1, <1>2, <1>3, <1>4, <1>5, <1>6, <1>7, <1>8, <1>9, <1>10, <1>11, <1>12, <1>13, <1>14,
     <1>15 DEF Next, Watch

\* From its stop to its start no restart of the watchdog, asked for before or after, runs the
\* controller beside an upgrade or its rollback.
THEOREM Alone == Spec => []UpgradeIsAlone
<1>1. OpsInv => UpgradeIsAlone BY DEF OpsInv
<1> QED BY <1>1, OpsInit, OpsStep, PTL DEF Spec

\* At every step of an upgrade and of its rollback, where it may be killed, and after a reboot,
\* the linked release can open the database.
THEOREM Fits == Spec => []CodeFitsData
<1>1. OpsInv => CodeFitsData BY DEF OpsInv
<1> QED BY <1>1, OpsInit, OpsStep, PTL DEF Spec

\* The secret the copied database refers to is there until it has been copied too, and the
\* release that is copied can open that database.
THEOREM Whole == Spec => []BackupIsWhole
<1>1. OpsInv => BackupIsWhole BY DEF OpsInv
<1> QED BY <1>1, OpsInit, OpsStep, PTL DEF Spec

-----------------------------------------------------------------------------
(* What ServicesReturn rests on: who starts the controller gets it up. *)

\* No start is refused by migrate(): a restart the watchdog asked for, the end of an upgrade, that
\* of its rollback, or a boot.
StartsSucceed ==
    [][/\ \A u \in Units : Restart(u) => unit'[u] = "up"
       /\ UpgradeStart \/ RollbackStart => unit'[Controller] = "up"
       /\ Reboot => \A u \in Units : unit'[u] = "up"]_vars

\* The linked release can open the database whenever one of these runs, wherever an upgrade was
\* killed or its rollback interrupted.
THEOREM Starts == Spec => StartsSucceed
<1>1. OpsInv =>
        [/\ \A u \in Units : Restart(u) => unit'[u] = "up"
         /\ UpgradeStart \/ RollbackStart => unit'[Controller] = "up"
         /\ Reboot => \A u \in Units : unit'[u] = "up"]_vars
  <2> SUFFICES ASSUME OpsInv
               PROVE  /\ \A u \in Units : Restart(u) => unit'[u] = "up"
                      /\ UpgradeStart \/ RollbackStart => unit'[Controller] = "up"
                      /\ Reboot => \A u \in Units : unit'[u] = "up"
    OBVIOUS
  <2>1. db.version <= link /\ unit \in [Units -> {"up", "bad", "down"}] /\ Controller \in Units
    BY DEF OpsInv, CodeFitsData, TypeOK, Units
  <2> QED
    BY <2>1 DEF Restart, UpgradeStart, RollbackStart, Reboot, StartController
<1> QED BY <1>1, OpsInit, OpsStep, PTL DEF Spec, StartsSucceed

=============================================================================
