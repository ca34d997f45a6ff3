-------------------------- MODULE TransactionsProofs --------------------------
(***************************************************************************)
(* Proofs about Transactions.  BaseInv and VerdictInv are inductive as they *)
(* stand; IInv is inductive when restore_files() is not interrupted, and    *)
(* DeciderInv outside of the windows that leave nobody to decide.           *)
(***************************************************************************)
EXTENDS Transactions, TLAPS

\* What holds of the lock and the ledger wherever faults strike.
BaseInv == TypeOK /\ SnapshotBeforePending /\ OwnerInv

\* A bootstrapped gateway is well typed and no process holds the lock.
LEMMA BaseInit == Init => BaseInv
<1> SUFFICES ASSUME Init PROVE BaseInv
  OBVIOUS
<1> USE ConstantsOK DEF
      Init
<1>1. Idle \in Processes
  BY DEF Idle, Processes, Kinds, Steps, RollbackKinds
<1>2. TypeOK
  <2>1. timer \in [state : {"off", "armed", "firing"}, tx : Tx \cup {None}]
    OBVIOUS
  <2>2. backups \in [Tx -> Snapshots \cup {None}]
    OBVIOUS
  <2>3. faults \in 0..MaxFaults
    OBVIOUS
  <2>4. op \in Processes
    BY <1>1
  <2>5. /\ config \in Contents /\ firewall \in Contents
        /\ service \in Contents \cup {Down} /\ rules \in Contents \cup {None}
    BY DEF Contents
  <2> QED BY <2>1, <2>2, <2>3, <2>4, <2>5 DEF TypeOK
<1>3. SnapshotBeforePending /\ OwnerInv
  BY DEF SnapshotBeforePending, OwnerInv, Idle, RollbackKinds
<1> QED BY <1>2, <1>3 DEF BaseInv

\* Types, the owner of the lock and "a snapshot before pending" are kept by every step,
\* faults included: this part needs no assumption on where processes are interrupted.
LEMMA BaseStep == BaseInv /\ [Next]_vars => BaseInv'
<1> SUFFICES ASSUME BaseInv, [Next]_vars PROVE BaseInv'
  OBVIOUS
<1> USE ConstantsOK, NoneIsNoRecord DEF
      BaseInv, TypeOK, SnapshotBeforePending, OwnerInv, Processes, Contents, Snapshots,
      Kinds, Steps, RollbackKinds, ApplySteps, RollbackSteps, CommitSteps, RestartSteps,
      vars, fileVars, ledgerVars, unitVars, At, Goto, Reply, Serve, Idle, ManifestTx, Live,
      Version, Store!Version, Store!Files, Raise
<1>1. CASE Requests
  <2>1. ASSUME NEW t \in Tx, NEW g \in Groups, BeginApply(t, g) PROVE BaseInv'
    BY <2>1 DEF BeginApply
  <2>2. ASSUME NEW t \in Tx, NEW g \in Groups, ReplayApply(t, g) PROVE BaseInv'
    BY <2>2 DEF ReplayApply
  <2>3. ASSUME NEW t \in Tx, BeginCommit(t) PROVE BaseInv'
    BY <2>3 DEF BeginCommit
  <2>4. ASSUME NEW t \in Tx, RepeatCommit(t) PROVE BaseInv'
    BY <2>4 DEF RepeatCommit
  <2>5. CASE BeginManualRollback BY <2>5 DEF BeginManualRollback
  <2>6. CASE BeginReconcile BY <2>6 DEF BeginReconcile
  <2>7. CASE BeginRestart BY <2>7 DEF BeginRestart
  <2> QED BY <1>1, <2>1, <2>2, <2>3, <2>4, <2>5, <2>6, <2>7 DEF Requests
<1>2. CASE Work
  <2>1. CASE Snapshot BY <2>1 DEF Snapshot
  <2>2. CASE CheckFails BY <2>2 DEF CheckFails
  <2>3. CASE PublishPending BY <2>3 DEF PublishPending
  <2>4. CASE ArmTimer BY <2>4 DEF ArmTimer
  <2>5. CASE ArmRefused BY <2>5 DEF ArmRefused
  <2>6. CASE InstallConfig BY <2>6 DEF InstallConfig
  <2>7. CASE InstallFirewall BY <2>7 DEF InstallFirewall
  <2>8. CASE VerifyPasses BY <2>8 DEF VerifyPasses
  <2>9. CASE VerifyFails BY <2>9 DEF VerifyFails
  <2>10. CASE WriteManifest BY <2>10 DEF WriteManifest
  <2>11. CASE ReportPending BY <2>11 DEF ReportPending
  <2>12. CASE StopCore BY <2>12 DEF StopCore
  <2>13. CASE RestartRules BY <2>13 DEF RestartRules, DependenciesStart
  <2>14. CASE RestartCore BY <2>14 DEF RestartCore, DependenciesStart, AfterCore
  <2>15. CASE DependenciesRefused BY <2>15 DEF DependenciesRefused, DependenciesStart
  <2>16. CASE StopTimer BY <2>16 DEF StopTimer
  <2>17. CASE ReadMeta BY <2>17 DEF ReadMeta
  <2>18. CASE MetaMissing BY <2>18 DEF MetaMissing
  <2>19. CASE RestoreConfig BY <2>19 DEF RestoreConfig
  <2>20. CASE RestoreFirewall BY <2>20 DEF RestoreFirewall
  <2>21. CASE RestoreManifest BY <2>21 DEF RestoreManifest
  <2>22. CASE UnlinkMeta
    <3>1. op' \in Processes
      BY <2>22 DEF UnlinkMeta
    <3>2. OwnerInv'
      <4>1. CASE op.kind = "commit" BY <2>22, <4>1 DEF UnlinkMeta
      <4>2. CASE op.kind # "commit" BY <2>22, <4>2 DEF UnlinkMeta
      <4> QED BY <4>1, <4>2
    <3>3. SnapshotBeforePending'
      BY <2>22 DEF UnlinkMeta
    <3> HIDE DEF Processes, OwnerInv, SnapshotBeforePending, Snapshots, Contents
    <3>4. TypeOK'
      BY <2>22, <3>1 DEF UnlinkMeta
    <3> QED BY <3>2, <3>3, <3>4
  <2>23. CASE RemovePending BY <2>23 DEF RemovePending
  <2> QED
    BY <1>2, <2>1, <2>2, <2>3, <2>4, <2>5, <2>6, <2>7, <2>8, <2>9, <2>10, <2>11,
       <2>12, <2>13, <2>14, <2>15, <2>16, <2>17, <2>18, <2>19, <2>20, <2>21, <2>22, <2>23 DEF Work
<1>3. CASE Boot
  <2>1. CASE RecoverFindsNothing BY <2>1 DEF RecoverFindsNothing
  <2>2. CASE BeginRecover BY <2>2 DEF BeginRecover
  <2>3. CASE RecoverGivesUp BY <2>3 DEF RecoverGivesUp
  <2>4. CASE BootFirewall BY <2>4 DEF BootFirewall
  <2>5. CASE BootCore BY <2>5 DEF BootCore
  <2> QED BY <1>3, <2>1, <2>2, <2>3, <2>4, <2>5 DEF Boot
<1>4. CASE Timer
  <2>1. CASE TimerElapses BY <2>1 DEF TimerElapses
  <2>2. CASE BeginTimerRollback BY <2>2 DEF BeginTimerRollback
  <2>3. CASE TimerFindsNothing BY <2>3 DEF TimerFindsNothing
  <2> QED BY <1>4, <2>1, <2>2, <2>3 DEF Timer
<1>5. CASE StepFails BY <1>5 DEF StepFails
<1>6. CASE Kill BY <1>6 DEF Kill
<1>7. CASE Reboot
  <2>1. jobs' \in SUBSET {"recover", "firewall", "core"}
    BY <1>7 DEF Reboot
  <2>2. timer' \in [state : {"off", "armed", "firing"}, tx : Tx \cup {None}]
    BY <1>7 DEF Reboot
  <2>3. OwnerInv' /\ SnapshotBeforePending'
    BY <1>7 DEF Reboot
  <2>4. op' \in Processes /\ faults' \in 0..MaxFaults
    BY <1>7 DEF Reboot
  <2> QED BY <1>7, <2>1, <2>2, <2>3, <2>4 DEF Reboot
<1>8. CASE UNCHANGED vars BY <1>8
<1> QED BY <1>1, <1>2, <1>3, <1>4, <1>5, <1>6, <1>7, <1>8 DEF Next

\* The files, units and processes of transactions.py stay what TypeOK says they are: no
\* handler is ever at a step of another one, and only known versions reach a file.
THEOREM TypeCorrect == Spec => []TypeOK
<1>1. BaseInv => TypeOK BY DEF BaseInv
<1> QED BY <1>1, BaseInit, BaseStep, PTL DEF Spec

\* apply() publishes pending only after the snapshot is complete, and no fault, commit or
\* rollback leaves pending behind without it.
THEOREM SnapshotFirst == Spec => []SnapshotBeforePending
<1>1. BaseInv => SnapshotBeforePending BY DEF BaseInv
<1> QED BY <1>1, BaseInit, BaseStep, PTL DEF Spec

\* The copy of the live files is the one step that adds a snapshot.
LEMMA SnapshotKeepsHistory == IInv /\ Snapshot => HistoryInv'
<1> SUFFICES ASSUME IInv, Snapshot PROVE HistoryInv'
  OBVIOUS
<1> DEFINE u == op.tx
<1>1. /\ u \in Tx /\ backups[u] # None /\ pending = None /\ pending' = None
      /\ manifest' = manifest /\ ManifestTx # u
  BY DEF IInv, OwnerInv, Snapshot, At, TypeOK, Processes, Kinds, RollbackKinds, fileVars
<1>2. /\ backups' = [backups EXCEPT ![u] = [backups[u] EXCEPT !.saved = Live]]
      /\ backups \in [Tx -> Snapshots \cup {None}]
  BY DEF IInv, TypeOK, Snapshot
<1>3. Live \in Store!Coherent /\ Live.manifest = manifest
  BY <1>1 DEF IInv, FilesInv, Live
<1>4. manifest # None => manifest \in Version /\ manifest.tx # u /\ Known(manifest)
  BY <1>1 DEF IInv, TypeOK, HistoryInv, ManifestTx
<1>5. /\ backups'[u].saved = Live /\ backups'[u].candidate = backups[u].candidate
      /\ backups'[u] # None
  BY <1>1, <1>2, NoneIsNoRecord, <1>3 DEF Snapshots, Live, IInv, TypeOK, Store!Files,
     Contents, Version
<1>6. \A t \in Tx : t # u => backups'[t] = backups[t]
  BY <1>1, <1>2
<1>7. ASSUME NEW v \in Version, Known(v)
      PROVE  backups'[v.tx] # None /\ v.groups = backups'[v.tx].candidate
  <2>1. v.tx \in Tx
    BY DEF Version, Store!Version
  <2> QED BY <1>5, <1>6, <1>7, <2>1 DEF Known
<1>8. ASSUME NEW t \in Tx, backups'[t] # None, backups'[t].saved # None
      PROVE  /\ backups'[t].saved \in Store!Coherent
             /\ backups'[t].saved.manifest # None =>
                  /\ backups'[t].saved.manifest.tx # t
                  /\ Known(backups[t].saved.manifest)'
  <2>1. CASE t = u
    BY <2>1, <1>3, <1>4, <1>5, <1>7 DEF Known
  <2>2. CASE t # u
    <3>1. /\ backups[t] # None /\ backups[t].saved # None /\ backups'[t] = backups[t]
          /\ backups[t].saved \in Store!Files
      BY <2>2, <1>2, <1>6, <1>8 DEF Snapshots
    <3>2. backups[t].saved.manifest # None => backups[t].saved.manifest \in Version
      BY <3>1 DEF Store!Files, Version
    <3>3. backups[t].saved.manifest # None => Known(backups[t].saved.manifest)
      BY <3>1 DEF IInv, HistoryInv
    <3>4. /\ backups[t].saved \in Store!Coherent
          /\ backups[t].saved.manifest # None => backups[t].saved.manifest.tx # t
      BY <3>1 DEF IInv, HistoryInv
    <3> QED BY <3>1, <3>2, <3>3, <3>4, <1>7 DEF Known
  <2> QED BY <2>1, <2>2
<1>9. (manifest # None => Known(manifest))'
  BY <1>1, <1>4, <1>7 DEF Known
<1> QED BY <1>1, <1>8, <1>9 DEF HistoryInv, SnapshotBeforePending

\* No step makes a file or a snapshot name a version that no apply() rendered, or a
\* snapshot hold the version that replaced it.
LEMMA HistoryStep == RestoreIsAtomic /\ IInv /\ [Next]_vars => HistoryInv'
<1> SUFFICES ASSUME RestoreIsAtomic, IInv, [Next]_vars PROVE HistoryInv'
  OBVIOUS
<1> USE ConstantsOK, NoneIsNoRecord DEF
      IInv, TypeOK, SnapshotBeforePending, OwnerInv, Processes, Contents, Snapshots, Kinds,
      Steps, RollbackKinds, ApplySteps, RollbackSteps, CommitSteps, RestartSteps, vars,
      fileVars, ledgerVars, unitVars, At, Goto, Reply, Serve, Idle, ManifestTx, Live,
      Version, Store!Version, Store!Files, Raise, HistoryInv, FilesInv, UnitsInv, Loaded,
      Saved, Trial, Known, Whole, Store!Whole, Store!Coherent, Store!FactoryFiles,
      RestoreIsAtomic
<1>1. CASE Requests
  <2>1. ASSUME NEW t \in Tx, NEW g \in Groups, BeginApply(t, g) PROVE HistoryInv'
    BY <2>1 DEF BeginApply
  <2>2. ASSUME NEW t \in Tx, NEW g \in Groups, ReplayApply(t, g) PROVE HistoryInv'
    BY <2>2 DEF ReplayApply
  <2>3. ASSUME NEW t \in Tx, BeginCommit(t) PROVE HistoryInv'
    BY <2>3 DEF BeginCommit
  <2>4. ASSUME NEW t \in Tx, RepeatCommit(t) PROVE HistoryInv'
    BY <2>4 DEF RepeatCommit
  <2>5. CASE BeginManualRollback BY <2>5 DEF BeginManualRollback
  <2>6. CASE BeginReconcile BY <2>6 DEF BeginReconcile
  <2>7. CASE BeginRestart BY <2>7 DEF BeginRestart
  <2> QED BY <1>1, <2>1, <2>2, <2>3, <2>4, <2>5, <2>6, <2>7 DEF Requests
<1>2. CASE Work
  <2>1. CASE Snapshot BY <2>1, SnapshotKeepsHistory
  <2>2. CASE CheckFails BY <2>2 DEF CheckFails
  <2>3. CASE PublishPending BY <2>3 DEF PublishPending
  <2>4. CASE ArmTimer BY <2>4 DEF ArmTimer
  <2>5. CASE ArmRefused BY <2>5 DEF ArmRefused
  <2>6. CASE InstallConfig BY <2>6 DEF InstallConfig
  <2>7. CASE InstallFirewall BY <2>7 DEF InstallFirewall
  <2>8. CASE VerifyPasses BY <2>8 DEF VerifyPasses
  <2>9. CASE VerifyFails BY <2>9 DEF VerifyFails
  <2>10. CASE WriteManifest BY <2>10 DEF WriteManifest
  <2>11. CASE ReportPending BY <2>11 DEF ReportPending
  <2>12. CASE StopCore BY <2>12 DEF StopCore
  <2>13. CASE RestartRules BY <2>13 DEF RestartRules, DependenciesStart
  <2>14. CASE RestartCore BY <2>14 DEF RestartCore, DependenciesStart, AfterCore
  <2>15. CASE DependenciesRefused BY <2>15 DEF DependenciesRefused, DependenciesStart
  <2>16. CASE StopTimer BY <2>16 DEF StopTimer
  <2>17. CASE ReadMeta BY <2>17 DEF ReadMeta
  <2>18. CASE MetaMissing BY <2>18 DEF MetaMissing
  <2>19. CASE RestoreConfig BY <2>19 DEF RestoreConfig
  <2>20. CASE RestoreFirewall BY <2>20 DEF RestoreFirewall
  <2>21. CASE RestoreManifest BY <2>21 DEF RestoreManifest
  <2>22. CASE UnlinkMeta BY <2>22 DEF UnlinkMeta
  <2>23. CASE RemovePending BY <2>23 DEF RemovePending
  <2> QED
    BY <1>2, <2>1, <2>2, <2>3, <2>4, <2>5, <2>6, <2>7, <2>8, <2>9, <2>10, <2>11,
       <2>12, <2>13, <2>14, <2>15, <2>16, <2>17, <2>18, <2>19, <2>20, <2>21, <2>22, <2>23 DEF Work
<1>3. CASE Boot
  <2>1. CASE RecoverFindsNothing BY <2>1 DEF RecoverFindsNothing
  <2>2. CASE BeginRecover BY <2>2 DEF BeginRecover
  <2>3. CASE RecoverGivesUp BY <2>3 DEF RecoverGivesUp
  <2>4. CASE BootFirewall BY <2>4 DEF BootFirewall
  <2>5. CASE BootCore BY <2>5 DEF BootCore
  <2> QED BY <1>3, <2>1, <2>2, <2>3, <2>4, <2>5 DEF Boot
<1>4. CASE Timer
  <2>1. CASE TimerElapses BY <2>1 DEF TimerElapses
  <2>2. CASE BeginTimerRollback BY <2>2 DEF BeginTimerRollback
  <2>3. CASE TimerFindsNothing BY <2>3 DEF TimerFindsNothing
  <2> QED BY <1>4, <2>1, <2>2, <2>3 DEF Timer
<1>5. CASE StepFails BY <1>5 DEF StepFails
<1>6. CASE Kill BY <1>6 DEF Kill
<1>7. CASE Reboot BY <1>7 DEF Reboot
<1>8. CASE UNCHANGED vars BY <1>8
<1> QED BY <1>1, <1>2, <1>3, <1>4, <1>5, <1>6, <1>7, <1>8 DEF Next

\* What the three files hold at each step of apply() and rollback() is kept by every step,
\* as long as restore_files() is not interrupted half way.
LEMMA FilesStep == RestoreIsAtomic /\ IInv /\ [Next]_vars => FilesInv'
<1> SUFFICES ASSUME RestoreIsAtomic, IInv, [Next]_vars PROVE FilesInv'
  OBVIOUS
<1> USE ConstantsOK, NoneIsNoRecord DEF
      IInv, TypeOK, SnapshotBeforePending, OwnerInv, Processes, Contents, Snapshots, Kinds,
      Steps, RollbackKinds, ApplySteps, RollbackSteps, CommitSteps, RestartSteps, vars,
      fileVars, ledgerVars, unitVars, At, Goto, Reply, Serve, Idle, ManifestTx, Live,
      Version, Store!Version, Store!Files, Raise, HistoryInv, FilesInv, UnitsInv, Loaded,
      Saved, Trial, Known, Whole, Store!Whole, Store!Coherent, Store!FactoryFiles,
      RestoreIsAtomic
<1>1. CASE Requests
  <2>1. ASSUME NEW t \in Tx, NEW g \in Groups, BeginApply(t, g) PROVE FilesInv'
    BY <2>1 DEF BeginApply
  <2>2. ASSUME NEW t \in Tx, NEW g \in Groups, ReplayApply(t, g) PROVE FilesInv'
    BY <2>2 DEF ReplayApply
  <2>3. ASSUME NEW t \in Tx, BeginCommit(t) PROVE FilesInv'
    BY <2>3 DEF BeginCommit
  <2>4. ASSUME NEW t \in Tx, RepeatCommit(t) PROVE FilesInv'
    BY <2>4 DEF RepeatCommit
  <2>5. CASE BeginManualRollback BY <2>5 DEF BeginManualRollback
  <2>6. CASE BeginReconcile BY <2>6 DEF BeginReconcile
  <2>7. CASE BeginRestart BY <2>7 DEF BeginRestart
  <2> QED BY <1>1, <2>1, <2>2, <2>3, <2>4, <2>5, <2>6, <2>7 DEF Requests
<1>2. CASE Work
  <2>1. CASE Snapshot BY <2>1 DEF Snapshot
  <2>2. CASE CheckFails BY <2>2 DEF CheckFails
  <2>3. CASE PublishPending BY <2>3 DEF PublishPending
  <2>4. CASE ArmTimer BY <2>4 DEF ArmTimer
  <2>5. CASE ArmRefused BY <2>5 DEF ArmRefused
  <2>6. CASE InstallConfig BY <2>6 DEF InstallConfig
  <2>7. CASE InstallFirewall BY <2>7 DEF InstallFirewall
  <2>8. CASE VerifyPasses BY <2>8 DEF VerifyPasses
  <2>9. CASE VerifyFails BY <2>9 DEF VerifyFails
  <2>10. CASE WriteManifest BY <2>10 DEF WriteManifest
  <2>11. CASE ReportPending BY <2>11 DEF ReportPending
  <2>12. CASE StopCore BY <2>12 DEF StopCore
  <2>13. CASE RestartRules BY <2>13 DEF RestartRules, DependenciesStart
  <2>14. CASE RestartCore BY <2>14 DEF RestartCore, DependenciesStart, AfterCore
  <2>15. CASE DependenciesRefused BY <2>15 DEF DependenciesRefused, DependenciesStart
  <2>16. CASE StopTimer BY <2>16 DEF StopTimer
  <2>17. CASE ReadMeta BY <2>17 DEF ReadMeta
  <2>18. CASE MetaMissing BY <2>18 DEF MetaMissing
  <2>19. CASE RestoreConfig BY <2>19 DEF RestoreConfig
  <2>20. CASE RestoreFirewall BY <2>20 DEF RestoreFirewall
  <2>21. CASE RestoreManifest BY <2>21 DEF RestoreManifest
  <2>22. CASE UnlinkMeta BY <2>22 DEF UnlinkMeta
  <2>23. CASE RemovePending BY <2>23 DEF RemovePending
  <2> QED
    BY <1>2, <2>1, <2>2, <2>3, <2>4, <2>5, <2>6, <2>7, <2>8, <2>9, <2>10, <2>11,
       <2>12, <2>13, <2>14, <2>15, <2>16, <2>17, <2>18, <2>19, <2>20, <2>21, <2>22, <2>23 DEF Work
<1>3. CASE Boot
  <2>1. CASE RecoverFindsNothing BY <2>1 DEF RecoverFindsNothing
  <2>2. CASE BeginRecover BY <2>2 DEF BeginRecover
  <2>3. CASE RecoverGivesUp BY <2>3 DEF RecoverGivesUp
  <2>4. CASE BootFirewall BY <2>4 DEF BootFirewall
  <2>5. CASE BootCore BY <2>5 DEF BootCore
  <2> QED BY <1>3, <2>1, <2>2, <2>3, <2>4, <2>5 DEF Boot
<1>4. CASE Timer
  <2>1. CASE TimerElapses BY <2>1 DEF TimerElapses
  <2>2. CASE BeginTimerRollback BY <2>2 DEF BeginTimerRollback
  <2>3. CASE TimerFindsNothing BY <2>3 DEF TimerFindsNothing
  <2> QED BY <1>4, <2>1, <2>2, <2>3 DEF Timer
<1>5. CASE StepFails BY <1>5 DEF StepFails
<1>6. CASE Kill BY <1>6 DEF Kill
<1>7. CASE Reboot BY <1>7 DEF Reboot
<1>8. CASE UNCHANGED vars BY <1>8
<1> QED BY <1>1, <1>2, <1>3, <1>4, <1>5, <1>6, <1>7, <1>8 DEF Next

\* Stop, restart, boot and reboot keep the loaded rules and configuration equal to the
\* files wherever UnitsInv says so.
LEMMA UnitsStep == RestoreIsAtomic /\ IInv /\ [Next]_vars => UnitsInv'
<1> SUFFICES ASSUME RestoreIsAtomic, IInv, [Next]_vars PROVE UnitsInv'
  OBVIOUS
<1> USE ConstantsOK, NoneIsNoRecord DEF
      IInv, TypeOK, SnapshotBeforePending, OwnerInv, Processes, Contents, Snapshots, Kinds,
      Steps, RollbackKinds, ApplySteps, RollbackSteps, CommitSteps, RestartSteps, vars,
      fileVars, ledgerVars, unitVars, At, Goto, Reply, Serve, Idle, ManifestTx, Live,
      Version, Store!Version, Store!Files, Raise, HistoryInv, FilesInv, UnitsInv, Loaded,
      Saved, Trial, Known, Whole, Store!Whole, Store!Coherent, Store!FactoryFiles,
      RestoreIsAtomic
<1>1. CASE Requests
  <2>1. ASSUME NEW t \in Tx, NEW g \in Groups, BeginApply(t, g) PROVE UnitsInv'
    BY <2>1 DEF BeginApply
  <2>2. ASSUME NEW t \in Tx, NEW g \in Groups, ReplayApply(t, g) PROVE UnitsInv'
    BY <2>2 DEF ReplayApply
  <2>3. ASSUME NEW t \in Tx, BeginCommit(t) PROVE UnitsInv'
    BY <2>3 DEF BeginCommit
  <2>4. ASSUME NEW t \in Tx, RepeatCommit(t) PROVE UnitsInv'
    BY <2>4 DEF RepeatCommit
  <2>5. CASE BeginManualRollback BY <2>5 DEF BeginManualRollback
  <2>6. CASE BeginReconcile BY <2>6 DEF BeginReconcile
  <2>7. CASE BeginRestart BY <2>7 DEF BeginRestart
  <2> QED BY <1>1, <2>1, <2>2, <2>3, <2>4, <2>5, <2>6, <2>7 DEF Requests
<1>2. CASE Work
  <2>1. CASE Snapshot BY <2>1 DEF Snapshot
  <2>2. CASE CheckFails BY <2>2 DEF CheckFails
  <2>3. CASE PublishPending BY <2>3 DEF PublishPending
  <2>4. CASE ArmTimer BY <2>4 DEF ArmTimer
  <2>5. CASE ArmRefused BY <2>5 DEF ArmRefused
  <2>6. CASE InstallConfig BY <2>6 DEF InstallConfig
  <2>7. CASE InstallFirewall BY <2>7 DEF InstallFirewall
  <2>8. CASE VerifyPasses BY <2>8 DEF VerifyPasses
  <2>9. CASE VerifyFails BY <2>9 DEF VerifyFails
  <2>10. CASE WriteManifest BY <2>10 DEF WriteManifest
  <2>11. CASE ReportPending BY <2>11 DEF ReportPending
  <2>12. CASE StopCore BY <2>12 DEF StopCore
  <2>13. CASE RestartRules BY <2>13 DEF RestartRules, DependenciesStart
  <2>14. CASE RestartCore BY <2>14 DEF RestartCore, DependenciesStart, AfterCore
  <2>15. CASE DependenciesRefused BY <2>15 DEF DependenciesRefused, DependenciesStart
  <2>16. CASE StopTimer BY <2>16 DEF StopTimer
  <2>17. CASE ReadMeta BY <2>17 DEF ReadMeta
  <2>18. CASE MetaMissing BY <2>18 DEF MetaMissing
  <2>19. CASE RestoreConfig BY <2>19 DEF RestoreConfig
  <2>20. CASE RestoreFirewall BY <2>20 DEF RestoreFirewall
  <2>21. CASE RestoreManifest BY <2>21 DEF RestoreManifest
  <2>22. CASE UnlinkMeta BY <2>22 DEF UnlinkMeta
  <2>23. CASE RemovePending BY <2>23 DEF RemovePending
  <2> QED
    BY <1>2, <2>1, <2>2, <2>3, <2>4, <2>5, <2>6, <2>7, <2>8, <2>9, <2>10, <2>11,
       <2>12, <2>13, <2>14, <2>15, <2>16, <2>17, <2>18, <2>19, <2>20, <2>21, <2>22, <2>23 DEF Work
<1>3. CASE Boot
  <2>1. CASE RecoverFindsNothing BY <2>1 DEF RecoverFindsNothing
  <2>2. CASE BeginRecover BY <2>2 DEF BeginRecover
  <2>3. CASE RecoverGivesUp BY <2>3 DEF RecoverGivesUp
  <2>4. CASE BootFirewall BY <2>4 DEF BootFirewall
  <2>5. CASE BootCore BY <2>5 DEF BootCore
  <2> QED BY <1>3, <2>1, <2>2, <2>3, <2>4, <2>5 DEF Boot
<1>4. CASE Timer
  <2>1. CASE TimerElapses BY <2>1 DEF TimerElapses
  <2>2. CASE BeginTimerRollback BY <2>2 DEF BeginTimerRollback
  <2>3. CASE TimerFindsNothing BY <2>3 DEF TimerFindsNothing
  <2> QED BY <1>4, <2>1, <2>2, <2>3 DEF Timer
<1>5. CASE StepFails BY <1>5 DEF StepFails
<1>6. CASE Kill BY <1>6 DEF Kill
<1>7. CASE Reboot BY <1>7 DEF Reboot
<1>8. CASE UNCHANGED vars BY <1>8
<1> QED BY <1>1, <1>2, <1>3, <1>4, <1>5, <1>6, <1>7, <1>8 DEF Next

\* Once a transaction was rolled back no file or snapshot names it any more, and once it
\* was committed it is never pending again; every step keeps that, whatever fails.
LEMMA VerdictStep == BaseInv /\ BaseInv' /\ VerdictInv /\ [Next]_vars => VerdictInv'
<1> SUFFICES ASSUME BaseInv, BaseInv', VerdictInv, [Next]_vars PROVE VerdictInv'
  OBVIOUS
<1> USE ConstantsOK, NoneIsNoRecord DEF
      BaseInv, TypeOK, SnapshotBeforePending, OwnerInv, Processes, Contents, Snapshots,
      Kinds, Steps, RollbackKinds, ApplySteps, RollbackSteps, CommitSteps, RestartSteps,
      vars, fileVars, ledgerVars, unitVars, At, Goto, Reply, Serve, Idle, ManifestTx, Live,
      Version, Store!Version, Store!Files, Raise, VerdictInv, Mentioned, SavedBy, Said,
      TrialOwnsTimer
<1>1. CASE Requests
  <2>1. ASSUME NEW t \in Tx, NEW g \in Groups, BeginApply(t, g) PROVE VerdictInv'
    BY <2>1 DEF BeginApply
  <2>2. ASSUME NEW t \in Tx, NEW g \in Groups, ReplayApply(t, g) PROVE VerdictInv'
    BY <2>2 DEF ReplayApply
  <2>3. ASSUME NEW t \in Tx, BeginCommit(t) PROVE VerdictInv'
    BY <2>3 DEF BeginCommit
  <2>4. ASSUME NEW t \in Tx, RepeatCommit(t) PROVE VerdictInv'
    BY <2>4 DEF RepeatCommit
  <2>5. CASE BeginManualRollback BY <2>5 DEF BeginManualRollback
  <2>6. CASE BeginReconcile BY <2>6 DEF BeginReconcile
  <2>7. CASE BeginRestart BY <2>7 DEF BeginRestart
  <2> QED BY <1>1, <2>1, <2>2, <2>3, <2>4, <2>5, <2>6, <2>7 DEF Requests
<1>2. CASE Work
  <2>1. CASE Snapshot BY <2>1 DEF Snapshot
  <2>2. CASE CheckFails BY <2>2 DEF CheckFails
  <2>3. CASE PublishPending BY <2>3 DEF PublishPending
  <2>4. CASE ArmTimer BY <2>4 DEF ArmTimer
  <2>5. CASE ArmRefused BY <2>5 DEF ArmRefused
  <2>6. CASE InstallConfig BY <2>6 DEF InstallConfig
  <2>7. CASE InstallFirewall BY <2>7 DEF InstallFirewall
  <2>8. CASE VerifyPasses BY <2>8 DEF VerifyPasses
  <2>9. CASE VerifyFails BY <2>9 DEF VerifyFails
  <2>10. CASE WriteManifest BY <2>10 DEF WriteManifest
  <2>11. CASE ReportPending BY <2>11 DEF ReportPending
  <2>12. CASE StopCore BY <2>12 DEF StopCore
  <2>13. CASE RestartRules BY <2>13 DEF RestartRules, DependenciesStart
  <2>14. CASE RestartCore BY <2>14 DEF RestartCore, DependenciesStart, AfterCore
  <2>15. CASE DependenciesRefused BY <2>15 DEF DependenciesRefused, DependenciesStart
  <2>16. CASE StopTimer
    <3>1. /\ op' = Idle /\ pending' = None /\ pending = None
          /\ UNCHANGED <<manifest, backups>> /\ op.tx \in Tx
      BY <2>16 DEF StopTimer
    <3>2. timer'.tx = timer.tx
      BY <2>16 DEF StopTimer
    <3>3. CASE op.kind = "commit"
      <4>1. replies' = replies \cup {[tx |-> op.tx, verdict |-> "committed"]}
        BY <2>16, <3>3 DEF StopTimer
      <4>2. Mentioned(op.tx)
        BY <2>16, <3>3 DEF StopTimer
      <4> QED BY <3>1, <3>2, <4>1, <4>2
    <3>4. CASE op.kind = "undo"
      <4>1. replies' = replies \cup {[tx |-> op.tx, verdict |-> "rolled_back"]}
        BY <2>16, <3>4 DEF StopTimer
      <4>2. ~Mentioned(op.tx) /\ ~Said(op.tx, "committed") /\ backups[op.tx] # None
        BY <2>16, <3>4 DEF StopTimer
      <4> QED BY <3>1, <3>2, <4>1, <4>2
    <3> QED BY <2>16, <3>3, <3>4 DEF StopTimer
  <2>17. CASE ReadMeta BY <2>17 DEF ReadMeta
  <2>18. CASE MetaMissing BY <2>18 DEF MetaMissing
  <2>19. CASE RestoreConfig BY <2>19 DEF RestoreConfig
  <2>20. CASE RestoreFirewall BY <2>20 DEF RestoreFirewall
  <2>21. CASE RestoreManifest BY <2>21 DEF RestoreManifest
  <2>22. CASE UnlinkMeta BY <2>22 DEF UnlinkMeta
  <2>23. CASE RemovePending BY <2>23 DEF RemovePending
  <2> QED
    BY <1>2, <2>1, <2>2, <2>3, <2>4, <2>5, <2>6, <2>7, <2>8, <2>9, <2>10, <2>11,
       <2>12, <2>13, <2>14, <2>15, <2>16, <2>17, <2>18, <2>19, <2>20, <2>21, <2>22, <2>23 DEF Work
<1>3. CASE Boot
  <2>1. CASE RecoverFindsNothing BY <2>1 DEF RecoverFindsNothing
  <2>2. CASE BeginRecover BY <2>2 DEF BeginRecover
  <2>3. CASE RecoverGivesUp BY <2>3 DEF RecoverGivesUp
  <2>4. CASE BootFirewall BY <2>4 DEF BootFirewall
  <2>5. CASE BootCore BY <2>5 DEF BootCore
  <2> QED BY <1>3, <2>1, <2>2, <2>3, <2>4, <2>5 DEF Boot
<1>4. CASE Timer
  <2>1. CASE TimerElapses BY <2>1 DEF TimerElapses
  <2>2. CASE BeginTimerRollback BY <2>2 DEF BeginTimerRollback
  <2>3. CASE TimerFindsNothing BY <2>3 DEF TimerFindsNothing
  <2> QED BY <1>4, <2>1, <2>2, <2>3 DEF Timer
<1>5. CASE StepFails BY <1>5 DEF StepFails
<1>6. CASE Kill BY <1>6 DEF Kill
<1>7. CASE Reboot BY <1>7 DEF Reboot
<1>8. CASE UNCHANGED vars BY <1>8
<1> QED BY <1>1, <1>2, <1>3, <1>4, <1>5, <1>6, <1>7, <1>8 DEF Next

\* Before the first request nobody was answered.
LEMMA VerdictInit == Init => VerdictInv
BY ConstantsOK DEF Init, VerdictInv, Mentioned, SavedBy, Said, ManifestTx, Idle, RollbackKinds,
   TrialOwnsTimer

\* apply(), commit() and rollback() never answer both "committed" and "rolled back" of one
\* transaction, and a version on trial is watched by its own timer or by none: for every
\* number of transactions and faults, wherever they strike.
THEOREM Verdicts == Spec => [](OneVerdict /\ TrialOwnsTimer)
<1>1. VerdictInv => OneVerdict /\ TrialOwnsTimer
  BY DEF VerdictInv, OneVerdict
<1> QED BY BaseInit, BaseStep, VerdictInit, VerdictStep, <1>1, PTL DEF Spec

\* The inductive invariant holds of a bootstrapped gateway.
LEMMA IInvInit == Init => IInv
<1> SUFFICES ASSUME Init PROVE IInv
  OBVIOUS
<1>1. BaseInv
  BY BaseInit
<1>2. HistoryInv
  BY <1>1 DEF Init, HistoryInv, BaseInv
<1>3. FilesInv
  BY DEF Init, FilesInv, Live, Store!Coherent, Store!FactoryFiles, Idle, RollbackKinds
<1>4. UnitsInv
  BY ConstantsOK DEF Init, UnitsInv, Loaded, Idle, RollbackKinds
<1> QED BY <1>1, <1>2, <1>3, <1>4 DEF IInv, BaseInv

\* The inductive invariant of transactions.py, for gateways whose restore_files() is not
\* interrupted between config.json and manifest.json.
THEOREM Inductive == ASSUME RestoreIsAtomic PROVE Spec => []IInv
<1>1. IInv => BaseInv
  BY DEF IInv, BaseInv, HistoryInv
<1>2. IInv /\ [Next]_vars => IInv'
  BY <1>1, BaseStep, HistoryStep, FilesStep, UnitsStep, RestoreIsAtomic DEF IInv, BaseInv
<1> QED BY IInvInit, <1>2, PTL DEF Spec

\* With nothing pending the three files are one version and a running core runs it, after
\* any sequence of applies, commits, rollbacks, restarts, boots and faults.
THEOREM InstalledRuns == ASSUME RestoreIsAtomic PROVE Spec => []RunningIsInstalled
<1>1. IInv => RunningIsInstalled
  BY DEF IInv, FilesInv, UnitsInv, Loaded, RunningIsInstalled, TypeOK, Contents
<1> QED BY Inductive, RestoreIsAtomic, <1>1, PTL

\* Every step but the creation and the removal of pending leaves the store as it was.
LEMMA StoreStep == IInv /\ IInv' /\ [Next]_vars => [Store!StoreNext]_(Store!storeVars)
<1> SUFFICES ASSUME IInv, IInv', [Next]_vars
             PROVE  Store!StoreNext \/ UNCHANGED Store!storeVars
  OBVIOUS
<1> DEFINE Installed == IF pending = None THEN Live ELSE Saved
           Proposal  == IF pending = None THEN None ELSE Trial
<1>1. UNCHANGED <<Installed, Proposal>> => UNCHANGED Store!storeVars
  BY DEF Live, Saved, Trial, Store!storeVars
<1>2. UNCHANGED <<config, firewall, manifest, backups, pending>> => UNCHANGED Store!storeVars
  BY <1>1 DEF Live, Saved, Trial
<1>3. pending # None /\ UNCHANGED <<backups, pending>> => UNCHANGED Store!storeVars
  BY <1>1 DEF Saved, Trial
<1>4. pending = None /\ UNCHANGED <<config, firewall, manifest, pending>> => UNCHANGED Store!storeVars
  BY <1>1 DEF Live
<1>5. CASE PublishPending
  <2>1. /\ pending = None /\ pending' = op.tx /\ op.tx \in Tx /\ op.tx # None
        /\ UNCHANGED backups /\ backups[op.tx] # None /\ backups[op.tx].saved = Live
        /\ backups[op.tx].candidate \in Groups /\ ManifestTx # op.tx
    BY <1>5, ConstantsOK DEF PublishPending, IInv, TypeOK, OwnerInv, At, Processes, Snapshots
  <2>2. Trial' \in Version /\ Trial'.tx = op.tx
    BY <2>1 DEF Trial, Version, Store!Version
  <2>3. Live.manifest # None => Live.manifest.tx # Trial'.tx
    BY <2>1, <2>2 DEF Live, ManifestTx
  <2>4. Store!Propose(Trial')
    BY <2>1, <2>2, <2>3 DEF Store!Propose, Live, Saved, Trial
  <2> QED BY <2>2, <2>4 DEF Store!StoreNext, Version
<1>6. CASE RemovePending
  <2>1. pending # None /\ pending' = None /\ UNCHANGED <<config, firewall, manifest, backups>>
    BY <1>6, ConstantsOK DEF RemovePending, IInv, TypeOK, Processes, OwnerInv, At, fileVars,
       RollbackKinds
  <2>4. Trial \in Version /\ Trial # None
    BY <2>1, NoneIsNoRecord
    DEF IInv, HistoryInv, SnapshotBeforePending, TypeOK, Trial, Version, Store!Version, Snapshots
  <2>2. CASE op.kind = "commit"
    <3>1. Live = Whole(Trial)
      BY <1>6, <2>1, <2>2 DEF RemovePending, IInv, OwnerInv, FilesInv, At, RollbackKinds
    <3>2. Store!Accept
      BY <2>1, <2>4, <3>1 DEF Store!Accept, Live, Trial, Whole, Store!Whole
    <3> QED BY <3>2 DEF Store!StoreNext
  <2>3. CASE op.kind # "commit"
    <3>1. Live = Saved
      BY <1>6, <2>3 DEF RemovePending, IInv, FilesInv, At
    <3>2. Store!Abandon
      BY <2>1, <2>4, <3>1 DEF Store!Abandon, Live, Saved, Trial
    <3> QED BY <3>2 DEF Store!StoreNext
  <2> QED BY <2>2, <2>3
<1>7. ASSUME NEW t \in Tx, NEW g \in Groups, BeginApply(t, g) PROVE UNCHANGED Store!storeVars
  BY <1>4, <1>7 DEF BeginApply, fileVars
<1>8. CASE Snapshot
  BY <1>4, <1>8 DEF Snapshot, IInv, OwnerInv, At, fileVars
<1>9. CASE InstallConfig \/ InstallFirewall \/ WriteManifest
  <2>1. pending # None /\ UNCHANGED <<backups, pending>>
    BY <1>9, ConstantsOK DEF InstallConfig, InstallFirewall, WriteManifest, IInv, TypeOK,
       Processes, OwnerInv, At, ledgerVars
  <2> QED BY <1>3, <2>1
<1>10. CASE RestoreConfig \/ RestoreFirewall \/ RestoreManifest
  <2>1. pending # None /\ UNCHANGED <<backups, pending>>
    BY <1>10 DEF RestoreConfig, RestoreFirewall, RestoreManifest, IInv, OwnerInv, At, ledgerVars
  <2> QED BY <1>3, <2>1
<1>11. ASSUME NEW t \in Tx, NEW g \in Groups, ReplayApply(t, g) PROVE UNCHANGED Store!storeVars
  BY <1>2, <1>11 DEF ReplayApply, fileVars, ledgerVars
<1>12. ASSUME NEW t \in Tx, BeginCommit(t) \/ RepeatCommit(t) PROVE UNCHANGED Store!storeVars
  BY <1>2, <1>12 DEF BeginCommit, RepeatCommit, fileVars, ledgerVars
<1>13. CASE \/ BeginManualRollback \/ BeginReconcile \/ BeginRestart \/ Boot \/ Timer
            \/ StepFails \/ Kill \/ Reboot \/ UNCHANGED vars
  BY <1>2, <1>13 DEF BeginManualRollback, BeginReconcile, BeginRestart, Boot, Timer,
     RecoverFindsNothing, BeginRecover, RecoverGivesUp, BootFirewall, BootCore, TimerElapses,
     BeginTimerRollback, TimerFindsNothing, StepFails, Raise, Kill, Reboot, vars, fileVars, ledgerVars
<1>14. CASE \/ CheckFails \/ ArmTimer \/ ArmRefused \/ VerifyPasses \/ VerifyFails \/ ReportPending
            \/ StopCore \/ RestartRules \/ RestartCore \/ DependenciesRefused
            \/ StopTimer \/ ReadMeta \/ MetaMissing \/ UnlinkMeta
  BY <1>2, <1>14 DEF CheckFails, ArmTimer, ArmRefused, VerifyPasses, VerifyFails,
     ReportPending, StopCore, RestartRules, RestartCore, DependenciesRefused, StopTimer,
     ReadMeta, MetaMissing, UnlinkMeta, Raise, fileVars, ledgerVars
<1> QED
  BY <1>5, <1>6, <1>7, <1>8, <1>9, <1>10, <1>11, <1>12, <1>13, <1>14 DEF Next, Requests, Work

\* apply(), commit() and rollback() together implement the two-phase store: what is
\* installed changes only when a commit accepts the proposal.
THEOREM Implementation == ASSUME RestoreIsAtomic PROVE Spec => ImplementsStore
<1>1. Init => Store!StoreInit
  BY DEF Init, Store!StoreInit, Store!FactoryFiles
<1>2. Spec => []IInv
  BY Inductive, RestoreIsAtomic
<1> QED BY <1>1, <1>2, StoreStep, PTL DEF Spec, ImplementsStore, Store!StoreSpec

\* With nothing pending the manifest decides what the other two files hold.
LEMMA InstalledNamed ==
    ASSUME IInv, NEW t \in Tx, pending = None, ManifestTx = t
    PROVE  Live = Whole([tx |-> t, groups |-> backups[t].candidate])
<1>1. manifest # None /\ manifest \in Version /\ manifest.tx = t
  BY ConstantsOK DEF ManifestTx, IInv, TypeOK
<1>2. manifest.groups = backups[t].candidate
  BY <1>1 DEF IInv, HistoryInv, Known
<1>3. manifest = [tx |-> t, groups |-> backups[t].candidate]
  BY <1>1, <1>2 DEF Version, Store!Version
<1>4. Live \in Store!Coherent /\ Live.manifest = manifest
  BY DEF IInv, FilesInv, Live
<1>5. Live = Whole(manifest)
  BY <1>1, <1>4 DEF Store!Coherent, Store!FactoryFiles, Whole, Store!Whole
<1> QED BY <1>3, <1>5

\* The steps that answer a caller.
LEMMA Answers ==
    ASSUME [Next]_vars, replies' # replies
    PROVE  \/ StopTimer \/ ReportPending
           \/ \E t \in Tx : RepeatCommit(t) \/ \E g \in Groups : ReplayApply(t, g)
<1>1. CASE Requests
  BY <1>1 DEF Requests, BeginApply, BeginCommit, BeginManualRollback, BeginReconcile, BeginRestart
<1>2. CASE Work
  BY <1>2 DEF Work, Snapshot, CheckFails, PublishPending, ArmTimer, ArmRefused, InstallConfig,
     InstallFirewall, VerifyPasses, VerifyFails, WriteManifest, StopCore, RestartRules,
     RestartCore, DependenciesRefused, ReadMeta, MetaMissing, RestoreConfig, RestoreFirewall,
     RestoreManifest, UnlinkMeta, RemovePending, Raise
<1>3. CASE Boot \/ Timer
  BY <1>3 DEF Boot, RecoverFindsNothing, BeginRecover, RecoverGivesUp, BootFirewall, BootCore,
     Timer, TimerElapses, BeginTimerRollback, TimerFindsNothing
<1>4. CASE StepFails \/ Kill \/ Reboot \/ UNCHANGED vars
  BY <1>4 DEF StepFails, Raise, Kill, Reboot, vars
<1> QED BY <1>1, <1>2, <1>3, <1>4 DEF Next

\* "committed" is answered only while the three files hold that transaction's version and
\* nothing is pending that could take it away.
THEOREM Acknowledged == ASSUME RestoreIsAtomic PROVE Spec => AcknowledgedIsInstalled
<1>1. ASSUME IInv, [Next]_vars, NEW t \in Tx, Said(t, "committed")', ~Said(t, "committed")
      PROVE  pending = None /\ Live = Whole([tx |-> t, groups |-> backups[t].candidate])
  <2>0. pending = None /\ ManifestTx = t
        => Live = Whole([tx |-> t, groups |-> backups[t].candidate])
    BY <1>1, InstalledNamed
  <2>1. CASE StopTimer
    <3>1. pending = None /\ op.tx = t /\ op.kind = "commit" /\ op.step = "timer"
      BY <1>1, <2>1 DEF StopTimer, Said, Reply, IInv, OwnerInv, At, RollbackKinds
    <3>2. ManifestTx = t
      BY <1>1, <3>1 DEF IInv, OwnerInv
    <3> QED BY <2>0, <3>1, <3>2
  <2>2. ASSUME NEW u \in Tx, RepeatCommit(u)
        PROVE  pending = None /\ ManifestTx = t
    BY <1>1, <2>2 DEF RepeatCommit, Said, Reply
  <2>3. ASSUME NEW u \in Tx, NEW g \in Groups, ReplayApply(u, g)
        PROVE  pending = None /\ ManifestTx = t
    <3>1. u = t /\ pending = None /\ manifest = [tx |-> t, groups |-> g]
      BY <1>1, <2>3 DEF ReplayApply, Said, Reply
    <3>2. manifest # None
      BY <3>1, NoneIsNoRecord DEF Store!Version
    <3> QED BY <3>1, <3>2 DEF ManifestTx
  <2>4. ~ReportPending
    BY <1>1 DEF ReportPending, Said, Reply
  <2> QED BY <1>1, <2>0, <2>1, <2>2, <2>3, <2>4, Answers DEF Said
<1>2. IInv /\ [Next]_vars =>
        [\A t \in Tx : Said(t, "committed")' /\ ~Said(t, "committed") =>
           /\ pending = None
           /\ Live = Whole([tx |-> t, groups |-> backups[t].candidate])]_vars
  BY <1>1
<1> QED BY Inductive, RestoreIsAtomic, <1>2, PTL DEF Spec, AcknowledgedIsInstalled

\* A caller that is told "pending" leaves the timer of that very transaction behind.
THEOREM Watched == Spec => TrialIsWatched
<1>1. ASSUME BaseInv, VerdictInv, [Next]_vars, NEW t \in Tx,
             Said(t, "pending")', ~Said(t, "pending")
      PROVE  timer.state # "off" /\ timer.tx = t /\ pending = t
  <2>1. ReportPending /\ op.tx = t
    BY <1>1, Answers DEF Said, Reply, StopTimer, ReportPending, RepeatCommit, ReplayApply
  <2>2. op.kind = "apply" /\ op.step = "report"
    BY <2>1 DEF ReportPending, At
  <2> QED BY <1>1, <2>1, <2>2 DEF VerdictInv, BaseInv, OwnerInv
<1>2. BaseInv /\ VerdictInv /\ [Next]_vars =>
        [\A t \in Tx : Said(t, "pending")' /\ ~Said(t, "pending") =>
           timer.state # "off" /\ timer.tx = t /\ pending = t]_vars
  BY <1>1
<1> QED BY BaseInit, BaseStep, VerdictInit, VerdictStep, <1>2, PTL DEF Spec, TrialIsWatched

-----------------------------------------------------------------------------
(* What EventuallyDecided and CoreReturns rest on: whoever lets a transaction  *)
(* go before it is decided leaves somebody behind who can decide it.           *)

\* The three windows after which nobody is left: pending published without its timer, the only
\* recovery of a boot, and pending without its meta.json; and requests before that recovery.
Windows == {<<"apply", "arm">>} \cup ({"boot"} \X RollbackSteps)

Watchful ==
    /\ QuietBoot
    /\ \A w \in Windows : w \notin FailAt \cup KillAt
    /\ \A k \in RollbackKinds \cup {"commit"} : <<k, "rmdir">> \notin FailAt \cup KillAt \cup RebootAt

\* A version on trial that no process works on can be found by a rollback, and a timer or the
\* recovery of the boot will begin one.
PendingHasDecider ==
    pending # None /\ op = Idle => meta /\ (timer.state # "off" \/ "recover" \in jobs)

DeciderInv ==
    /\ "recover" \in jobs => op = Idle \/ op.kind = "boot"
    /\ pending # None =>
          /\ meta \/ (op.kind \in RollbackKinds \cup {"commit"} /\ op.step = "rmdir")
          /\ \/ timer.state # "off" \/ "recover" \in jobs
             \/ op.kind = "apply" /\ op.step = "arm"

\* The timer is off again only when nothing is pending, or after a reboot, which queues the
\* recovery; that waits for nobody, since requests wait for it.
LEMMA DeciderStep == ASSUME Watchful PROVE BaseInv /\ DeciderInv /\ [Next]_vars => DeciderInv'
<1> SUFFICES ASSUME BaseInv, DeciderInv, [Next]_vars PROVE DeciderInv'
  OBVIOUS
<1> USE ConstantsOK DEF DeciderInv, ledgerVars, unitVars, At, Goto, Serve, Idle, RollbackKinds
<1>0. /\ op.kind = "none" <=> op.step = "idle"
      /\ op.kind = "none" => op # [kind |-> "apply", tx |-> op.tx, step |-> op.step]
      /\ op = [kind |-> op.kind, tx |-> op.tx, step |-> op.step]
      /\ op.kind \in RollbackKinds => (pending = None <=> op.step = "timer")
      /\ op.kind = "boot" => op.step \in RollbackSteps /\ "recover" \in jobs
      /\ op.kind = "apply" /\ op.step \in {"check", "publish"} => pending = None
      /\ op.kind = "commit" /\ op.step = "timer" => pending = None
  BY DEF BaseInv, TypeOK, OwnerInv, Processes
<1>1. CASE Requests
  BY <1>1, Watchful DEF Watchful, Requests, BeginApply, ReplayApply, BeginCommit, RepeatCommit,
                        BeginManualRollback, BeginReconcile, BeginRestart
<1>2. CASE Snapshot \/ CheckFails \/ PublishPending \/ ArmTimer
  BY <1>0, <1>2 DEF Snapshot, CheckFails, PublishPending, ArmTimer
<1>3. CASE InstallConfig \/ InstallFirewall \/ VerifyPasses \/ WriteManifest \/ ReportPending
           \/ StopCore
  BY <1>0, <1>3 DEF InstallConfig, InstallFirewall, VerifyPasses, WriteManifest, ReportPending, StopCore
<1>4. CASE RestartRules \/ RestartCore
  BY <1>0, <1>4 DEF RestartRules, RestartCore, AfterCore
<1>5. CASE ArmRefused \/ VerifyFails \/ DependenciesRefused \/ MetaMissing
  BY <1>0, <1>5 DEF ArmRefused, VerifyFails, DependenciesRefused, MetaMissing, Raise
<1>6. CASE StopTimer \/ ReadMeta \/ RestoreConfig \/ RestoreFirewall \/ RestoreManifest \/ UnlinkMeta
           \/ RemovePending
  BY <1>0, <1>6 DEF StopTimer, ReadMeta, RestoreConfig, RestoreFirewall, RestoreManifest, UnlinkMeta,
                    RemovePending
<1>7. CASE Boot
  BY <1>0, <1>7 DEF Boot, RecoverFindsNothing, BeginRecover, RecoverGivesUp, BootFirewall, BootCore
<1>8. CASE Timer
  <2>1. CASE TimerElapses
    <3>1. timer'.state = "firing"
      BY <2>1 DEF TimerElapses, BaseInv, TypeOK
    <3> QED BY <2>1, <3>1 DEF TimerElapses
  <2>2. CASE BeginTimerRollback
    BY <2>2, Watchful DEF Watchful, BeginTimerRollback
  <2>3. CASE TimerFindsNothing
    BY <2>3 DEF TimerFindsNothing
  <2> QED BY <1>8, <2>1, <2>2, <2>3 DEF Timer
<1>9. CASE StepFails \/ Kill
  <2>1. /\ <<op.kind, op.step>> \in FailAt \cup KillAt
        /\ <<op.kind, op.step>> \notin Windows
        /\ ~(op.kind \in RollbackKinds \cup {"commit"} /\ op.step = "rmdir")
    BY <1>9, Watchful DEF Watchful, StepFails, Kill
  <2>2. op.kind # "boot" /\ ~(op.kind = "apply" /\ op.step = "arm")
    BY <1>0, <2>1 DEF Windows
  <2> QED BY <1>0, <1>9, <2>1, <2>2 DEF StepFails, Kill, Raise
<1>10. CASE Reboot
  BY <1>0, <1>10, Watchful DEF Watchful, Reboot
<1>11. CASE UNCHANGED vars
  BY <1>11 DEF vars
<1> QED
  BY <1>1, <1>2, <1>3, <1>4, <1>5, <1>6, <1>7, <1>8, <1>9, <1>10, <1>11 DEF Next, Work

\* Kills, exceptions and reboots outside of the three windows never leave a transaction that
\* nobody will decide, which would refuse every later one.
THEOREM Decided == ASSUME Watchful PROVE Spec => []PendingHasDecider
<1>1. Init => DeciderInv
  BY DEF Init, DeciderInv
<1>2. BaseInv /\ DeciderInv /\ [Next]_vars => DeciderInv'
  BY DeciderStep
<1>3. DeciderInv => PendingHasDecider
  BY DEF DeciderInv, PendingHasDecider, Idle, RollbackKinds
<1> QED BY <1>1, <1>2, <1>3, BaseInit, BaseStep, PTL DEF Spec

\* Who ends a rollback has started the core, or leaves that to the boot.
CoreInv ==
    /\ op.kind \in {"undo", "timer", "manual"} /\ op.step \in {"unlink", "rmdir"} => service # Down
    /\ "recover" \in jobs => (op = Idle \/ op.kind = "boot") /\ "core" \in jobs

\* Only apply and rollback stop the core, and the boot alone works while its jobs wait.
LEMMA CoreStep == ASSUME QuietBoot PROVE BaseInv /\ CoreInv /\ [Next]_vars => CoreInv'
<1> SUFFICES ASSUME BaseInv, CoreInv, [Next]_vars PROVE CoreInv'
  OBVIOUS
<1> USE ConstantsOK DEF CoreInv, ledgerVars, unitVars, At, Goto, Serve, Idle, RollbackKinds
<1>0. /\ op.kind = "none" <=> op.step = "idle"
      /\ op = [kind |-> op.kind, tx |-> op.tx, step |-> op.step]
      /\ config # Down
      /\ op.kind = "boot" => "recover" \in jobs
  BY DEF BaseInv, TypeOK, OwnerInv, Processes, Contents
<1>1. CASE Requests
  BY <1>1 DEF Requests, BeginApply, ReplayApply, BeginCommit, RepeatCommit, BeginManualRollback,
              BeginReconcile, BeginRestart
<1>2. CASE Snapshot \/ CheckFails \/ PublishPending \/ ArmTimer \/ ArmRefused \/ InstallConfig
           \/ InstallFirewall \/ VerifyPasses \/ VerifyFails \/ WriteManifest \/ ReportPending
  BY <1>0, <1>2
     DEF Snapshot, CheckFails, PublishPending, ArmTimer, ArmRefused, InstallConfig, InstallFirewall,
         VerifyPasses, VerifyFails, WriteManifest, ReportPending, Raise
<1>3. CASE StopCore \/ RestartRules \/ RestartCore
  BY <1>0, <1>3 DEF StopCore, RestartRules, RestartCore, AfterCore
<1>4. CASE DependenciesRefused \/ MetaMissing
  BY <1>0, <1>4 DEF DependenciesRefused, MetaMissing, Raise
<1>5. CASE StopTimer \/ ReadMeta \/ RestoreConfig \/ RestoreFirewall
  BY <1>0, <1>5 DEF StopTimer, ReadMeta, RestoreConfig, RestoreFirewall
<1>6. CASE RestoreManifest \/ UnlinkMeta \/ RemovePending
  BY <1>0, <1>6 DEF RestoreManifest, UnlinkMeta, RemovePending
<1>7. CASE Boot
  BY <1>0, <1>7 DEF Boot, RecoverFindsNothing, BeginRecover, RecoverGivesUp, BootFirewall, BootCore
<1>8. CASE Timer
  BY <1>0, <1>8 DEF Timer, TimerElapses, BeginTimerRollback, TimerFindsNothing
<1>9. CASE StepFails \/ Kill \/ Reboot
  BY <1>0, <1>9 DEF StepFails, Kill, Reboot, Raise
<1>10. CASE UNCHANGED vars
  BY <1>10 DEF vars
<1> QED
  BY <1>1, <1>2, <1>3, <1>4, <1>5, <1>6, <1>7, <1>8, <1>9, <1>10 DEF Next, Work

\* A transaction that is not committed ends with the core running, or with the boot about to
\* start it.
CoreIsBack ==
    [][pending # None /\ pending' = None /\ op.kind # "commit" =>
         service' # Down \/ "core" \in jobs']_vars

\* No rollback, by apply(), the timer, root or the boot, ends with the core down, wherever
\* faults strike, when requests wait for the recovery of the boot.
THEOREM CoreBack == ASSUME QuietBoot PROVE Spec => CoreIsBack
<1>1. Init => CoreInv
  BY DEF Init, CoreInv, Idle
<1>2. BaseInv /\ CoreInv /\ [Next]_vars => CoreInv'
  BY CoreStep
<1>3. BaseInv /\ CoreInv /\ [Next]_vars =>
        [pending # None /\ pending' = None /\ op.kind # "commit" =>
           service' # Down \/ "core" \in jobs']_vars
  <2> SUFFICES ASSUME BaseInv, CoreInv, [Next]_vars, pending # None, pending' = None,
                      op.kind # "commit"
               PROVE  service' # Down \/ "core" \in jobs'
    OBVIOUS
  <2>1. ~Requests
    BY DEF Requests, BeginApply, ReplayApply, BeginCommit, RepeatCommit, BeginManualRollback,
           BeginReconcile, BeginRestart, ledgerVars
  <2>2. Work => RemovePending
    <3>1. ~(Snapshot \/ CheckFails \/ ArmTimer \/ ArmRefused \/ InstallConfig \/ InstallFirewall
            \/ VerifyPasses \/ VerifyFails \/ WriteManifest \/ ReportPending)
      BY DEF Snapshot, CheckFails, ArmTimer, ArmRefused, InstallConfig, InstallFirewall, VerifyPasses,
             VerifyFails, WriteManifest, ReportPending, Raise, ledgerVars
    <3>2. ~(StopCore \/ RestartRules \/ RestartCore \/ DependenciesRefused \/ StopTimer)
      BY DEF StopCore, RestartRules, RestartCore, DependenciesRefused, StopTimer, Raise, ledgerVars
    <3>3. ~(ReadMeta \/ MetaMissing \/ RestoreConfig \/ RestoreFirewall \/ RestoreManifest
            \/ UnlinkMeta)
      BY DEF ReadMeta, MetaMissing, RestoreConfig, RestoreFirewall, RestoreManifest, UnlinkMeta, Raise,
             ledgerVars
    <3>4. ~PublishPending
      BY DEF PublishPending, BaseInv, OwnerInv, At
    <3> QED BY <3>1, <3>2, <3>3, <3>4 DEF Work
  <2>3. ~(Boot \/ Timer \/ StepFails \/ Kill \/ Reboot \/ UNCHANGED vars)
    BY DEF Boot, RecoverFindsNothing, BeginRecover, RecoverGivesUp, BootFirewall, BootCore, Timer,
           TimerElapses, BeginTimerRollback, TimerFindsNothing, StepFails, Kill, Reboot, Raise,
           vars, ledgerVars
  <2>4. RemovePending
    BY <2>1, <2>2, <2>3 DEF Next
  <2> QED
    BY <2>4 DEF RemovePending, BaseInv, OwnerInv, CoreInv, At, RollbackKinds
<1> QED BY <1>1, <1>2, <1>3, BaseInit, BaseStep, PTL DEF Spec, CoreIsBack

=============================================================================
