--------------------------- MODULE DeploymentProofs ---------------------------
(***************************************************************************)
(* Proofs about Deployment, for any holders of the lock that take long,    *)
(* any steps that may fail, any faults and jobs, and restarts or none.     *)
(***************************************************************************)
EXTENDS Deployment, TLAPS

-----------------------------------------------------------------------------
(* The hypothesis of DeployedIsHardened, and the inductive invariant *)

\* What DeployedIsHardened leaves out: a rollback that is cut off before it is through.
RollbacksFinish == "rollback" \notin KillAt \cup RebootAt

\* The lane works on the active row, and that row runs.
RowInv ==
    /\ job # None => jobs >= 1
    /\ lane.step \in Steps => job.state = "RUNNING" /\ lane.id = jobs
    /\ lane.step \in Steps \ {"inspect", "success", "fail"} => lane.kind = "deploy"
    /\ At("inspect") => lane.kind # "deploy"
    /\ At("forget") => ~Interrupted

\* Whoever gets as far as the keys has a gateway; without one the login is the first login, and
\* the controller still has its credential.
AccessInv ==
    /\ lane.step \in {"keys", "harden", "reconnect", "commit", "success"} => installed = "ready"
    /\ installed # "ready" =>
          /\ conf = "password" /\ sshd = "password" /\ backup = None
          /\ holder.kind \in Bootstraps \cup {"none"}
          /\ bootstrap # None

\* Commands and answers are of jobs that were taken.
IdInv ==
    /\ \A m \in net : m.id <= jobs
    /\ \A a \in mail : a.id <= jobs
    /\ holder.id <= jobs
    /\ job # None /\ job.state = "QUEUED" =>
          /\ \A m \in net : m.id < jobs
          /\ \A a \in mail : a.id < jobs
          /\ holder.id < jobs

\* No answer waits for a lane that has not asked.
MailInv ==
    lane.step \in {"connect", "install", "reinstall", "https", "keys", "reconnect"} =>
        \A a \in mail : a.id # lane.id

Said(step) == At(step) /\ [id |-> lane.id, ok |-> TRUE] \in mail

\* Steps of a deployment before it has sent its harden, and from then on.
Before == {"connect", "install", "installing", "reinstall", "reinstalling", "https", "keys"}
Since == {"harden", "reconnect", "commit"}

\* The harden of the lane's own job is sent once, and no other overtakes it.
HardenInv ==
    /\ Holds("harden", "reload") => conf = "key-only"
    /\ lane.step \in Before =>
          /\ \A m \in net : m.id = lane.id => m.kind # "harden"
          /\ holder.kind = "harden" => holder.id # lane.id
    /\ lane.step \in Since => \A m \in net : m.id = lane.id
    /\ At("harden") /\ holder.kind = "harden" /\ holder.id = lane.id =>
          \A m \in net : m.kind # "harden"

Quiet == holder.kind # "harden" /\ \A m \in net : m.kind # "harden"

\* From the answer to harden on, what is on trial is key-only, or a rollback is at work.
TrialInv ==
    Said("harden") \/ lane.step \in {"reconnect", "commit"} =>
        /\ Quiet
        /\ backup # None => (conf = "key-only" /\ sshd = "key-only") \/ holder.kind = "rollback"

\* From the answer to commit on, nothing is on trial.
DoneInv ==
    Said("commit") \/ (At("success") /\ lane.kind = "deploy") =>
        /\ Quiet
        /\ confirmed /\ backup = None /\ conf = "key-only" /\ sshd = "key-only"

-----------------------------------------------------------------------------
(* Its parts *)

\* An answer is one, of a job.
LEMMA AnswerIs ==
    ASSUME TypeOK, NEW c, c \in Holder \/ c \in [id : 1..MaxJobs, kind : Commands],
           NEW ok \in BOOLEAN, Answer(c, ok)
    PROVE  mail' \subseteq [id : 1..MaxJobs, ok : BOOLEAN]
<1>1. CASE lane.id = c.id /\ lane.step = c.kind
  <2>1. lane.step \in Steps
    BY <1>1 DEF TypeOK, Lanes, Holder, Commands, Bootstraps, Steps
  <2>2. lane.id \in 1..MaxJobs
    BY <2>1, BoundsOK DEF TypeOK, Lanes
  <2> QED BY <1>1, <2>2 DEF TypeOK, Answer
<1> QED BY <1>1 DEF TypeOK, Answer

\* The server's files and lock, the rows and the lane keep their shapes.
LEMMA TypeInit == Init => TypeOK
<1>1. Init => excused \in BOOLEAN /\ confirmed \in BOOLEAN /\ probing \in BOOLEAN
  BY Zenon DEF Init
<1> QED BY <1>1, BoundsOK, NoneOK DEF Init, TypeOK, Free, Idle, Steps, Commands, Bootstraps,
           Logins, Job, Holder, Lanes

\* Answers included, whoever gives them.
LEMMA TypeStep == TypeOK /\ RowInv /\ [Next]_vars => TypeOK'
<1> SUFFICES ASSUME TypeOK, RowInv, [Next]_vars PROVE TypeOK'
  OBVIOUS
<1> USE BoundsOK, NoneOK, StepsOK DEF TypeOK, RowInv, Answer, Steps, Commands, Bootstraps,
    Logins, Job, Holder, Lanes, Free, Idle, AfterAnswer, serverVars, rowVars, history, At,
    Goto, LaneOnly, Send, ServerOnly, Begin, Next_, Holds, Strike, Interrupted, RecoverJob
<1>1. CASE Take
  BY <1>1 DEF Take
<1>2. CASE RecordSuccess
  BY <1>2 DEF RecordSuccess
<1>3. CASE RecordFailure
  BY <1>3 DEF RecordFailure, FailedStatus
<1>4. CASE RecoverLane
  BY <1>4 DEF RecoverLane
<1>5. ASSUME NEW ok \in BOOLEAN, Reconcile(ok) PROVE TypeOK'
  BY <1>5 DEF Reconcile
<1>6. CASE Install
  BY <1>6 DEF Install
<1>7. CASE InstallFails
  BY <1>7 DEF InstallFails
<1>8. CASE Reinstall
  BY <1>8 DEF Reinstall
<1>9. CASE VerifyHttps
  BY <1>9 DEF VerifyHttps
<1>10. CASE VerifyKeys
  BY <1>10 DEF VerifyKeys
<1>11. CASE Reconnect
  BY <1>11 DEF Reconnect
<1>12. CASE Answered
  BY <1>12 DEF Answered
<1>13. CASE Inspect
  BY <1>13 DEF Inspect
<1>14. CASE Fails
  BY <1>14 DEF Fails
<1>15. ASSUME NEW m \in net, Refused(m) PROVE TypeOK'
  <2>1. mail' \subseteq [id : 1..MaxJobs, ok : BOOLEAN]
    BY <1>15, AnswerIs DEF Refused
  <2> QED BY <1>15, <2>1 DEF Refused
<1>16. ASSUME NEW m \in net, BeginBootstrap(m) PROVE TypeOK'
  BY <1>16 DEF BeginBootstrap
<1>17. ASSUME NEW m \in net, BeginHarden(m) PROVE TypeOK'
  BY <1>17 DEF BeginHarden
<1>18. ASSUME NEW m \in net, BeginCommit(m) PROVE TypeOK'
  BY <1>18 DEF BeginCommit
<1>19. CASE InstallKeys
  BY <1>19 DEF InstallKeys
<1>20. CASE InstallComponents
  <2>1. mail' \subseteq [id : 1..MaxJobs, ok : BOOLEAN]
    BY <1>20, AnswerIs DEF InstallComponents
  <2> QED BY <1>20, <2>1 DEF InstallComponents
<1>21. CASE BootstrapFails
  <2>1. mail' \subseteq [id : 1..MaxJobs, ok : BOOLEAN]
    BY <1>21, AnswerIs DEF BootstrapFails
  <2> QED BY <1>21, <2>1 DEF BootstrapFails
<1>22. CASE SaveLogin
  BY <1>22 DEF SaveLogin
<1>23. CASE StartTimer
  BY <1>23 DEF StartTimer
<1>24. CASE TimerRefused
  <2>1. excused' \in BOOLEAN /\ confirmed' \in BOOLEAN /\ probing' \in BOOLEAN
    BY <1>24, Zenon DEF TypeOK, TimerRefused
  <2>2. mail' \subseteq [id : 1..MaxJobs, ok : BOOLEAN]
    BY <1>24, AnswerIs DEF TimerRefused
  <2> QED BY <1>24, <2>1, <2>2 DEF TimerRefused
<1>25. CASE WriteLogin
  BY <1>25 DEF WriteLogin
<1>26. CASE ReloadFails
  <2>1. excused' \in BOOLEAN /\ confirmed' \in BOOLEAN /\ probing' \in BOOLEAN
    BY <1>26, Zenon DEF TypeOK, ReloadFails
  <2>2. mail' \subseteq [id : 1..MaxJobs, ok : BOOLEAN]
    BY <1>26, AnswerIs DEF ReloadFails
  <2> QED BY <1>26, <2>1, <2>2 DEF ReloadFails
<1>27. CASE StopTimer
  BY <1>27 DEF StopTimer
<1>28. ASSUME NEW ok \in BOOLEAN, Reload(ok) PROVE TypeOK'
  BY <1>28 DEF Reload
<1>29. ASSUME NEW ok \in BOOLEAN, Confirm(ok) PROVE TypeOK'
  <2>1. excused' \in BOOLEAN /\ confirmed' \in BOOLEAN /\ probing' \in BOOLEAN
    BY <1>29, Zenon DEF TypeOK, Confirm
  <2>2. mail' \subseteq [id : 1..MaxJobs, ok : BOOLEAN]
    BY <1>29, AnswerIs DEF Confirm
  <2> QED BY <1>29, <2>1, <2>2 DEF Confirm
<1>30. CASE RestoreLogin
  BY <1>30 DEF RestoreLogin
<1>31. CASE ReloadRestored
  BY <1>31 DEF ReloadRestored
<1>32. CASE UnlinkBackup
  <2>1. excused' \in BOOLEAN /\ confirmed' \in BOOLEAN /\ probing' \in BOOLEAN
    BY <1>32, Zenon DEF TypeOK, UnlinkBackup
  <2>2. mail' \subseteq [id : 1..MaxJobs, ok : BOOLEAN]
    BY <1>32 DEF UnlinkBackup
  <2> QED BY <1>32, <2>1, <2>2 DEF UnlinkBackup
<1>33. CASE EndConfiguration
  BY <1>33 DEF EndConfiguration
<1>34. CASE TimerElapses
  BY <1>34 DEF TimerElapses
<1>35. CASE RollbackFindsNothing
  BY <1>35 DEF RollbackFindsNothing
<1>36. CASE BeginRollback
  BY <1>36 DEF BeginRollback
<1>37. ASSUME NEW kind \in {"deploy", "check", "restart"}, Enqueue(kind) PROVE TypeOK'
  BY <1>37 DEF Enqueue
<1>38. CASE BeginConfiguration
  BY <1>38 DEF BeginConfiguration
<1>39. CASE RollbackOutwaited
  BY <1>39 DEF RollbackOutwaited
<1>40. CASE Kill
  <2>1. excused' \in BOOLEAN /\ confirmed' \in BOOLEAN /\ probing' \in BOOLEAN
    BY <1>40, Zenon DEF TypeOK, Kill
  <2>2. mail' \subseteq [id : 1..MaxJobs, ok : BOOLEAN]
    BY <1>40, AnswerIs DEF Kill
  <2> QED BY <1>40, <2>1, <2>2 DEF Kill
<1>41. CASE Reboot
  <2>1. excused' \in BOOLEAN /\ confirmed' \in BOOLEAN /\ probing' \in BOOLEAN
    BY <1>41, Zenon DEF TypeOK, Reboot
  <2>2. lane.step \in Commands => lane.id \in 1..MaxJobs
    OBVIOUS
  <2>3. mail' \subseteq [id : 1..MaxJobs, ok : BOOLEAN]
    <3>1. CASE lane.step \in Commands
      <4>1. [id |-> lane.id, ok |-> FALSE] \in [id : 1..MaxJobs, ok : BOOLEAN]
        BY <2>2, <3>1
      <4>2. mail' = mail \cup {[id |-> lane.id, ok |-> FALSE]}
        BY <1>41, <3>1 DEF Reboot
      <4> QED BY <4>1, <4>2
    <3>2. CASE lane.step \notin Commands
      BY <1>41, <3>2 DEF Reboot
    <3> QED BY <3>1, <3>2
  <2> QED BY <1>41, <2>1, <2>3 DEF Reboot
<1>42. CASE DbFails
  BY <1>42 DEF DbFails
<1>43. CASE Restart
  <2>1. excused' \in BOOLEAN /\ confirmed' \in BOOLEAN /\ probing' \in BOOLEAN
    BY <1>43, Zenon DEF TypeOK, Restart
  <2>2. mail' \subseteq [id : 1..MaxJobs, ok : BOOLEAN]
    BY <1>43 DEF Restart
  <2> QED BY <1>43, <2>1, <2>2 DEF Restart
<1>44. CASE ProbeHealth
  BY <1>44 DEF ProbeHealth
<1>45. ASSUME NEW good \in BOOLEAN, RecordHealth(good) PROVE TypeOK'
  <2>1. excused' \in BOOLEAN /\ confirmed' \in BOOLEAN /\ probing' \in BOOLEAN
    BY <1>45, Zenon DEF TypeOK, RecordHealth
  <2>2. mail' \subseteq [id : 1..MaxJobs, ok : BOOLEAN]
    BY <1>45 DEF RecordHealth
  <2> QED BY <1>45, <2>1, <2>2 DEF RecordHealth
<1>47. CASE ForgetCredential
  BY <1>47 DEF ForgetCredential
<1>48. CASE CredentialStays
  BY <1>48 DEF CredentialStays, FailedStatus
<1>46. CASE UNCHANGED vars
  BY <1>46 DEF vars
<1> QED
  BY <1>1, <1>2, <1>3, <1>4, <1>5, <1>6, <1>7, <1>8, <1>9, <1>10, <1>11, <1>12, <1>13, <1>14,
     <1>15, <1>16, <1>17, <1>18, <1>19, <1>20, <1>21, <1>22, <1>23, <1>24, <1>25, <1>26,
     <1>27, <1>28, <1>29, <1>30, <1>31, <1>32, <1>33, <1>34, <1>35, <1>36, <1>37, <1>38,
     <1>39, <1>40, <1>41, <1>42, <1>43, <1>44, <1>45, <1>46, <1>47, <1>48
     DEF Next, Lane, Server, Timer, Environment

\* The lane works on the active row.
LEMMA RowInit == Init => RowInv
  BY BoundsOK, NoneOK, StepsOK DEF Init, RowInv, Free, Idle, Steps, Commands, Bootstraps,
     Logins, Job, Holder, Lanes, Before, Since, Holds, At

\* Whatever fails, and whoever restarts.
LEMMA RowStep == TypeOK /\ RowInv /\ [Next]_vars => RowInv'
<1> SUFFICES ASSUME TypeOK, RowInv, [Next]_vars PROVE RowInv'
  OBVIOUS
<1> USE BoundsOK, NoneOK, StepsOK DEF TypeOK, RowInv, Steps, Commands, Bootstraps, Job, Lanes,
    Idle, AfterAnswer, serverVars, rowVars, history, At, Goto, LaneOnly, Send, ServerOnly,
    Begin, Next_, Holds, Strike, Interrupted, RecoverJob
<1>1. CASE Take
  BY <1>1 DEF Take
<1>2. CASE RecordSuccess
  BY <1>2 DEF RecordSuccess
<1>3. CASE RecordFailure
  BY <1>3 DEF RecordFailure
<1>4. CASE RecoverLane
  BY <1>4 DEF RecoverLane
<1>5. ASSUME NEW ok \in BOOLEAN, Reconcile(ok) PROVE RowInv'
  BY <1>5 DEF Reconcile
<1>6. CASE Install
  BY <1>6 DEF Install
<1>7. CASE InstallFails
  BY <1>7 DEF InstallFails
<1>8. CASE Reinstall
  BY <1>8 DEF Reinstall
<1>9. CASE VerifyHttps
  BY <1>9 DEF VerifyHttps
<1>10. CASE VerifyKeys
  BY <1>10 DEF VerifyKeys
<1>11. CASE Reconnect
  BY <1>11 DEF Reconnect
<1>12. CASE Answered
  BY <1>12 DEF Answered
<1>13. CASE Inspect
  BY <1>13 DEF Inspect
<1>14. CASE Fails
  BY <1>14 DEF Fails
<1>15. ASSUME NEW m \in net, Refused(m) PROVE RowInv'
  BY <1>15 DEF Refused
<1>16. ASSUME NEW m \in net, BeginBootstrap(m) PROVE RowInv'
  BY <1>16 DEF BeginBootstrap
<1>17. ASSUME NEW m \in net, BeginHarden(m) PROVE RowInv'
  BY <1>17 DEF BeginHarden
<1>18. ASSUME NEW m \in net, BeginCommit(m) PROVE RowInv'
  BY <1>18 DEF BeginCommit
<1>19. CASE InstallKeys
  BY <1>19 DEF InstallKeys
<1>20. CASE InstallComponents
  BY <1>20 DEF InstallComponents
<1>21. CASE BootstrapFails
  BY <1>21 DEF BootstrapFails
<1>22. CASE SaveLogin
  BY <1>22 DEF SaveLogin
<1>23. CASE StartTimer
  BY <1>23 DEF StartTimer
<1>24. CASE TimerRefused
  BY <1>24 DEF TimerRefused
<1>25. CASE WriteLogin
  BY <1>25 DEF WriteLogin
<1>26. CASE ReloadFails
  BY <1>26 DEF ReloadFails
<1>27. CASE StopTimer
  BY <1>27 DEF StopTimer
<1>28. ASSUME NEW ok \in BOOLEAN, Reload(ok) PROVE RowInv'
  BY <1>28 DEF Reload
<1>29. ASSUME NEW ok \in BOOLEAN, Confirm(ok) PROVE RowInv'
  BY <1>29 DEF Confirm
<1>30. CASE RestoreLogin
  BY <1>30 DEF RestoreLogin
<1>31. CASE ReloadRestored
  BY <1>31 DEF ReloadRestored
<1>32. CASE UnlinkBackup
  BY <1>32 DEF UnlinkBackup
<1>33. CASE EndConfiguration
  BY <1>33 DEF EndConfiguration
<1>34. CASE TimerElapses
  BY <1>34 DEF TimerElapses
<1>35. CASE RollbackFindsNothing
  BY <1>35 DEF RollbackFindsNothing
<1>36. CASE BeginRollback
  BY <1>36 DEF BeginRollback
<1>37. ASSUME NEW kind \in {"deploy", "check", "restart"}, Enqueue(kind) PROVE RowInv'
  BY <1>37 DEF Enqueue
<1>38. CASE BeginConfiguration
  BY <1>38 DEF BeginConfiguration
<1>39. CASE RollbackOutwaited
  BY <1>39 DEF RollbackOutwaited
<1>40. CASE Kill
  BY <1>40 DEF Kill
<1>41. CASE Reboot
  BY <1>41 DEF Reboot
<1>42. CASE DbFails
  BY <1>42 DEF DbFails
<1>43. CASE Restart
  BY <1>43 DEF Restart
<1>44. CASE ProbeHealth
  BY <1>44 DEF ProbeHealth
<1>45. ASSUME NEW good \in BOOLEAN, RecordHealth(good) PROVE RowInv'
  BY <1>45 DEF RecordHealth
<1>47. CASE ForgetCredential
  BY <1>47 DEF ForgetCredential
<1>48. CASE CredentialStays
  BY <1>48 DEF CredentialStays, FailedStatus
<1>46. CASE UNCHANGED vars
  BY <1>46 DEF vars
<1> QED
  BY <1>1, <1>2, <1>3, <1>4, <1>5, <1>6, <1>7, <1>8, <1>9, <1>10, <1>11, <1>12, <1>13, <1>14,
     <1>15, <1>16, <1>17, <1>18, <1>19, <1>20, <1>21, <1>22, <1>23, <1>24, <1>25, <1>26,
     <1>27, <1>28, <1>29, <1>30, <1>31, <1>32, <1>33, <1>34, <1>35, <1>36, <1>37, <1>38,
     <1>39, <1>40, <1>41, <1>42, <1>43, <1>44, <1>45, <1>46, <1>47, <1>48
     DEF Next, Lane, Server, Timer, Environment

\* The first credential goes only when the gateway has its own keys.
LEMMA AccessInit == Init => AccessInv
  BY BoundsOK, NoneOK, StepsOK DEF Init, AccessInv, Free, Idle, Steps, Commands, Bootstraps,
     Logins, Job, Holder, Lanes, Before, Since, Holds, At

\* Only a success drops the credential, and only bootstrap.sh gets a lane that far.
LEMMA AccessStep == TypeOK /\ RowInv /\ AccessInv /\ [Next]_vars => AccessInv'
<1> SUFFICES ASSUME TypeOK, RowInv, AccessInv, [Next]_vars PROVE AccessInv'
  OBVIOUS
<1> USE NoneOK, StepsOK DEF TypeOK, AccessInv, Steps, Commands, Bootstraps, Holder, Lanes,
    Free, Idle, AfterAnswer, serverVars, rowVars, history, At, Goto, LaneOnly, Send,
    ServerOnly, Begin, Next_, Holds, Strike, Interrupted, RecoverJob
<1>1. CASE Take
  BY <1>1 DEF Take
<1>2. CASE RecordSuccess
  BY <1>2 DEF RecordSuccess
<1>3. CASE RecordFailure
  BY <1>3 DEF RecordFailure
<1>4. CASE RecoverLane
  BY <1>4 DEF RecoverLane
<1>5. ASSUME NEW ok \in BOOLEAN, Reconcile(ok) PROVE AccessInv'
  BY <1>5 DEF Reconcile
<1>6. CASE Install
  BY <1>6 DEF Install
<1>7. CASE InstallFails
  BY <1>7 DEF InstallFails
<1>8. CASE Reinstall
  BY <1>8 DEF Reinstall
<1>9. CASE VerifyHttps
  BY <1>9 DEF VerifyHttps
<1>10. CASE VerifyKeys
  BY <1>10 DEF VerifyKeys
<1>11. CASE Reconnect
  BY <1>11 DEF Reconnect
<1>12. CASE Answered
  BY <1>12 DEF Answered
<1>13. CASE Inspect
  BY <1>13 DEF Inspect
<1>14. CASE Fails
  BY <1>14 DEF Fails
<1>15. ASSUME NEW m \in net, Refused(m) PROVE AccessInv'
  BY <1>15 DEF Refused
<1>16. ASSUME NEW m \in net, BeginBootstrap(m) PROVE AccessInv'
  BY <1>16 DEF BeginBootstrap
<1>17. ASSUME NEW m \in net, BeginHarden(m) PROVE AccessInv'
  BY <1>17 DEF BeginHarden
<1>18. ASSUME NEW m \in net, BeginCommit(m) PROVE AccessInv'
  BY <1>18 DEF BeginCommit
<1>19. CASE InstallKeys
  BY <1>19 DEF InstallKeys
<1>20. CASE InstallComponents
  BY <1>20 DEF InstallComponents
<1>21. CASE BootstrapFails
  BY <1>21 DEF BootstrapFails
<1>22. CASE SaveLogin
  BY <1>22 DEF SaveLogin
<1>23. CASE StartTimer
  BY <1>23 DEF StartTimer
<1>24. CASE TimerRefused
  BY <1>24 DEF TimerRefused
<1>25. CASE WriteLogin
  BY <1>25 DEF WriteLogin
<1>26. CASE ReloadFails
  BY <1>26 DEF ReloadFails
<1>27. CASE StopTimer
  BY <1>27 DEF StopTimer
<1>28. ASSUME NEW ok \in BOOLEAN, Reload(ok) PROVE AccessInv'
  BY <1>28 DEF Reload
<1>29. ASSUME NEW ok \in BOOLEAN, Confirm(ok) PROVE AccessInv'
  BY <1>29 DEF Confirm
<1>30. CASE RestoreLogin
  BY <1>30 DEF RestoreLogin
<1>31. CASE ReloadRestored
  BY <1>31 DEF ReloadRestored
<1>32. CASE UnlinkBackup
  BY <1>32 DEF UnlinkBackup
<1>33. CASE EndConfiguration
  BY <1>33 DEF EndConfiguration
<1>34. CASE TimerElapses
  BY <1>34 DEF TimerElapses
<1>35. CASE RollbackFindsNothing
  BY <1>35 DEF RollbackFindsNothing
<1>36. CASE BeginRollback
  BY <1>36 DEF BeginRollback
<1>37. ASSUME NEW kind \in {"deploy", "check", "restart"}, Enqueue(kind) PROVE AccessInv'
  BY <1>37 DEF Enqueue
<1>38. CASE BeginConfiguration
  BY <1>38 DEF BeginConfiguration
<1>39. CASE RollbackOutwaited
  BY <1>39 DEF RollbackOutwaited
<1>40. CASE Kill
  BY <1>40 DEF Kill
<1>41. CASE Reboot
  BY <1>41 DEF Reboot
<1>42. CASE DbFails
  BY <1>42 DEF DbFails
<1>43. CASE Restart
  BY <1>43 DEF Restart
<1>44. CASE ProbeHealth
  BY <1>44 DEF ProbeHealth
<1>45. ASSUME NEW good \in BOOLEAN, RecordHealth(good) PROVE AccessInv'
  BY <1>45 DEF RecordHealth
<1>47. CASE ForgetCredential
  BY <1>47 DEF ForgetCredential
<1>48. CASE CredentialStays
  BY <1>48 DEF CredentialStays, FailedStatus
<1>46. CASE UNCHANGED vars
  BY <1>46 DEF vars
<1> QED
  BY <1>1, <1>2, <1>3, <1>4, <1>5, <1>6, <1>7, <1>8, <1>9, <1>10, <1>11, <1>12, <1>13, <1>14,
     <1>15, <1>16, <1>17, <1>18, <1>19, <1>20, <1>21, <1>22, <1>23, <1>24, <1>25, <1>26,
     <1>27, <1>28, <1>29, <1>30, <1>31, <1>32, <1>33, <1>34, <1>35, <1>36, <1>37, <1>38,
     <1>39, <1>40, <1>41, <1>42, <1>43, <1>44, <1>45, <1>46, <1>47, <1>48
     DEF Next, Lane, Server, Timer, Environment

\* Nothing is sent for a job that was not taken.
LEMMA IdInit == Init => IdInv
  BY BoundsOK, NoneOK, StepsOK DEF Init, IdInv, Free, Idle, Steps, Commands, Bootstraps,
     Logins, Job, Holder, Lanes, Before, Since, Holds, At

\* A new job gets a new number.
LEMMA IdStep == TypeOK /\ RowInv /\ IdInv /\ [Next]_vars => IdInv'
<1> SUFFICES ASSUME TypeOK, RowInv, IdInv, [Next]_vars PROVE IdInv'
  OBVIOUS
<1> USE NoneOK, StepsOK DEF TypeOK, RowInv, IdInv, Answer, Steps, Commands, Bootstraps, Job,
    Holder, Lanes, Free, Idle, AfterAnswer, serverVars, rowVars, history, At, Goto, LaneOnly,
    Send, ServerOnly, Begin, Next_, Holds, Strike, Interrupted, RecoverJob
<1>1. CASE Take
  BY <1>1 DEF Take
<1>2. CASE RecordSuccess
  BY <1>2 DEF RecordSuccess
<1>3. CASE RecordFailure
  BY <1>3 DEF RecordFailure
<1>4. CASE RecoverLane
  BY <1>4 DEF RecoverLane
<1>5. ASSUME NEW ok \in BOOLEAN, Reconcile(ok) PROVE IdInv'
  BY <1>5 DEF Reconcile
<1>6. CASE Install
  BY <1>6 DEF Install
<1>7. CASE InstallFails
  BY <1>7 DEF InstallFails
<1>8. CASE Reinstall
  BY <1>8 DEF Reinstall
<1>9. CASE VerifyHttps
  BY <1>9 DEF VerifyHttps
<1>10. CASE VerifyKeys
  BY <1>10 DEF VerifyKeys
<1>11. CASE Reconnect
  BY <1>11 DEF Reconnect
<1>12. CASE Answered
  BY <1>12 DEF Answered
<1>13. CASE Inspect
  BY <1>13 DEF Inspect
<1>14. CASE Fails
  BY <1>14 DEF Fails
<1>15. ASSUME NEW m \in net, Refused(m) PROVE IdInv'
  BY <1>15 DEF Refused
<1>16. ASSUME NEW m \in net, BeginBootstrap(m) PROVE IdInv'
  BY <1>16 DEF BeginBootstrap
<1>17. ASSUME NEW m \in net, BeginHarden(m) PROVE IdInv'
  BY <1>17 DEF BeginHarden
<1>18. ASSUME NEW m \in net, BeginCommit(m) PROVE IdInv'
  BY <1>18 DEF BeginCommit
<1>19. CASE InstallKeys
  BY <1>19 DEF InstallKeys
<1>20. CASE InstallComponents
  BY <1>20 DEF InstallComponents
<1>21. CASE BootstrapFails
  BY <1>21 DEF BootstrapFails
<1>22. CASE SaveLogin
  BY <1>22 DEF SaveLogin
<1>23. CASE StartTimer
  BY <1>23 DEF StartTimer
<1>24. CASE TimerRefused
  BY <1>24 DEF TimerRefused
<1>25. CASE WriteLogin
  BY <1>25 DEF WriteLogin
<1>26. CASE ReloadFails
  BY <1>26 DEF ReloadFails
<1>27. CASE StopTimer
  BY <1>27 DEF StopTimer
<1>28. ASSUME NEW ok \in BOOLEAN, Reload(ok) PROVE IdInv'
  BY <1>28 DEF Reload
<1>29. ASSUME NEW ok \in BOOLEAN, Confirm(ok) PROVE IdInv'
  BY <1>29 DEF Confirm
<1>30. CASE RestoreLogin
  BY <1>30 DEF RestoreLogin
<1>31. CASE ReloadRestored
  BY <1>31 DEF ReloadRestored
<1>32. CASE UnlinkBackup
  BY <1>32 DEF UnlinkBackup
<1>33. CASE EndConfiguration
  BY <1>33 DEF EndConfiguration
<1>34. CASE TimerElapses
  BY <1>34 DEF TimerElapses
<1>35. CASE RollbackFindsNothing
  BY <1>35 DEF RollbackFindsNothing
<1>36. CASE BeginRollback
  BY <1>36 DEF BeginRollback
<1>37. ASSUME NEW kind \in {"deploy", "check", "restart"}, Enqueue(kind) PROVE IdInv'
  BY <1>37 DEF Enqueue
<1>38. CASE BeginConfiguration
  BY <1>38 DEF BeginConfiguration
<1>39. CASE RollbackOutwaited
  BY <1>39 DEF RollbackOutwaited
<1>40. CASE Kill
  BY <1>40 DEF Kill
<1>41. CASE Reboot
  BY <1>41 DEF Reboot
<1>42. CASE DbFails
  BY <1>42 DEF DbFails
<1>43. CASE Restart
  BY <1>43 DEF Restart
<1>44. CASE ProbeHealth
  BY <1>44 DEF ProbeHealth
<1>45. ASSUME NEW good \in BOOLEAN, RecordHealth(good) PROVE IdInv'
  BY <1>45 DEF RecordHealth
<1>47. CASE ForgetCredential
  BY <1>47 DEF ForgetCredential
<1>48. CASE CredentialStays
  BY <1>48 DEF CredentialStays, FailedStatus
<1>46. CASE UNCHANGED vars
  BY <1>46 DEF vars
<1> QED
  BY <1>1, <1>2, <1>3, <1>4, <1>5, <1>6, <1>7, <1>8, <1>9, <1>10, <1>11, <1>12, <1>13, <1>14,
     <1>15, <1>16, <1>17, <1>18, <1>19, <1>20, <1>21, <1>22, <1>23, <1>24, <1>25, <1>26,
     <1>27, <1>28, <1>29, <1>30, <1>31, <1>32, <1>33, <1>34, <1>35, <1>36, <1>37, <1>38,
     <1>39, <1>40, <1>41, <1>42, <1>43, <1>44, <1>45, <1>46, <1>47, <1>48
     DEF Next, Lane, Server, Timer, Environment

\* An answer is taken, or dropped, before the lane goes on.
LEMMA MailInit == Init => MailInv
  BY BoundsOK, NoneOK, StepsOK DEF Init, MailInv, Free, Idle, Steps, Commands, Bootstraps,
     Logins, Job, Holder, Lanes, Before, Since, Holds, At

\* Those of earlier jobs have lower numbers.
LEMMA MailStep == TypeOK /\ RowInv /\ IdInv /\ MailInv /\ [Next]_vars => MailInv'
<1> SUFFICES ASSUME TypeOK, RowInv, IdInv, MailInv, [Next]_vars PROVE MailInv'
  OBVIOUS
<1> USE NoneOK, StepsOK DEF TypeOK, RowInv, IdInv, MailInv, Answer, Steps, Commands,
    Bootstraps, Job, Holder, Lanes, Idle, AfterAnswer, serverVars, rowVars, history, At, Goto,
    LaneOnly, Send, ServerOnly, Begin, Next_, Holds, Strike, Interrupted, RecoverJob
<1>1. CASE Take
  BY <1>1 DEF Take
<1>2. CASE RecordSuccess
  BY <1>2 DEF RecordSuccess
<1>3. CASE RecordFailure
  BY <1>3 DEF RecordFailure
<1>4. CASE RecoverLane
  BY <1>4 DEF RecoverLane
<1>5. ASSUME NEW ok \in BOOLEAN, Reconcile(ok) PROVE MailInv'
  BY <1>5 DEF Reconcile
<1>6. CASE Install
  BY <1>6 DEF Install
<1>7. CASE InstallFails
  BY <1>7 DEF InstallFails
<1>8. CASE Reinstall
  BY <1>8 DEF Reinstall
<1>9. CASE VerifyHttps
  BY <1>9 DEF VerifyHttps
<1>10. CASE VerifyKeys
  BY <1>10 DEF VerifyKeys
<1>11. CASE Reconnect
  BY <1>11 DEF Reconnect
<1>12. CASE Answered
  BY <1>12 DEF Answered
<1>13. CASE Inspect
  BY <1>13 DEF Inspect
<1>14. CASE Fails
  BY <1>14 DEF Fails
<1>15. ASSUME NEW m \in net, Refused(m) PROVE MailInv'
  BY <1>15 DEF Refused
<1>16. ASSUME NEW m \in net, BeginBootstrap(m) PROVE MailInv'
  BY <1>16 DEF BeginBootstrap
<1>17. ASSUME NEW m \in net, BeginHarden(m) PROVE MailInv'
  BY <1>17 DEF BeginHarden
<1>18. ASSUME NEW m \in net, BeginCommit(m) PROVE MailInv'
  BY <1>18 DEF BeginCommit
<1>19. CASE InstallKeys
  BY <1>19 DEF InstallKeys
<1>20. CASE InstallComponents
  BY <1>20 DEF InstallComponents
<1>21. CASE BootstrapFails
  BY <1>21 DEF BootstrapFails
<1>22. CASE SaveLogin
  BY <1>22 DEF SaveLogin
<1>23. CASE StartTimer
  BY <1>23 DEF StartTimer
<1>24. CASE TimerRefused
  BY <1>24 DEF TimerRefused
<1>25. CASE WriteLogin
  BY <1>25 DEF WriteLogin
<1>26. CASE ReloadFails
  BY <1>26 DEF ReloadFails
<1>27. CASE StopTimer
  BY <1>27 DEF StopTimer
<1>28. ASSUME NEW ok \in BOOLEAN, Reload(ok) PROVE MailInv'
  BY <1>28 DEF Reload
<1>29. ASSUME NEW ok \in BOOLEAN, Confirm(ok) PROVE MailInv'
  BY <1>29 DEF Confirm
<1>30. CASE RestoreLogin
  BY <1>30 DEF RestoreLogin
<1>31. CASE ReloadRestored
  BY <1>31 DEF ReloadRestored
<1>32. CASE UnlinkBackup
  BY <1>32 DEF UnlinkBackup
<1>33. CASE EndConfiguration
  BY <1>33 DEF EndConfiguration
<1>34. CASE TimerElapses
  BY <1>34 DEF TimerElapses
<1>35. CASE RollbackFindsNothing
  BY <1>35 DEF RollbackFindsNothing
<1>36. CASE BeginRollback
  BY <1>36 DEF BeginRollback
<1>37. ASSUME NEW kind \in {"deploy", "check", "restart"}, Enqueue(kind) PROVE MailInv'
  BY <1>37 DEF Enqueue
<1>38. CASE BeginConfiguration
  BY <1>38 DEF BeginConfiguration
<1>39. CASE RollbackOutwaited
  BY <1>39 DEF RollbackOutwaited
<1>40. CASE Kill
  BY <1>40 DEF Kill
<1>41. CASE Reboot
  BY <1>41 DEF Reboot
<1>42. CASE DbFails
  BY <1>42 DEF DbFails
<1>43. CASE Restart
  BY <1>43 DEF Restart
<1>44. CASE ProbeHealth
  BY <1>44 DEF ProbeHealth
<1>45. ASSUME NEW good \in BOOLEAN, RecordHealth(good) PROVE MailInv'
  BY <1>45 DEF RecordHealth
<1>47. CASE ForgetCredential
  BY <1>47 DEF ForgetCredential
<1>48. CASE CredentialStays
  BY <1>48 DEF CredentialStays, FailedStatus
<1>46. CASE UNCHANGED vars
  BY <1>46 DEF vars
<1> QED
  BY <1>1, <1>2, <1>3, <1>4, <1>5, <1>6, <1>7, <1>8, <1>9, <1>10, <1>11, <1>12, <1>13, <1>14,
     <1>15, <1>16, <1>17, <1>18, <1>19, <1>20, <1>21, <1>22, <1>23, <1>24, <1>25, <1>26,
     <1>27, <1>28, <1>29, <1>30, <1>31, <1>32, <1>33, <1>34, <1>35, <1>36, <1>37, <1>38,
     <1>39, <1>40, <1>41, <1>42, <1>43, <1>44, <1>45, <1>46, <1>47, <1>48
     DEF Next, Lane, Server, Timer, Environment

\* A job hardens once.
LEMMA HardenInit == Init => HardenInv
  BY BoundsOK, NoneOK, StepsOK DEF Init, HardenInv, Free, Idle, Steps, Commands, Bootstraps,
     Logins, Job, Holder, Lanes, Before, Since, Holds, At

\* The first command of a job drops those of earlier jobs.
LEMMA HardenStep == TypeOK /\ RowInv /\ IdInv /\ HardenInv /\ [Next]_vars => HardenInv'
<1> SUFFICES ASSUME TypeOK, RowInv, IdInv, HardenInv, [Next]_vars PROVE HardenInv'
  OBVIOUS
<1> USE NoneOK, StepsOK DEF TypeOK, RowInv, IdInv, HardenInv, Before, Since, Steps, Commands,
    Bootstraps, Job, Holder, Lanes, Free, Idle, AfterAnswer, serverVars, rowVars, history, At,
    Goto, LaneOnly, Send, ServerOnly, Begin, Next_, Holds, Strike, Interrupted, RecoverJob
<1>1. CASE Take
  BY <1>1 DEF Take
<1>2. CASE RecordSuccess
  BY <1>2 DEF RecordSuccess
<1>3. CASE RecordFailure
  BY <1>3 DEF RecordFailure
<1>4. CASE RecoverLane
  BY <1>4 DEF RecoverLane
<1>5. ASSUME NEW ok \in BOOLEAN, Reconcile(ok) PROVE HardenInv'
  BY <1>5 DEF Reconcile
<1>6. CASE Install
  BY <1>6 DEF Install
<1>7. CASE InstallFails
  BY <1>7 DEF InstallFails
<1>8. CASE Reinstall
  BY <1>8 DEF Reinstall
<1>9. CASE VerifyHttps
  BY <1>9 DEF VerifyHttps
<1>10. CASE VerifyKeys
  BY <1>10 DEF VerifyKeys
<1>11. CASE Reconnect
  BY <1>11 DEF Reconnect
<1>12. CASE Answered
  BY <1>12 DEF Answered
<1>13. CASE Inspect
  BY <1>13 DEF Inspect
<1>14. CASE Fails
  BY <1>14 DEF Fails
<1>15. ASSUME NEW m \in net, Refused(m) PROVE HardenInv'
  BY <1>15 DEF Refused
<1>16. ASSUME NEW m \in net, BeginBootstrap(m) PROVE HardenInv'
  BY <1>16 DEF BeginBootstrap
<1>17. ASSUME NEW m \in net, BeginHarden(m) PROVE HardenInv'
  BY <1>17 DEF BeginHarden
<1>18. ASSUME NEW m \in net, BeginCommit(m) PROVE HardenInv'
  BY <1>18 DEF BeginCommit
<1>19. CASE InstallKeys
  BY <1>19 DEF InstallKeys
<1>20. CASE InstallComponents
  BY <1>20 DEF InstallComponents
<1>21. CASE BootstrapFails
  BY <1>21 DEF BootstrapFails
<1>22. CASE SaveLogin
  BY <1>22 DEF SaveLogin
<1>23. CASE StartTimer
  BY <1>23 DEF StartTimer
<1>24. CASE TimerRefused
  BY <1>24 DEF TimerRefused
<1>25. CASE WriteLogin
  BY <1>25 DEF WriteLogin
<1>26. CASE ReloadFails
  BY <1>26 DEF ReloadFails
<1>27. CASE StopTimer
  BY <1>27 DEF StopTimer
<1>28. ASSUME NEW ok \in BOOLEAN, Reload(ok) PROVE HardenInv'
  BY <1>28 DEF Reload
<1>29. ASSUME NEW ok \in BOOLEAN, Confirm(ok) PROVE HardenInv'
  BY <1>29 DEF Confirm
<1>30. CASE RestoreLogin
  BY <1>30 DEF RestoreLogin
<1>31. CASE ReloadRestored
  BY <1>31 DEF ReloadRestored
<1>32. CASE UnlinkBackup
  BY <1>32 DEF UnlinkBackup
<1>33. CASE EndConfiguration
  BY <1>33 DEF EndConfiguration
<1>34. CASE TimerElapses
  BY <1>34 DEF TimerElapses
<1>35. CASE RollbackFindsNothing
  BY <1>35 DEF RollbackFindsNothing
<1>36. CASE BeginRollback
  BY <1>36 DEF BeginRollback
<1>37. ASSUME NEW kind \in {"deploy", "check", "restart"}, Enqueue(kind) PROVE HardenInv'
  BY <1>37 DEF Enqueue
<1>38. CASE BeginConfiguration
  BY <1>38 DEF BeginConfiguration
<1>39. CASE RollbackOutwaited
  BY <1>39 DEF RollbackOutwaited
<1>40. CASE Kill
  BY <1>40 DEF Kill
<1>41. CASE Reboot
  BY <1>41 DEF Reboot
<1>42. CASE DbFails
  BY <1>42 DEF DbFails
<1>43. CASE Restart
  BY <1>43 DEF Restart
<1>44. CASE ProbeHealth
  BY <1>44 DEF ProbeHealth
<1>45. ASSUME NEW good \in BOOLEAN, RecordHealth(good) PROVE HardenInv'
  BY <1>45 DEF RecordHealth
<1>47. CASE ForgetCredential
  BY <1>47 DEF ForgetCredential
<1>48. CASE CredentialStays
  BY <1>48 DEF CredentialStays, FailedStatus
<1>46. CASE UNCHANGED vars
  BY <1>46 DEF vars
<1> QED
  BY <1>1, <1>2, <1>3, <1>4, <1>5, <1>6, <1>7, <1>8, <1>9, <1>10, <1>11, <1>12, <1>13, <1>14,
     <1>15, <1>16, <1>17, <1>18, <1>19, <1>20, <1>21, <1>22, <1>23, <1>24, <1>25, <1>26,
     <1>27, <1>28, <1>29, <1>30, <1>31, <1>32, <1>33, <1>34, <1>35, <1>36, <1>37, <1>38,
     <1>39, <1>40, <1>41, <1>42, <1>43, <1>44, <1>45, <1>46, <1>47, <1>48
     DEF Next, Lane, Server, Timer, Environment

\* What was acknowledged is on trial until it is confirmed or undone.
LEMMA TrialInit == Init => TrialInv
  BY BoundsOK, NoneOK, StepsOK DEF Init, TrialInv, Free, Idle, Steps, Commands, Bootstraps,
     Logins, Job, Holder, Lanes, Before, Since, Holds, At, Said

\* Nothing but a rollback undoes it.
LEMMA TrialStep ==
    RollbacksFinish /\ TypeOK /\ RowInv /\ IdInv /\ MailInv /\ HardenInv /\ TrialInv /\
    [Next]_vars => TrialInv'
<1> SUFFICES ASSUME RollbacksFinish, TypeOK, RowInv, IdInv, MailInv, HardenInv, TrialInv,
                [Next]_vars PROVE TrialInv'
  OBVIOUS
<1> USE NoneOK, StepsOK DEF RollbacksFinish, TypeOK, RowInv, IdInv, MailInv, HardenInv,
    TrialInv, Quiet, Said, Answer, Before, Since, Steps, Commands, Bootstraps, Job, Holder,
    Lanes, Free, Idle, AfterAnswer, serverVars, rowVars, history, At, Goto, LaneOnly, Send,
    ServerOnly, Begin, Next_, Holds, Strike, Interrupted, RecoverJob
<1>1. CASE Take
  BY <1>1 DEF Take
<1>2. CASE RecordSuccess
  BY <1>2 DEF RecordSuccess
<1>3. CASE RecordFailure
  BY <1>3 DEF RecordFailure
<1>4. CASE RecoverLane
  BY <1>4 DEF RecoverLane
<1>5. ASSUME NEW ok \in BOOLEAN, Reconcile(ok) PROVE TrialInv'
  BY <1>5 DEF Reconcile
<1>6. CASE Install
  BY <1>6 DEF Install
<1>7. CASE InstallFails
  BY <1>7 DEF InstallFails
<1>8. CASE Reinstall
  BY <1>8 DEF Reinstall
<1>9. CASE VerifyHttps
  BY <1>9 DEF VerifyHttps
<1>10. CASE VerifyKeys
  BY <1>10 DEF VerifyKeys
<1>11. CASE Reconnect
  BY <1>11 DEF Reconnect
<1>12. CASE Answered
  BY <1>12 DEF Answered
<1>13. CASE Inspect
  BY <1>13 DEF Inspect
<1>14. CASE Fails
  BY <1>14 DEF Fails
<1>15. ASSUME NEW m \in net, Refused(m) PROVE TrialInv'
  BY <1>15 DEF Refused
<1>16. ASSUME NEW m \in net, BeginBootstrap(m) PROVE TrialInv'
  BY <1>16 DEF BeginBootstrap
<1>17. ASSUME NEW m \in net, BeginHarden(m) PROVE TrialInv'
  BY <1>17 DEF BeginHarden
<1>18. ASSUME NEW m \in net, BeginCommit(m) PROVE TrialInv'
  BY <1>18 DEF BeginCommit
<1>19. CASE InstallKeys
  BY <1>19 DEF InstallKeys
<1>20. CASE InstallComponents
  BY <1>20 DEF InstallComponents
<1>21. CASE BootstrapFails
  BY <1>21 DEF BootstrapFails
<1>22. CASE SaveLogin
  BY <1>22 DEF SaveLogin
<1>23. CASE StartTimer
  BY <1>23 DEF StartTimer
<1>24. CASE TimerRefused
  BY <1>24 DEF TimerRefused
<1>25. CASE WriteLogin
  BY <1>25 DEF WriteLogin
<1>26. CASE ReloadFails
  BY <1>26 DEF ReloadFails
<1>27. CASE StopTimer
  BY <1>27 DEF StopTimer
<1>28. ASSUME NEW ok \in BOOLEAN, Reload(ok) PROVE TrialInv'
  BY <1>28 DEF Reload
<1>29. ASSUME NEW ok \in BOOLEAN, Confirm(ok) PROVE TrialInv'
  BY <1>29 DEF Confirm
<1>30. CASE RestoreLogin
  BY <1>30 DEF RestoreLogin
<1>31. CASE ReloadRestored
  BY <1>31 DEF ReloadRestored
<1>32. CASE UnlinkBackup
  BY <1>32 DEF UnlinkBackup
<1>33. CASE EndConfiguration
  BY <1>33 DEF EndConfiguration
<1>34. CASE TimerElapses
  BY <1>34 DEF TimerElapses
<1>35. CASE RollbackFindsNothing
  BY <1>35 DEF RollbackFindsNothing
<1>36. CASE BeginRollback
  BY <1>36 DEF BeginRollback
<1>37. ASSUME NEW kind \in {"deploy", "check", "restart"}, Enqueue(kind) PROVE TrialInv'
  BY <1>37 DEF Enqueue
<1>38. CASE BeginConfiguration
  BY <1>38 DEF BeginConfiguration
<1>39. CASE RollbackOutwaited
  BY <1>39 DEF RollbackOutwaited
<1>40. CASE Kill
  BY <1>40 DEF Kill
<1>41. CASE Reboot
  BY <1>41 DEF Reboot
<1>42. CASE DbFails
  BY <1>42 DEF DbFails
<1>43. CASE Restart
  BY <1>43 DEF Restart
<1>44. CASE ProbeHealth
  BY <1>44 DEF ProbeHealth
<1>45. ASSUME NEW good \in BOOLEAN, RecordHealth(good) PROVE TrialInv'
  BY <1>45 DEF RecordHealth
<1>47. CASE ForgetCredential
  BY <1>47 DEF ForgetCredential
<1>48. CASE CredentialStays
  BY <1>48 DEF CredentialStays, FailedStatus
<1>46. CASE UNCHANGED vars
  BY <1>46 DEF vars
<1> QED
  BY <1>1, <1>2, <1>3, <1>4, <1>5, <1>6, <1>7, <1>8, <1>9, <1>10, <1>11, <1>12, <1>13, <1>14,
     <1>15, <1>16, <1>17, <1>18, <1>19, <1>20, <1>21, <1>22, <1>23, <1>24, <1>25, <1>26,
     <1>27, <1>28, <1>29, <1>30, <1>31, <1>32, <1>33, <1>34, <1>35, <1>36, <1>37, <1>38,
     <1>39, <1>40, <1>41, <1>42, <1>43, <1>44, <1>45, <1>46, <1>47, <1>48
     DEF Next, Lane, Server, Timer, Environment

\* What was confirmed stays.
LEMMA DoneInit == Init => DoneInv
  BY BoundsOK, NoneOK, StepsOK DEF Init, DoneInv, Free, Idle, Steps, Commands, Bootstraps,
     Logins, Job, Holder, Lanes, Before, Since, Holds, At, Said

\* A rollback finds nothing to undo.
LEMMA DoneStep ==
    RollbacksFinish /\ TypeOK /\ RowInv /\ IdInv /\ MailInv /\ HardenInv /\ TrialInv /\
    DoneInv /\ [Next]_vars => DoneInv'
<1> SUFFICES ASSUME RollbacksFinish, TypeOK, RowInv, IdInv, MailInv, HardenInv, TrialInv, DoneInv,
                [Next]_vars PROVE DoneInv'
  OBVIOUS
<1> USE NoneOK, StepsOK DEF RollbacksFinish, TypeOK, RowInv, IdInv, MailInv, HardenInv,
    TrialInv, DoneInv, Quiet, Said, Answer, Before, Since, Steps, Commands, Bootstraps, Job,
    Holder, Lanes, Free, Idle, AfterAnswer, serverVars, rowVars, history, At, Goto, LaneOnly,
    Send, ServerOnly, Begin, Next_, Holds, Strike, Interrupted, RecoverJob
<1>1. CASE Take
  BY <1>1 DEF Take
<1>2. CASE RecordSuccess
  BY <1>2 DEF RecordSuccess
<1>3. CASE RecordFailure
  BY <1>3 DEF RecordFailure
<1>4. CASE RecoverLane
  BY <1>4 DEF RecoverLane
<1>5. ASSUME NEW ok \in BOOLEAN, Reconcile(ok) PROVE DoneInv'
  BY <1>5 DEF Reconcile
<1>6. CASE Install
  BY <1>6 DEF Install
<1>7. CASE InstallFails
  BY <1>7 DEF InstallFails
<1>8. CASE Reinstall
  BY <1>8 DEF Reinstall
<1>9. CASE VerifyHttps
  BY <1>9 DEF VerifyHttps
<1>10. CASE VerifyKeys
  BY <1>10 DEF VerifyKeys
<1>11. CASE Reconnect
  BY <1>11 DEF Reconnect
<1>12. CASE Answered
  BY <1>12 DEF Answered
<1>13. CASE Inspect
  BY <1>13 DEF Inspect
<1>14. CASE Fails
  BY <1>14 DEF Fails
<1>15. ASSUME NEW m \in net, Refused(m) PROVE DoneInv'
  BY <1>15 DEF Refused
<1>16. ASSUME NEW m \in net, BeginBootstrap(m) PROVE DoneInv'
  BY <1>16 DEF BeginBootstrap
<1>17. ASSUME NEW m \in net, BeginHarden(m) PROVE DoneInv'
  BY <1>17 DEF BeginHarden
<1>18. ASSUME NEW m \in net, BeginCommit(m) PROVE DoneInv'
  BY <1>18 DEF BeginCommit
<1>19. CASE InstallKeys
  BY <1>19 DEF InstallKeys
<1>20. CASE InstallComponents
  BY <1>20 DEF InstallComponents
<1>21. CASE BootstrapFails
  BY <1>21 DEF BootstrapFails
<1>22. CASE SaveLogin
  BY <1>22 DEF SaveLogin
<1>23. CASE StartTimer
  BY <1>23 DEF StartTimer
<1>24. CASE TimerRefused
  BY <1>24 DEF TimerRefused
<1>25. CASE WriteLogin
  BY <1>25 DEF WriteLogin
<1>26. CASE ReloadFails
  BY <1>26 DEF ReloadFails
<1>27. CASE StopTimer
  BY <1>27 DEF StopTimer
<1>28. ASSUME NEW ok \in BOOLEAN, Reload(ok) PROVE DoneInv'
  BY <1>28 DEF Reload
<1>29. ASSUME NEW ok \in BOOLEAN, Confirm(ok) PROVE DoneInv'
  BY <1>29 DEF Confirm
<1>30. CASE RestoreLogin
  BY <1>30 DEF RestoreLogin
<1>31. CASE ReloadRestored
  BY <1>31 DEF ReloadRestored
<1>32. CASE UnlinkBackup
  BY <1>32 DEF UnlinkBackup
<1>33. CASE EndConfiguration
  BY <1>33 DEF EndConfiguration
<1>34. CASE TimerElapses
  BY <1>34 DEF TimerElapses
<1>35. CASE RollbackFindsNothing
  BY <1>35 DEF RollbackFindsNothing
<1>36. CASE BeginRollback
  BY <1>36 DEF BeginRollback
<1>37. ASSUME NEW kind \in {"deploy", "check", "restart"}, Enqueue(kind) PROVE DoneInv'
  BY <1>37 DEF Enqueue
<1>38. CASE BeginConfiguration
  BY <1>38 DEF BeginConfiguration
<1>39. CASE RollbackOutwaited
  BY <1>39 DEF RollbackOutwaited
<1>40. CASE Kill
  BY <1>40 DEF Kill
<1>41. CASE Reboot
  BY <1>41 DEF Reboot
<1>42. CASE DbFails
  BY <1>42 DEF DbFails
<1>43. CASE Restart
  BY <1>43 DEF Restart
<1>44. CASE ProbeHealth
  BY <1>44 DEF ProbeHealth
<1>45. ASSUME NEW good \in BOOLEAN, RecordHealth(good) PROVE DoneInv'
  BY <1>45 DEF RecordHealth
<1>47. CASE ForgetCredential
  BY <1>47 DEF ForgetCredential
<1>48. CASE CredentialStays
  BY <1>48 DEF CredentialStays, FailedStatus
<1>46. CASE UNCHANGED vars
  BY <1>46 DEF vars
<1> QED
  BY <1>1, <1>2, <1>3, <1>4, <1>5, <1>6, <1>7, <1>8, <1>9, <1>10, <1>11, <1>12, <1>13, <1>14,
     <1>15, <1>16, <1>17, <1>18, <1>19, <1>20, <1>21, <1>22, <1>23, <1>24, <1>25, <1>26,
     <1>27, <1>28, <1>29, <1>30, <1>31, <1>32, <1>33, <1>34, <1>35, <1>36, <1>37, <1>38,
     <1>39, <1>40, <1>41, <1>42, <1>43, <1>44, <1>45, <1>46, <1>47, <1>48
     DEF Next, Lane, Server, Timer, Environment
-----------------------------------------------------------------------------
(* The theorems *)

\* Every reachable state is well typed, and the lane works on the active row: for any steps that
\* may fail, any faults, any jobs.
THEOREM DeploymentTyped == Spec => [](TypeOK /\ RowInv)
<1>1. Init => TypeOK /\ RowInv
  BY TypeInit, RowInit
<1>2. TypeOK /\ RowInv /\ [Next]_vars => (TypeOK /\ RowInv)'
  BY TypeStep, RowStep
<1> QED BY <1>1, <1>2, PTL DEF Spec

\* NeverLockedOut: the first login credential is dropped by whatever job succeeds first, and by
\* then the gateway's own keys open it; until bootstrap.sh is through nothing closes the login
\* that credential is for. Kills and reboots anywhere.
THEOREM KeysOrCredential == Spec => []NeverLockedOut
<1>1. Init => AccessInv
  BY AccessInit
<1>2. TypeOK /\ RowInv /\ AccessInv /\ [Next]_vars => AccessInv'
  BY AccessStep
<1>3. TypeOK /\ AccessInv => NeverLockedOut
  BY NoneOK DEF TypeOK, AccessInv, NeverLockedOut
<1> QED BY <1>1, <1>2, <1>3, DeploymentTyped, PTL DEF Spec

\* Each end of a job writes both rows.
LEMMA BusyStep == TypeOK /\ RowInv /\ BusyIsShown /\ [Next]_vars => BusyIsShown'
<1> SUFFICES ASSUME TypeOK, RowInv, BusyIsShown, [Next]_vars PROVE BusyIsShown'
  OBVIOUS
<1> USE NoneOK, StepsOK DEF TypeOK, RowInv, BusyIsShown, Job, Lanes, Idle, Steps, At, Goto,
    LaneOnly, Send, ServerOnly, Begin, Next_, Holds, Strike, Interrupted, RecoverJob,
    serverVars, rowVars, history
<1>1. CASE Take
  BY <1>1 DEF Take
<1>2. CASE RecordSuccess
  BY <1>2 DEF RecordSuccess
<1>3. CASE RecordFailure
  BY <1>3 DEF RecordFailure, FailedStatus
<1>4. CASE RecoverLane
  BY <1>4 DEF RecoverLane
<1>5. ASSUME NEW ok \in BOOLEAN, Reconcile(ok) PROVE BusyIsShown'
  BY <1>5 DEF Reconcile
<1>6. CASE Install
  BY <1>6 DEF Install
<1>7. CASE InstallFails
  BY <1>7 DEF InstallFails
<1>8. CASE Reinstall
  BY <1>8 DEF Reinstall
<1>9. CASE VerifyHttps
  BY <1>9 DEF VerifyHttps
<1>10. CASE VerifyKeys
  BY <1>10 DEF VerifyKeys
<1>11. CASE Reconnect
  BY <1>11 DEF Reconnect
<1>12. CASE Answered
  BY <1>12 DEF Answered
<1>13. CASE Inspect
  BY <1>13 DEF Inspect
<1>14. CASE Fails
  BY <1>14 DEF Fails
<1>15. ASSUME NEW m \in net, Refused(m) PROVE BusyIsShown'
  BY <1>15 DEF Refused
<1>16. ASSUME NEW m \in net, BeginBootstrap(m) PROVE BusyIsShown'
  BY <1>16 DEF BeginBootstrap
<1>17. ASSUME NEW m \in net, BeginHarden(m) PROVE BusyIsShown'
  BY <1>17 DEF BeginHarden
<1>18. ASSUME NEW m \in net, BeginCommit(m) PROVE BusyIsShown'
  BY <1>18 DEF BeginCommit
<1>19. CASE InstallKeys
  BY <1>19 DEF InstallKeys
<1>20. CASE InstallComponents
  BY <1>20 DEF InstallComponents
<1>21. CASE BootstrapFails
  BY <1>21 DEF BootstrapFails
<1>22. CASE SaveLogin
  BY <1>22 DEF SaveLogin
<1>23. CASE StartTimer
  BY <1>23 DEF StartTimer
<1>24. CASE TimerRefused
  BY <1>24 DEF TimerRefused
<1>25. CASE WriteLogin
  BY <1>25 DEF WriteLogin
<1>26. CASE ReloadFails
  BY <1>26 DEF ReloadFails
<1>27. CASE StopTimer
  BY <1>27 DEF StopTimer
<1>28. ASSUME NEW ok \in BOOLEAN, Reload(ok) PROVE BusyIsShown'
  BY <1>28 DEF Reload
<1>29. ASSUME NEW ok \in BOOLEAN, Confirm(ok) PROVE BusyIsShown'
  BY <1>29 DEF Confirm
<1>30. CASE RestoreLogin
  BY <1>30 DEF RestoreLogin
<1>31. CASE ReloadRestored
  BY <1>31 DEF ReloadRestored
<1>32. CASE UnlinkBackup
  BY <1>32 DEF UnlinkBackup
<1>33. CASE EndConfiguration
  BY <1>33 DEF EndConfiguration
<1>34. CASE TimerElapses
  BY <1>34 DEF TimerElapses
<1>35. CASE RollbackFindsNothing
  BY <1>35 DEF RollbackFindsNothing
<1>36. CASE BeginRollback
  BY <1>36 DEF BeginRollback
<1>37. ASSUME NEW kind \in {"deploy", "check", "restart"}, Enqueue(kind) PROVE BusyIsShown'
  BY <1>37 DEF Enqueue
<1>38. CASE BeginConfiguration
  BY <1>38 DEF BeginConfiguration
<1>39. CASE RollbackOutwaited
  BY <1>39 DEF RollbackOutwaited
<1>40. CASE Kill
  BY <1>40 DEF Kill
<1>41. CASE Reboot
  BY <1>41 DEF Reboot
<1>42. CASE DbFails
  BY <1>42 DEF DbFails
<1>43. CASE Restart
  BY <1>43 DEF Restart
<1>44. CASE ProbeHealth
  BY <1>44 DEF ProbeHealth
<1>45. ASSUME NEW good \in BOOLEAN, RecordHealth(good) PROVE BusyIsShown'
  BY <1>45 DEF RecordHealth
<1>47. CASE ForgetCredential
  BY <1>47 DEF ForgetCredential
<1>48. CASE CredentialStays
  BY <1>48 DEF CredentialStays, FailedStatus
<1>46. CASE UNCHANGED vars
  BY <1>46 DEF vars
<1> QED
  BY <1>1, <1>2, <1>3, <1>4, <1>5, <1>6, <1>7, <1>8, <1>9, <1>10, <1>11, <1>12, <1>13, <1>14,
     <1>15, <1>16, <1>17, <1>18, <1>19, <1>20, <1>21, <1>22, <1>23, <1>24, <1>25, <1>26,
     <1>27, <1>28, <1>29, <1>30, <1>31, <1>32, <1>33, <1>34, <1>35, <1>36, <1>37, <1>38,
     <1>39, <1>40, <1>41, <1>42, <1>43, <1>44, <1>45, <1>46, <1>47, <1>48
     DEF Next, Lane, Server, Timer, Environment

\* BusyIsShown: a late health report, a failed write, a restart or the lane's own recovery never
\* leaves a gateway DEPLOYING or CHECKING without its job, nor a running job hidden.
THEOREM RunningIsShown == Spec => []BusyIsShown
<1>1. Init => BusyIsShown
  BY DEF Init, BusyIsShown, Interrupted
<1> QED BY <1>1, BusyStep, DeploymentTyped, PTL DEF Spec

\* What the lane's connections, the lock and the change on trial have to do with each other.
Deciding == IdInv /\ MailInv /\ HardenInv /\ TrialInv /\ DoneInv

LEMMA Decides == ASSUME RollbacksFinish PROVE Spec => []Deciding
<1>1. Init => Deciding
  BY IdInit, MailInit, HardenInit, TrialInit, DoneInit DEF Deciding
<1>2. TypeOK /\ RowInv /\ Deciding /\ [Next]_vars => Deciding'
  BY IdStep, MailStep, HardenStep, TrialStep, DoneStep DEF Deciding
<1> QED BY <1>1, <1>2, DeploymentTyped, PTL DEF Spec

\* A success is recorded by RecordSuccess alone: a health report does not touch the status of a
\* gateway whose job runs.
LEMMA RecordedWhenDone ==
    ASSUME TypeOK, RowInv, BusyIsShown, DoneInv, [Next]_vars,
           job # None, job.kind = "deploy", status' = "HEALTHY", status = "DEPLOYING"
    PROVE  confirmed /\ sshd = "key-only"
<1> USE NoneOK, StepsOK DEF TypeOK, RowInv, BusyIsShown, Job, Lanes, Idle, Steps, At, Goto,
    LaneOnly, Send, ServerOnly, Begin, Next_, Holds, Strike, Interrupted, RecoverJob,
    serverVars, rowVars, history
<1> DEFINE Hardened == confirmed /\ sshd = "key-only"
<1>1. CASE Take
  BY <1>1 DEF Take
<1>2. CASE RecordSuccess
  BY <1>2 DEF RecordSuccess, DoneInv
<1>3. CASE RecordFailure
  BY <1>3 DEF RecordFailure, FailedStatus
<1>4. CASE RecoverLane
  BY <1>4 DEF RecoverLane
<1>5. ASSUME NEW ok \in BOOLEAN, Reconcile(ok) PROVE Hardened
  BY <1>5 DEF Reconcile
<1>6. CASE Install
  BY <1>6 DEF Install
<1>7. CASE InstallFails
  BY <1>7 DEF InstallFails
<1>8. CASE Reinstall
  BY <1>8 DEF Reinstall
<1>9. CASE VerifyHttps
  BY <1>9 DEF VerifyHttps
<1>10. CASE VerifyKeys
  BY <1>10 DEF VerifyKeys
<1>11. CASE Reconnect
  BY <1>11 DEF Reconnect
<1>12. CASE Answered
  BY <1>12 DEF Answered
<1>13. CASE Inspect
  BY <1>13 DEF Inspect
<1>14. CASE Fails
  BY <1>14 DEF Fails
<1>15. ASSUME NEW m \in net, Refused(m) PROVE Hardened
  BY <1>15 DEF Refused
<1>16. ASSUME NEW m \in net, BeginBootstrap(m) PROVE Hardened
  BY <1>16 DEF BeginBootstrap
<1>17. ASSUME NEW m \in net, BeginHarden(m) PROVE Hardened
  BY <1>17 DEF BeginHarden
<1>18. ASSUME NEW m \in net, BeginCommit(m) PROVE Hardened
  BY <1>18 DEF BeginCommit
<1>19. CASE InstallKeys
  BY <1>19 DEF InstallKeys
<1>20. CASE InstallComponents
  BY <1>20 DEF InstallComponents
<1>21. CASE BootstrapFails
  BY <1>21 DEF BootstrapFails
<1>22. CASE SaveLogin
  BY <1>22 DEF SaveLogin
<1>23. CASE StartTimer
  BY <1>23 DEF StartTimer
<1>24. CASE TimerRefused
  BY <1>24 DEF TimerRefused
<1>25. CASE WriteLogin
  BY <1>25 DEF WriteLogin
<1>26. CASE ReloadFails
  BY <1>26 DEF ReloadFails
<1>27. CASE StopTimer
  BY <1>27 DEF StopTimer
<1>28. ASSUME NEW ok \in BOOLEAN, Reload(ok) PROVE Hardened
  BY <1>28 DEF Reload
<1>29. ASSUME NEW ok \in BOOLEAN, Confirm(ok) PROVE Hardened
  BY <1>29 DEF Confirm
<1>30. CASE RestoreLogin
  BY <1>30 DEF RestoreLogin
<1>31. CASE ReloadRestored
  BY <1>31 DEF ReloadRestored
<1>32. CASE UnlinkBackup
  BY <1>32 DEF UnlinkBackup
<1>33. CASE EndConfiguration
  BY <1>33 DEF EndConfiguration
<1>34. CASE TimerElapses
  BY <1>34 DEF TimerElapses
<1>35. CASE RollbackFindsNothing
  BY <1>35 DEF RollbackFindsNothing
<1>36. CASE BeginRollback
  BY <1>36 DEF BeginRollback
<1>37. ASSUME NEW kind \in {"deploy", "check", "restart"}, Enqueue(kind) PROVE Hardened
  BY <1>37 DEF Enqueue
<1>38. CASE BeginConfiguration
  BY <1>38 DEF BeginConfiguration
<1>39. CASE RollbackOutwaited
  BY <1>39 DEF RollbackOutwaited
<1>40. CASE Kill
  BY <1>40 DEF Kill
<1>41. CASE Reboot
  BY <1>41 DEF Reboot
<1>42. CASE DbFails
  BY <1>42 DEF DbFails
<1>43. CASE Restart
  BY <1>43 DEF Restart
<1>44. CASE ProbeHealth
  BY <1>44 DEF ProbeHealth
<1>45. ASSUME NEW good \in BOOLEAN, RecordHealth(good) PROVE Hardened
  BY <1>45 DEF RecordHealth
<1>47. CASE ForgetCredential
  BY <1>47 DEF ForgetCredential
<1>48. CASE CredentialStays
  BY <1>48 DEF CredentialStays, FailedStatus
<1>46. CASE UNCHANGED vars
  BY <1>46 DEF vars
<1> QED
  BY <1>1, <1>2, <1>3, <1>4, <1>5, <1>6, <1>7, <1>8, <1>9, <1>10, <1>11, <1>12, <1>13, <1>14,
     <1>15, <1>16, <1>17, <1>18, <1>19, <1>20, <1>21, <1>22, <1>23, <1>24, <1>25, <1>26,
     <1>27, <1>28, <1>29, <1>30, <1>31, <1>32, <1>33, <1>34, <1>35, <1>36, <1>37, <1>38,
     <1>39, <1>40, <1>41, <1>42, <1>43, <1>44, <1>45, <1>46, <1>47, <1>48
     DEF Next, Lane, Server, Timer, Environment

\* DeployedIsHardened: whatever the rollback timer, earlier jobs' commands or the configuration
\* transactions do between the steps of a deployment, it succeeds only with its change confirmed
\* and the password login closed, if rollbacks are not cut off.
THEOREM SuccessIsHardened == ASSUME RollbacksFinish PROVE Spec => DeployedIsHardened
<1>1. TypeOK /\ RowInv /\ BusyIsShown /\ Deciding /\ [Next]_vars =>
          [job # None /\ job.kind = "deploy" /\ status' = "HEALTHY" /\ status = "DEPLOYING" =>
              confirmed /\ sshd = "key-only"]_vars
  BY RecordedWhenDone DEF Deciding
<1> QED BY <1>1, DeploymentTyped, RunningIsShown, Decides, PTL DEF Spec, DeployedIsHardened
-----------------------------------------------------------------------------
(* What liveness rests on: whatever has to end has somebody who ends it. *)

\* A change of the login on trial has its timer, or the command that is about to arm it, or to
\* confirm it, holds the lock.
ChangeIsWatched ==
    backup # None /\ ~excused =>
        timer # "off" \/ Holds("harden", "timer") \/ Holds("commit", "unlink")

\* The lane and the queue do not touch the server.
LEMMA LaneKeepsServer == Lane => UNCHANGED <<serverVars, history>>
BY DEF Lane, Take, RecordSuccess, ForgetCredential, RecordFailure, RecoverLane,
    Reconcile, Install, InstallFails,
   Reinstall, VerifyHttps, VerifyKeys, Reconnect, Answered, Inspect, Fails, LaneOnly

\* Every way to give a change up takes the backup away, or is one that is excused.
LEMMA WatchStep ==
    ASSUME "rollback" \notin KillAt
    PROVE  TypeOK /\ ChangeIsWatched /\ [Next]_vars => ChangeIsWatched'
<1> SUFFICES ASSUME TypeOK, ChangeIsWatched, [Next]_vars PROVE ChangeIsWatched'
  OBVIOUS
<1> USE NoneOK DEF ChangeIsWatched, Holds, serverVars, history
<1>1. CASE Lane
  BY <1>1, LaneKeepsServer
<1>2. CASE Server
  <2> USE DEF Next_, Begin, Free
  <2>1. ASSUME NEW m \in net, Refused(m) \/ BeginBootstrap(m) \/ BeginHarden(m) \/ BeginCommit(m)
        PROVE  ChangeIsWatched'
    <3>1. CASE Refused(m)
      BY <3>1 DEF Refused
    <3>2. CASE BeginBootstrap(m)
      BY <3>2 DEF BeginBootstrap
    <3>3. CASE BeginHarden(m)
      BY <3>3 DEF BeginHarden
    <3>4. CASE BeginCommit(m)
      BY <3>4 DEF BeginCommit
    <3> QED BY <2>1, <3>1, <3>2, <3>3, <3>4
  <2>2. CASE InstallKeys \/ InstallComponents \/ BootstrapFails
    BY <2>2 DEF InstallKeys, InstallComponents, BootstrapFails, Bootstraps
  <2>3. CASE SaveLogin
    BY <2>3 DEF SaveLogin, TypeOK, Holder
  <2>4. CASE StartTimer \/ WriteLogin
    BY <2>4 DEF StartTimer, WriteLogin
  <2>5. CASE TimerRefused \/ ReloadFails \/ UnlinkBackup
    BY <2>5 DEF TimerRefused, ReloadFails, UnlinkBackup
  <2>6. CASE StopTimer
    BY <2>6 DEF StopTimer, TypeOK, Holder
  <2>7. ASSUME NEW ok \in BOOLEAN, Reload(ok) \/ Confirm(ok) PROVE ChangeIsWatched'
    BY <2>7 DEF Reload, Confirm
  <2>8. CASE RestoreLogin \/ ReloadRestored \/ EndConfiguration
    BY <2>8 DEF RestoreLogin, ReloadRestored, EndConfiguration
  <2> QED BY <1>2, <2>1, <2>2, <2>3, <2>4, <2>5, <2>6, <2>7, <2>8 DEF Server
<1>3. CASE Timer
  BY <1>3 DEF Timer, TimerElapses, RollbackFindsNothing, BeginRollback, Free
<1>4. CASE Kill
  BY <1>4, Zenon DEF Kill
<1>5. CASE Reboot \/ RollbackOutwaited
  BY <1>5 DEF Reboot, RollbackOutwaited
<1>6. ASSUME Environment, ~Kill, ~Reboot, ~RollbackOutwaited PROVE ChangeIsWatched'
  BY <1>6 DEF Environment, Enqueue, BeginConfiguration, DbFails, CredentialStays, Restart,
    ProbeHealth,
     RecordHealth, Free
<1>7. CASE UNCHANGED vars
  BY <1>7 DEF vars
<1> QED BY <1>1, <1>2, <1>3, <1>4, <1>5, <1>6, <1>7 DEF Next

\* Between a change of the login and its decision there is no gap in which nothing would undo it,
\* unless it is excused: the safety under HardeningDecided.
THEOREM Attended == ASSUME "rollback" \notin KillAt PROVE Spec => []ChangeIsWatched
<1>1. Init => ChangeIsWatched
  BY DEF Init, ChangeIsWatched
<1> QED BY <1>1, WatchStep, DeploymentTyped, PTL DEF Spec

\* A RUNNING job is the lane's, or the lane is about to recover it.
RunningIsWorkedOn == Interrupted => lane.step # "idle"

\* The lane lets go of its job only when the row says that it has ended.
LEMMA WorkedOnStep == TypeOK /\ RowInv /\ RunningIsWorkedOn /\ [Next]_vars => RunningIsWorkedOn'
<1> SUFFICES ASSUME TypeOK, RowInv, RunningIsWorkedOn, [Next]_vars PROVE RunningIsWorkedOn'
  OBVIOUS
<1> USE NoneOK DEF RunningIsWorkedOn, Interrupted, rowVars
<1>1. CASE Lane
  <2>1. CASE RecordSuccess \/ RecordFailure \/ RecoverLane
    BY <2>1 DEF RecordSuccess, RecordFailure, RecoverLane, RecoverJob
  <2>f. CASE ForgetCredential
    BY <2>f DEF ForgetCredential, RowInv
  <2>2. lane \in Lanes
    BY DEF TypeOK
  <2>3. CASE Take
    BY <2>3 DEF Take
  <2>4. ASSUME NEW ok \in BOOLEAN, Reconcile(ok) PROVE lane'.step # "idle"
    BY <2>2, <2>4 DEF Reconcile, Goto, Lanes
  <2>5. CASE Install \/ InstallFails \/ Reinstall \/ VerifyHttps
    BY <2>2, <2>5 DEF Install, InstallFails, Reinstall, VerifyHttps, Goto, Lanes
  <2>6. CASE VerifyKeys \/ Reconnect \/ Answered \/ Inspect \/ Fails
    BY <2>2, <2>6 DEF VerifyKeys, Reconnect, Answered, AfterAnswer, Commands, Bootstraps, Inspect,
       Fails, Goto, Lanes
  <2> QED BY <1>1, <2>1, <2>f, <2>3, <2>4, <2>5, <2>6 DEF Lane
<1>2. CASE Server \/ Timer
  <2>1. UNCHANGED <<job, lane>>
    BY <1>2 DEF Server, Timer, ServerOnly, Refused, BeginBootstrap, BeginHarden, BeginCommit,
       InstallKeys, InstallComponents, BootstrapFails, SaveLogin, StartTimer, TimerRefused,
       WriteLogin, Reload, ReloadFails, StopTimer, Confirm, RestoreLogin, ReloadRestored,
       UnlinkBackup, EndConfiguration, TimerElapses, RollbackFindsNothing, BeginRollback
  <2> QED BY <2>1
<1>3. CASE DbFails
  <2>1. lane \in Lanes /\ lane'.step \in {"recover", "fail"}
    BY <1>3 DEF DbFails, Goto, TypeOK, Lanes
  <2> QED BY <2>1
<1>4. CASE Restart
  BY <1>4 DEF Restart, RecoverJob
<1>5. ASSUME NEW kind \in {"deploy", "check", "restart"}, Enqueue(kind) PROVE RunningIsWorkedOn'
  BY <1>5 DEF Enqueue
<1>6. CASE BeginConfiguration \/ RollbackOutwaited \/ Kill \/ Reboot
  BY <1>6 DEF BeginConfiguration, RollbackOutwaited, Kill, Reboot, ServerOnly
<1>7. ASSUME NEW good \in BOOLEAN, ProbeHealth \/ RecordHealth(good) PROVE RunningIsWorkedOn'
  BY <1>7 DEF ProbeHealth, RecordHealth
<1>8. CASE CredentialStays
  BY <1>8 DEF CredentialStays, RowInv, Interrupted
<1>9. CASE UNCHANGED vars
  BY <1>9 DEF vars
<1> QED BY <1>1, <1>2, <1>3, <1>4, <1>5, <1>6, <1>7, <1>8, <1>9 DEF Next, Environment

\* No failed write, lost connection or restart leaves a RUNNING job behind that nobody will end,
\* and that would keep every later job of the gateway out: the safety under JobsFinish.
THEOREM WorkedOn == Spec => []RunningIsWorkedOn
<1>1. Init => RunningIsWorkedOn
  BY DEF Init, RunningIsWorkedOn, Interrupted
<1> QED BY <1>1, WorkedOnStep, DeploymentTyped, PTL DEF Spec
=============================================================================
