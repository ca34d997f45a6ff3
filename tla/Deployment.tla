----------------------------- MODULE Deployment -----------------------------
(***************************************************************************)
(* How a server becomes a gateway and loses its password login: the        *)
(* gateway_jobs queue of one gateway (services/gateways.py), the steps of  *)
(* a deployment (gateways/deployment.py) and, on the server, bootstrap.sh  *)
(* and the three hardening commands of remote_admin.py, which write        *)
(* sshd's configuration on trial and let a timer of 90 seconds undo it.    *)
(*                                                                         *)
(* Simplifications:                                                        *)
(*  - the management key and the recovery key are installed together;      *)
(*  - requests that only read (status) or only touch services that other   *)
(*    modules model (reconcile, restart) succeed or fail in one step;      *)
(*  - reboots, kills and lost connections may fall anywhere, but Path      *)
(*    .write_text() writes a file as a whole or not at all;                *)
(*  - a command that waits for the lock in vain (ten seconds; bootstrap.sh *)
(*    65) is a command that is refused while somebody holds it; it has the *)
(*    lock or its answer before a later job of the gateway has connected   *)
(*    and sends its own first command.                                     *)
(***************************************************************************)
EXTENDS Naturals

CONSTANTS
    None,
    MayOutwait,  \* holders of the lock that may make the rollback timer give up
    GiveUpAt,    \* steps of the lane at which it may lose its connection
    DbFailAt,    \* steps of the lane at which a write to the database may fail
    KillAt,      \* kinds of commands that may be killed on the server
    RebootAt,    \* kinds of commands, "none" for no command, a reboot may cut
    MayRestart,  \* TRUE: the controller may restart
    MaxFaults,   \* bound: database failures, kills, reboots and restarts
    MaxJobs      \* bound: jobs of the gateway

ASSUME BoundsOK ==
    /\ MaxFaults \in Nat /\ MaxJobs \in Nat
    /\ MayRestart \in BOOLEAN

VARIABLES
    installed,   \* on the server: nothing, the keys, or everything bootstrap.sh installs
    conf, sshd,  \* the login sshd's files ask for, and the one the running sshd allows
    backup,      \* ssh-before-hardening.json: the login before the change on trial, or None
    timer,       \* pfem-ssh-rollback: off, armed, or its service waits for the lock
    holder,      \* the command that holds /run/lock/pfem-gateway.lock
    net, mail,   \* commands sent and answers given, of the jobs' connections
    job,         \* the active row of gateway_jobs, or None
    jobs,        \* jobs so far
    lane,        \* where the configuration lane is, and on what job
    status,      \* gateways.status
    bootstrap,   \* the first login credential the controller still holds, or None
    probing,     \* the health lane waits for a report
    confirmed,   \* history: some change was confirmed
    excused,     \* history: the change on trial may have lost its timer
    faults

serverVars == <<installed, conf, sshd, backup, timer, holder>>
rowVars == <<job, jobs, status, bootstrap>>
history == <<confirmed, excused>>
vars == <<serverVars, net, mail, rowVars, lane, probing, history, faults>>

Logins == {"password", "key-only"}

\* Commands on the server are named for the step of the lane that waits for their answer;
\* the first two run bootstrap.sh.
Bootstraps == {"installing", "reinstalling"}
Commands == Bootstraps \cup {"harden", "commit"}
Free == [kind |-> "none", id |-> 0, step |-> "none"]
Idle == [step |-> "idle", kind |-> "none", id |-> 0, first |-> None]

\* The steps of deploy() in order; check and restart know only the last but one.
Steps == {"connect", "install", "installing", "reinstall", "reinstalling", "https", "keys",
          "harden", "reconnect", "commit", "inspect", "success", "fail"}

Job == [kind : {"deploy", "check", "restart"}, state : {"QUEUED", "RUNNING"}]
Holder == [kind : Commands \cup {"none", "rollback", "config"}, id : 0..MaxJobs,
           step : {"none", "keys", "components", "save", "timer", "write", "reload", "stop",
                   "unlink", "restore"}]
Lanes == [step : Steps \cup {"idle", "forget", "recover"},
          kind : {"none", "deploy", "check", "restart"}, id : 0..MaxJobs,
          first : {"password", "key", None}]

ASSUME NoneOK == None \notin Logins \cup {"key"} \cup Job
ASSUME StepsOK == DbFailAt \subseteq Steps

TypeOK ==
    /\ installed \in {"bare", "keys", "ready"}
    /\ conf \in Logins /\ sshd \in Logins
    /\ backup \in Logins \cup {None}
    /\ timer \in {"off", "armed", "fired"}
    /\ holder \in Holder
    /\ holder.kind \in {"rollback", "commit"} => backup # None
    /\ holder.kind = "harden" /\ holder.step # "save" => backup # None
    /\ net \subseteq [id : 1..MaxJobs, kind : Commands]
    /\ mail \subseteq [id : 1..MaxJobs, ok : BOOLEAN]
    /\ job \in Job \cup {None}
    /\ jobs \in 0..MaxJobs
    /\ lane \in Lanes
    /\ lane.step \in Steps => job # None /\ job.kind = lane.kind /\ lane.id >= 1
    /\ status \in {"NEW", "DEPLOYING", "CHECKING", "HEALTHY", "CRITICAL", "DEPLOY_FAILED",
                   "UNKNOWN"}
    /\ bootstrap \in {"password", "key", None}
    /\ probing \in BOOLEAN /\ confirmed \in BOOLEAN /\ excused \in BOOLEAN
    /\ faults \in 0..MaxFaults

\* register(): a fresh Debian that lets root log in with what the administrator typed.
Init ==
    /\ installed = "bare" /\ conf = "password" /\ sshd = "password"
    /\ backup = None /\ timer = "off" /\ holder = Free
    /\ net = {} /\ mail = {}
    /\ job = None /\ jobs = 0 /\ lane = Idle
    /\ status = "NEW" /\ bootstrap \in {"password", "key"}
    /\ probing = FALSE /\ confirmed = FALSE /\ excused = FALSE /\ faults = 0

Strike == faults < MaxFaults /\ faults' = faults + 1

-----------------------------------------------------------------------------
(* The queue: gateways.enqueue(), GatewayWorker.once() *)

\* one_gateway_job: at most one active row for a gateway.
Enqueue(kind) ==
    /\ job = None /\ jobs < MaxJobs
    /\ kind # "deploy" => status # "NEW"
    /\ job' = [kind |-> kind, state |-> "QUEUED"]
    /\ jobs' = jobs + 1
    /\ UNCHANGED <<serverVars, net, mail, status, bootstrap, lane, probing, history, faults>>

Take ==
    /\ lane = Idle
    /\ job # None /\ job.state = "QUEUED"
    /\ job' = [job EXCEPT !.state = "RUNNING"]
    /\ status' = IF job.kind = "deploy" THEN "DEPLOYING" ELSE "CHECKING"
    /\ lane' = [step |-> IF job.kind = "deploy" THEN "connect" ELSE "inspect",
                kind |-> job.kind, id |-> jobs, first |-> bootstrap]
    /\ UNCHANGED <<serverVars, net, mail, jobs, bootstrap, probing, history, faults>>

At(step) == lane.step = step
Goto(step) == lane' = [lane EXCEPT !.step = step]
LaneOnly == UNCHANGED <<serverVars, mail, rowVars, probing, history, faults>>

\* HEALTHY, and the first login credential is dropped: by any kind of job. Its file goes after
\* the rows, when the next job may be queued already.
RecordSuccess ==
    /\ At("success")
    /\ job' = None
    /\ status' = "HEALTHY"
    /\ bootstrap' = None
    /\ lane' = IF lane.first = None THEN Idle ELSE [lane EXCEPT !.step = "forget"]
    /\ UNCHANGED <<serverVars, net, mail, jobs, probing, history, faults>>

ForgetCredential ==
    /\ At("forget")
    /\ lane' = Idle
    /\ UNCHANGED <<serverVars, net, mail, rowVars, probing, history, faults>>

FailedStatus == IF lane.kind = "deploy" THEN "DEPLOY_FAILED" ELSE "CRITICAL"

\* The file cannot be removed: the job that succeeded becomes a failed one after all.
CredentialStays ==
    /\ At("forget")
    /\ Strike
    /\ \/ status' = FailedStatus /\ lane' = Idle
       \/ "fail" \in DbFailAt /\ Goto("recover") /\ UNCHANGED status
    /\ UNCHANGED <<serverVars, net, mail, job, jobs, bootstrap, probing, history>>

\* Mutation: the credential is dropped with every finished job.
RecordFailureAndForget ==
    /\ At("fail")
    /\ job' = None
    /\ status' = FailedStatus
    /\ bootstrap' = None
    /\ lane' = Idle
    /\ UNCHANGED <<serverVars, net, mail, jobs, probing, history, faults>>

\* Mutation: the job is left as it is.
RecordFailureOfGateway ==
    /\ At("fail")
    /\ status' = FailedStatus
    /\ lane' = Idle
    /\ UNCHANGED <<serverVars, net, mail, job, jobs, bootstrap, probing, history, faults>>

RecordFailure ==
    /\ At("fail")
    /\ job' = None
    /\ status' = FailedStatus
    /\ lane' = Idle
    /\ UNCHANGED <<serverVars, net, mail, jobs, bootstrap, probing, history, faults>>

\* In the try, stage() included: a failed job. In the except: the lane recovers.
DbFails ==
    /\ lane.step \in DbFailAt
    /\ Strike
    /\ Goto(IF At("fail") THEN "recover" ELSE "fail")
    /\ UNCHANGED <<serverVars, net, mail, rowVars, probing, history>>

Interrupted == job # None /\ job.state = "RUNNING"

\* Mutation: the gateway keeps the status of the interrupted job.
RecoverJobOnly ==
    /\ job' = IF Interrupted THEN None ELSE job
    /\ UNCHANGED status

\* GatewayWorker.recover()
RecoverJob ==
    IF Interrupted
    THEN /\ job' = None
         /\ status' = IF job.kind = "deploy" THEN "DEPLOY_FAILED" ELSE "UNKNOWN"
    ELSE UNCHANGED <<job, status>>

RecoverLane ==
    /\ At("recover")
    /\ RecoverJob
    /\ lane' = Idle
    /\ UNCHANGED <<serverVars, net, mail, jobs, bootstrap, probing, history, faults>>

Restart ==
    /\ MayRestart /\ Strike
    /\ RecoverJob
    /\ lane' = Idle /\ mail' = {} /\ probing' = FALSE
    /\ UNCHANGED <<serverVars, net, jobs, bootstrap, history>>

-----------------------------------------------------------------------------
(* deploy() and inspect() *)

Send(kind) == net' = {m \in net : m.id = lane.id} \cup {[id |-> lane.id, kind |-> kind]}

\* The keys of the gateway open both accounts; the first credential opens root's.
ManagedLogin == installed # "bare"
FirstLogin == lane.first = "key" \/ (lane.first = "password" /\ sshd = "password")

\* The helper is current and answers: straight to the checks. Anything else: install.
Reconcile(ok) ==
    /\ At("connect")
    /\ ok => installed = "ready"
    /\ Goto(IF ok THEN "https" ELSE "install")
    /\ UNCHANGED net /\ LaneOnly

\* With the recovery key first.
Install ==
    /\ At("install") /\ ManagedLogin
    /\ Send("installing")
    /\ Goto("installing")
    /\ LaneOnly

\* The first credential only when that failed and the credential still exists.
InstallFails ==
    /\ \/ At("install")
       \/ At("installing") /\ [id |-> lane.id, ok |-> FALSE] \in mail
       \/ At("installing") /\ "installing" \in GiveUpAt
    /\ Goto(IF lane.first = None THEN "fail" ELSE "reinstall")
    /\ mail' = {}
    /\ UNCHANGED <<serverVars, net, rowVars, probing, history, faults>>

Reinstall ==
    /\ At("reinstall") /\ FirstLogin
    /\ Send("reinstalling")
    /\ Goto("reinstalling")
    /\ LaneOnly

\* verify_ingress()
VerifyHttps ==
    /\ At("https") /\ installed = "ready"
    /\ Goto("keys")
    /\ UNCHANGED net /\ LaneOnly

\* Fresh connections with either key, then harden.
VerifyKeys ==
    /\ At("keys") /\ ManagedLogin
    /\ Send("harden")
    /\ Goto("harden")
    /\ LaneOnly

\* "Unless fresh connections succeed."
Reconnect ==
    /\ At("reconnect") /\ ManagedLogin
    /\ Send("commit")
    /\ Goto("commit")
    /\ LaneOnly

AfterAnswer(step) ==
    CASE step \in Bootstraps -> "https"
      [] step = "harden" -> "reconnect"
      [] step = "commit" -> "success"

Answered ==
    /\ lane.step \in Commands
    /\ [id |-> lane.id, ok |-> TRUE] \in mail
    /\ mail' = {}
    /\ Goto(AfterAnswer(lane.step))
    /\ UNCHANGED <<serverVars, net, rowVars, probing, history, faults>>

\* inspect(): sshd -T tells what the files ask for.
Inspect ==
    /\ At("inspect")
    /\ installed = "ready" /\ conf = "key-only"
    /\ Goto("success")
    /\ UNCHANGED net /\ LaneOnly

\* No connection, a failed check, a command that failed, or no answer in time; the last
\* status of a deployment may fail too.
Fails ==
    /\ \/ lane.step \in {"connect", "reinstall", "https", "keys", "reconnect",
                        "inspect"}
       \/ At("success") /\ lane.kind = "deploy"
       \/ /\ lane.step \in Commands
          /\ lane.step \in GiveUpAt \/ [id |-> lane.id, ok |-> FALSE] \in mail
    /\ Goto("fail")
    /\ mail' = {}
    /\ UNCHANGED <<serverVars, net, rowVars, probing, history, faults>>

-----------------------------------------------------------------------------
(* The server: the lock and the commands that need it *)

\* An answer nobody waits for any more goes nowhere.
Answer(command, ok) ==
    mail' = IF lane.id = command.id /\ lane.step = command.kind
            THEN mail \cup {[id |-> lane.id, ok |-> ok]} ELSE mail

Begin(m, step) ==
    /\ m \in net /\ net' = net \ {m}
    /\ holder = Free
    /\ holder' = [kind |-> m.kind, id |-> m.id, step |-> step]

Next_(step) == holder' = [holder EXCEPT !.step = step]
Holds(kind, step) == holder.kind = kind /\ holder.step = step
ServerOnly == UNCHANGED <<rowVars, lane, probing, faults>>

\* 75: the lock, or a change on trial already; 70: nothing to confirm; 65 to 69: the rest.
Refused(m) ==
    /\ m \in net /\ net' = net \ {m}
    /\ \/ holder # Free
       \/ m.kind \in Bootstraps
       \/ m.kind = "harden" /\ (backup # None \/ installed # "ready")
       \/ m.kind = "commit" /\ (backup = None \/ installed # "ready")
    /\ Answer(m, FALSE)
    /\ UNCHANGED <<serverVars, history>> /\ ServerOnly

\* bootstrap.sh: accounts and keys first, then the components.
BeginBootstrap(m) ==
    /\ m.kind \in Bootstraps /\ Begin(m, "keys")
    /\ UNCHANGED <<installed, conf, sshd, backup, timer, mail, history>> /\ ServerOnly

InstallKeys ==
    /\ holder.kind \in Bootstraps /\ holder.step = "keys"
    /\ installed' = IF installed = "bare" THEN "keys" ELSE installed
    /\ Next_("components")
    /\ UNCHANGED <<conf, sshd, backup, timer, net, mail, history>> /\ ServerOnly

InstallComponents ==
    /\ holder.kind \in Bootstraps /\ holder.step = "components"
    /\ installed' = "ready"
    /\ holder' = Free
    /\ Answer(holder, TRUE)
    /\ UNCHANGED <<conf, sshd, backup, timer, net, history>> /\ ServerOnly

\* A download, a package, a port: set -e.
BootstrapFails ==
    /\ holder.kind \in Bootstraps
    /\ holder' = Free
    /\ Answer(holder, FALSE)
    /\ UNCHANGED <<installed, conf, sshd, backup, timer, net, history>> /\ ServerOnly

\* harden(): one change at a time.
BeginHarden(m) ==
    /\ m.kind = "harden" /\ Begin(m, "save")
    /\ installed = "ready" /\ backup = None
    /\ UNCHANGED <<installed, conf, sshd, backup, timer, mail, history>> /\ ServerOnly

SaveLogin ==
    /\ Holds("harden", "save")
    /\ backup' = conf
    /\ Next_("timer")
    /\ UNCHANGED <<installed, conf, sshd, timer, net, mail, history>> /\ ServerOnly

StartTimer ==
    /\ Holds("harden", "timer")
    /\ timer = "off"
    /\ timer' = "armed"
    /\ Next_("write")
    /\ UNCHANGED <<installed, conf, sshd, backup, net, mail, history>> /\ ServerOnly

\* 67: systemd-run refuses, because the unit of an earlier change still waits or otherwise.
TimerRefused ==
    /\ Holds("harden", "timer")
    /\ backup' = None /\ excused' = FALSE
    /\ holder' = Free
    /\ Answer(holder, FALSE)
    /\ UNCHANGED <<installed, conf, sshd, timer, net, confirmed>> /\ ServerOnly

WriteLogin ==
    /\ Holds("harden", "write")
    /\ conf' = "key-only"
    /\ Next_("reload")
    /\ UNCHANGED <<installed, sshd, backup, timer, net, mail, history>> /\ ServerOnly

\* sshd accepts the file and is reloaded. The lock is released; an answer other than
\* "healthy" fails the job all the same.
Reload(ok) ==
    /\ Holds("harden", "reload")
    /\ sshd' = conf
    /\ holder' = Free
    /\ Answer(holder, ok)
    /\ UNCHANGED <<installed, conf, backup, timer, net, history>> /\ ServerOnly

\* 66: undone on the spot, and the timer stopped unless it has fired.
ReloadFails ==
    /\ Holds("harden", "reload")
    /\ conf' = backup /\ sshd' = backup /\ backup' = None /\ excused' = FALSE
    /\ timer' = IF timer = "armed" THEN "off" ELSE timer
    /\ holder' = Free
    /\ Answer(holder, FALSE)
    /\ UNCHANGED <<installed, net, confirmed>> /\ ServerOnly

\* Mutation: there need not be a change to confirm.
BeginCommitUnchecked(m) ==
    /\ m.kind = "commit" /\ Begin(m, "stop")
    /\ installed = "ready"
    /\ UNCHANGED <<installed, conf, sshd, backup, timer, mail, history>> /\ ServerOnly

BeginCommit(m) ==
    /\ m.kind = "commit" /\ Begin(m, "stop")
    /\ installed = "ready" /\ backup # None
    /\ UNCHANGED <<installed, conf, sshd, backup, timer, mail, history>> /\ ServerOnly

StopTimer ==
    /\ Holds("commit", "stop")
    /\ timer' = IF timer = "armed" THEN "off" ELSE timer
    /\ Next_("unlink")
    /\ UNCHANGED <<installed, conf, sshd, backup, net, mail, history>> /\ ServerOnly

Confirm(ok) ==
    /\ Holds("commit", "unlink")
    /\ backup' = None
    /\ confirmed' = TRUE /\ excused' = FALSE
    /\ holder' = Free
    /\ Answer(holder, ok)
    /\ UNCHANGED <<installed, conf, sshd, timer, net>> /\ ServerOnly

-----------------------------------------------------------------------------
(* The rollback timer: one attempt, no Restart= *)

TimerElapses ==
    /\ timer = "armed"
    /\ timer' = "fired"
    /\ UNCHANGED <<installed, conf, sshd, backup, holder, net, mail, history>> /\ ServerOnly

RollbackFindsNothing ==
    /\ timer = "fired" /\ holder = Free /\ backup = None
    /\ timer' = "off"
    /\ UNCHANGED <<installed, conf, sshd, backup, holder, net, mail, history>> /\ ServerOnly

BeginRollback ==
    /\ timer = "fired" /\ holder = Free /\ backup # None
    /\ holder' = [kind |-> "rollback", id |-> 0, step |-> "restore"]
    /\ UNCHANGED <<installed, conf, sshd, backup, timer, net, mail, history>> /\ ServerOnly

\* 75 after ten seconds: the unit ends, and nobody starts it again.
RollbackOutwaited ==
    /\ timer = "fired" /\ holder.kind \in MayOutwait
    /\ timer' = "off"
    /\ excused' = (excused \/ backup # None)
    /\ UNCHANGED <<installed, conf, sshd, backup, holder, net, mail, confirmed>> /\ ServerOnly

RestoreLogin ==
    /\ Holds("rollback", "restore")
    /\ conf' = backup
    /\ Next_("reload")
    /\ UNCHANGED <<installed, sshd, backup, timer, net, mail, history>> /\ ServerOnly

ReloadRestored ==
    /\ Holds("rollback", "reload")
    /\ sshd' = conf
    /\ Next_("unlink")
    /\ UNCHANGED <<installed, conf, backup, timer, net, mail, history>> /\ ServerOnly

\* Mutation: the file that says what was before stays.
KeepBackup ==
    /\ Holds("rollback", "unlink")
    /\ timer' = "off" /\ holder' = Free
    /\ UNCHANGED <<installed, conf, sshd, backup, net, mail, history>> /\ ServerOnly

UnlinkBackup ==
    /\ Holds("rollback", "unlink")
    /\ backup' = None /\ excused' = FALSE
    /\ timer' = "off" /\ holder' = Free
    /\ UNCHANGED <<installed, conf, sshd, net, mail, confirmed>> /\ ServerOnly

-----------------------------------------------------------------------------
(* Other holders of the lock, kills and reboots; the health lane *)

\* A configuration transaction: minutes, at worst.
BeginConfiguration ==
    /\ holder = Free /\ installed = "ready"
    /\ holder' = [kind |-> "config", id |-> 0, step |-> "none"]
    /\ UNCHANGED <<installed, conf, sshd, backup, timer, net, mail, history>> /\ ServerOnly

EndConfiguration ==
    /\ holder.kind = "config"
    /\ holder' = Free
    /\ UNCHANGED <<installed, conf, sshd, backup, timer, net, mail, history>> /\ ServerOnly

Kill ==
    /\ holder.kind \in KillAt
    /\ Strike
    /\ holder' = Free
    /\ timer' = IF holder.kind = "rollback" THEN "off" ELSE timer
    /\ Answer(holder, FALSE)
    /\ excused' = (excused \/ (backup # None /\ holder.kind \in {"harden", "commit"}))
    /\ UNCHANGED <<installed, conf, sshd, backup, net, rowVars, lane, probing, confirmed>>

\* Transient units and connections are gone; sshd starts with what the files say.
Reboot ==
    /\ holder.kind \in RebootAt
    /\ Strike
    /\ holder' = Free /\ timer' = "off" /\ sshd' = conf
    /\ net' = {}
    /\ mail' = IF lane.step \in Commands THEN mail \cup {[id |-> lane.id, ok |-> FALSE]} ELSE mail
    /\ excused' = (excused \/ backup # None)
    /\ UNCHANGED <<installed, conf, backup, rowVars, lane, probing, confirmed>>

\* monitor.schedule_due() and run_next(): gateways whose first credential is gone, and
\* not while a job runs.
ProbeHealth ==
    /\ ~probing /\ bootstrap = None /\ ~Interrupted
    /\ probing' = TRUE
    /\ UNCHANGED <<serverVars, net, mail, rowVars, lane, history, faults>>

\* record_health(): a running job's status is not overwritten.
RecordHealth(good) ==
    /\ probing
    /\ probing' = FALSE
    /\ good => installed = "ready"
    /\ status' = IF Interrupted THEN status ELSE IF good THEN "HEALTHY" ELSE "CRITICAL"
    /\ UNCHANGED <<serverVars, net, mail, job, jobs, bootstrap, lane, history, faults>>

-----------------------------------------------------------------------------

Lane ==
    \/ Take \/ RecordSuccess \/ ForgetCredential \/ RecordFailure \/ RecoverLane
    \/ \E ok \in BOOLEAN : Reconcile(ok)
    \/ Install \/ InstallFails \/ Reinstall \/ VerifyHttps \/ VerifyKeys \/ Reconnect
    \/ Answered \/ Inspect \/ Fails

Server ==
    \/ \E m \in net : Refused(m) \/ BeginBootstrap(m) \/ BeginHarden(m) \/ BeginCommit(m)
    \/ InstallKeys \/ InstallComponents \/ BootstrapFails
    \/ SaveLogin \/ StartTimer \/ TimerRefused \/ WriteLogin \/ ReloadFails
    \/ StopTimer
    \/ \E ok \in BOOLEAN : Reload(ok) \/ Confirm(ok)
    \/ RestoreLogin \/ ReloadRestored \/ UnlinkBackup
    \/ EndConfiguration

Timer == TimerElapses \/ RollbackFindsNothing \/ BeginRollback

Environment ==
    \/ \E kind \in {"deploy", "check", "restart"} : Enqueue(kind)
    \/ BeginConfiguration \/ RollbackOutwaited
    \/ Kill \/ Reboot \/ DbFails \/ CredentialStays \/ Restart
    \/ ProbeHealth \/ \E good \in BOOLEAN : RecordHealth(good)

Next == Lane \/ Server \/ Timer \/ Environment

Spec == Init /\ [][Next]_vars

\* The lane runs, and its calls end (45 seconds, 900 for an installation); a command that
\* has the lock goes on; the timer elapses. The rollback waits ten seconds for a lock:
\* unless MayOutwait says otherwise, every holder gives it up in less.
Fairness ==
    /\ WF_vars(Lane)
    /\ WF_vars(Server)
    /\ WF_vars(TimerElapses)
    /\ SF_vars(BeginRollback \/ RollbackFindsNothing)

FairSpec == Spec /\ Fairness

-----------------------------------------------------------------------------
(* Properties *)

\* The controller holds a credential that the server accepts: its own keys, or the first
\* credential, which a server without those keys has no reason to refuse.
NeverLockedOut ==
    installed # "bare" \/ bootstrap = "key" \/ (bootstrap = "password" /\ sshd = "password")

\* A gateway shows DEPLOYING or CHECKING exactly while a job of it runs: neither a health
\* report that comes late nor an interrupted job leaves it there or takes it away.
BusyIsShown == status \in {"DEPLOYING", "CHECKING"} <=> Interrupted

\* "Confirmed only after a new connection": a deployment that is recorded as a success has
\* closed the password login for good, whatever the timer did meanwhile.
DeployedIsHardened ==
    [][job # None /\ job.kind = "deploy" /\ status' = "HEALTHY" /\ status = "DEPLOYING" =>
         confirmed /\ sshd = "key-only"]_vars

\* "A remote rollback timer restores the SSH settings unless fresh connections succeed":
\* a change is confirmed or undone, and does not keep every later deployment out (75). Excused
\* is a change whose timer a reboot has dropped, whose only rollback has waited ten seconds for
\* the lock, or whose harden or commit was killed, before or after the timer ran.
HardeningDecided == backup # None ~> backup = None \/ excused

\* A job of the gateway ends, whatever the server or the connection does.
JobsFinish == job # None ~> job = None
=============================================================================
