------------------------------ MODULE ExitJobs ------------------------------
(***************************************************************************)
(* The controller's side of one gateway: the exit_jobs queue and its two   *)
(* kinds of worker, the configuration lane (services/exits.py run_next)    *)
(* and an HTTP thread that removes a subscription (services/groups.py      *)
(* delete), with the requests that feed them, the health lane that writes  *)
(* the same rows (services/monitor.py) and the restart that cleans up.     *)
(*                                                                         *)
(* The gateway is ConfigStore, which Transactions implements, behind SSH:  *)
(* a request may be served after its sender gave up, or never, and an      *)
(* answer may be lost.                                                     *)
(*                                                                         *)
(* Simplifications:                                                        *)
(*  - a transaction of the database is one step, and so is desired(),      *)
(*    whose reads the job's own row protects from the other requests;      *)
(*  - a topology says, for each route, whether it is enabled and which     *)
(*    clients use it; credentials, AI routes and expiry dates are left out;*)
(*  - "tested within two (or five) minutes" is one state of an ISP, which  *)
(*    its checks and the passing of time change at any moment;             *)
(*  - choosing a new exit and confirming the choice is one step.           *)
(***************************************************************************)
EXTENDS Naturals, FiniteSets

CONSTANTS
    Exits,       \* exit groups of the gateway
    Direct,      \* those that use the gateway's own address instead of an ISP
    Subs,        \* subscription groups
    Tx, None, Factory,
    First,       \* the transaction that applied the exits the gateway starts with
    Established, \* those exits
    GiveUpAt,    \* <<worker, step>> at which a worker may lose its connection
    DbFailAt,    \* <<worker, step>> at which a write to the database may fail
    RestartAt,   \* <<worker, step>> at which the controller may be restarted
    CanGetStuck, \* TRUE: a gateway may fail to undo what it could not verify
    MaxFaults,   \* bound: database failures, restarts and stuck gateways
    MaxTokens,   \* bound: link tokens of one subscription
    MaxChecks    \* bound: health checks

ASSUME SetsOK ==
    /\ Direct \subseteq Exits /\ Established \subseteq Exits /\ First \in Tx
    /\ None \notin Exits \cup Subs \cup Tx
    /\ MaxFaults \in Nat /\ MaxTokens \in Nat /\ MaxChecks \in Nat

VARIABLES
    exits,      \* exit_groups: applied, status, whether current_exit_ip is set
    subs,       \* subscription_groups, None where there is no row
    deleted,    \* history: how a row was deleted, "here" alone or "revoked" on the gateway
    isp,        \* what the last check of an exit's ISP still says
    jobs,       \* exit_jobs by transaction, None where there is no row
    work,       \* the two workers' local state
    net, mail,  \* requests and answers on their way
    installed, proposal,  \* the gateway, as in ConfigStore
    guard,      \* the rows of guard.json: routes and whether they are open
    check,      \* the health lane's local state
    stranded,   \* history: deletions whose failure could not be recorded
    checks, faults

dbVars == <<exits, subs, deleted, isp, jobs>>
gatewayVars == <<installed, proposal, guard>>
healthVars == <<check, checks>>
sideVars == <<healthVars, stranded>>
vars == <<dbVars, work, net, mail, gatewayVars, sideVars, faults>>

Route == [enabled : BOOLEAN, clients : SUBSET Subs]
Groups == UNION {[D -> Route] : D \in SUBSET Exits}

Gateway == INSTANCE ConfigStore

Workers == {"lane", "http"}
Steps == {"idle", "desired", "apply", "commit", "record", "fail", "recover"}

Statuses == {"NEW", "APPLYING", "HEALTHY", "CRITICAL", "CONFIG_FAILED", "UNKNOWN"}

ExitRow == [applied : BOOLEAN, status : Statuses, ip : BOOLEAN]
SubRow == [exit : Exits, deployed : Exits \cup {None}, client : BOOLEAN,
           state : {"PENDING", "READY"}, token : 0..MaxTokens]
JobRow == [exit : Exits, state : {"QUEUED", "RUNNING", "SUCCEEDED", "FAILED"}]

\* What a worker keeps between its steps, and what is under way to a gateway and back.
Local == [step : Steps, tx : Tx \cup {None}, exit : Exits \cup {None}, sub : Subs \cup {None},
          token : (0..MaxTokens) \cup {None}, groups : Groups \cup {None}]
Idle == [step |-> "idle", tx |-> None, exit |-> None, sub |-> None, token |-> None,
         groups |-> None]
Message == [kind : {"apply-config", "commit-config"}, tx : Tx, groups : Groups \cup {None}]
Reply == [tx : Tx, ok : {"pending", "committed", "no"}]

ASSUME NoneOK == None \notin SubRow \cup JobRow \cup Groups \cup Gateway!Version

TypeOK ==
    /\ exits \in [Exits -> ExitRow]
    /\ subs \in [Subs -> SubRow \cup {None}]
    /\ deleted \in [Subs -> {"no", "here", "revoked"}]
    /\ \A s \in Subs : deleted[s] # "no" => subs[s] = None
    /\ isp \in [Exits -> {"ok", "stale", "changed"}]
    /\ jobs \in [Tx -> JobRow \cup {None}]
    /\ work \in [Workers -> Local]
    /\ \A w \in Workers :
          /\ work[w].step \in {"idle", "recover"} <=> work[w].tx = None
          /\ work[w].tx # None => work[w].exit # None /\ (w = "http" <=> work[w].sub # None)
          /\ work[w].step \in {"apply", "commit", "record"} <=> work[w].groups # None
    /\ work["http"].step # "recover"
    /\ net \subseteq Message /\ mail \subseteq Reply
    /\ \A m \in net : m.kind = "apply-config" => m.groups # None
    /\ installed \in Gateway!Coherent
    /\ proposal \in Gateway!Version \cup {None}
    /\ check.step \in {"idle", "probing"} /\ checks \in 0..MaxChecks
    /\ stranded \subseteq Tx
    /\ faults \in 0..MaxFaults

\* Established routes without clients, applied by a finished job; the others are new.
Init ==
    /\ exits = [e \in Exits |->
                   [applied |-> e \in Established, ip |-> e \in Established \cup Direct,
                    status |-> IF e \in Established THEN "HEALTHY" ELSE "NEW"]]
    /\ subs = [s \in Subs |-> None] /\ deleted = [s \in Subs |-> "no"]
    /\ isp = [e \in Exits |-> "ok"]
    /\ jobs = [t \in Tx |->
                  IF t = First /\ Established # {}
                  THEN [exit |-> CHOOSE e \in Established : TRUE, state |-> "SUCCEEDED"]
                  ELSE None]
    /\ work = [w \in Workers |-> Idle]
    /\ net = {} /\ mail = {}
    /\ installed = IF Established = {} THEN Gateway!FactoryFiles
                   ELSE Gateway!Whole([tx |-> First, groups |->
                            [e \in Established |-> [enabled |-> TRUE, clients |-> {}]]])
    /\ proposal = None
    /\ guard = [e \in Established |-> TRUE]
    /\ check = [step |-> "idle", rows |-> None] /\ checks = 0
    /\ stranded = {}
    /\ faults = 0

Strike == faults < MaxFaults /\ faults' = faults + 1

Active(t) == jobs[t] # None /\ jobs[t].state \in {"QUEUED", "RUNNING"}
Running(t) == jobs[t] # None /\ jobs[t].state = "RUNNING"

\* CREATE UNIQUE INDEX one_exit_transaction ON exit_jobs(gateway_id)
\* WHERE state IN ('QUEUED','RUNNING'), and the queries that look before inserting.
NoActiveJob == \A t \in Tx : ~Active(t)

Insert(e, state) ==
    /\ NoActiveJob
    /\ \E t \in {u \in Tx : jobs[u] = None} :
          jobs' = [jobs EXCEPT ![t] = [exit |-> e, state |-> state]]

\* groups.available_exit()
Available(e) ==
    /\ exits[e].applied
    /\ IF e \in Direct THEN exits[e].status = "HEALTHY" /\ exits[e].ip ELSE isp[e] = "ok"

-----------------------------------------------------------------------------
(* Requests of the administrator *)

\* groups.register()
Register(s, e) ==
    /\ subs[s] = None /\ deleted[s] = "no"
    /\ Available(e)
    /\ subs' = [subs EXCEPT ![s] = [exit |-> e, deployed |-> None, client |-> FALSE,
                                    state |-> "PENDING", token |-> 0]]
    /\ UNCHANGED <<exits, deleted, isp, jobs, work, net, mail, gatewayVars, sideVars, faults>>

\* subscriptions.activate(): credentials once, and queue().
Activate(s) ==
    /\ subs[s] # None /\ Available(subs[s].exit)
    /\ Insert(subs[s].exit, "QUEUED")
    /\ subs' = [subs EXCEPT ![s].client = TRUE,
                            ![s].state = IF @ = "READY" /\ subs[s].deployed = subs[s].exit
                                         THEN "READY" ELSE "PENDING"]
    /\ UNCHANGED <<exits, deleted, isp, work, net, mail, gatewayVars, sideVars, faults>>

\* groups.confirm_change(), with queue() for a subscription that has credentials.
ConfirmChange(s, e) ==
    /\ subs[s] # None /\ subs[s].exit # e
    /\ Available(e)
    /\ NoActiveJob
    /\ IF subs[s].client THEN Insert(e, "QUEUED") ELSE UNCHANGED jobs
    /\ subs' = [subs EXCEPT ![s].exit = e, ![s].state = "PENDING"]
    /\ UNCHANGED <<exits, deleted, isp, work, net, mail, gatewayVars, sideVars, faults>>

\* exits.enqueue()
Enqueue(e) ==
    /\ Insert(e, "QUEUED")
    /\ UNCHANGED <<exits, subs, deleted, isp, work, net, mail, gatewayVars, sideVars, faults>>

\* subscriptions.rotate(): another token, whatever else is going on.
Rotate(s) ==
    /\ subs[s] # None /\ subs[s].client
    /\ subs[s].token < MaxTokens
    /\ subs' = [subs EXCEPT ![s].token = @ + 1]
    /\ UNCHANGED <<exits, deleted, isp, jobs, work, net, mail, gatewayVars, sideVars, faults>>

Forget(s, how) == subs' = [subs EXCEPT ![s] = None] /\ deleted' = [deleted EXCEPT ![s] = how]

\* groups.delete() of a subscription no gateway is known to serve.
DeleteLocally(s) ==
    /\ subs[s] # None
    /\ NoActiveJob
    /\ ~(subs[s].client /\ subs[s].deployed # None)
    /\ Forget(s, "here")
    /\ UNCHANGED <<exits, isp, jobs, work, net, mail, gatewayVars, sideVars, faults>>

\* Mutation: the row keeps the default state of the table.
BeginDeleteQueued(s) ==
    /\ subs[s] # None /\ work["http"] = Idle
    /\ subs[s].client /\ subs[s].deployed # None
    /\ Insert(subs[s].exit, "QUEUED")
    /\ \E t \in Tx :
          /\ jobs[t] = None /\ jobs'[t] # None
          /\ work' = [work EXCEPT !["http"] =
                [Idle EXCEPT !.step = "desired", !.tx = t, !.exit = subs[s].exit, !.sub = s,
                             !.token = subs[s].token]]
    /\ UNCHANGED <<exits, subs, deleted, isp, net, mail, gatewayVars, sideVars, faults>>

\* groups.delete() of a deployed one: its own job, RUNNING from the start.
BeginDelete(s) ==
    /\ subs[s] # None /\ work["http"] = Idle
    /\ subs[s].client /\ subs[s].deployed # None
    /\ Insert(subs[s].exit, "RUNNING")
    /\ \E t \in Tx :
          /\ jobs[t] = None /\ jobs'[t] # None
          /\ work' = [work EXCEPT !["http"] =
                [Idle EXCEPT !.step = "desired", !.tx = t, !.exit = subs[s].exit, !.sub = s,
                             !.token = subs[s].token]]
    /\ UNCHANGED <<exits, subs, deleted, isp, net, mail, gatewayVars, sideVars, faults>>

\* isps.run_next() with any result, or time passing.
IspChecked(e, result) ==
    /\ e \notin Direct /\ isp[e] # result
    /\ isp' = [isp EXCEPT ![e] = result]
    /\ UNCHANGED <<exits, subs, deleted, jobs, work, net, mail, gatewayVars, sideVars, faults>>

-----------------------------------------------------------------------------
(* The workers: desired(), apply_remote() and what each does with the result *)

\* run_next(): the only active job, if it is queued.
Take ==
    /\ work["lane"] = Idle
    /\ \E t \in Tx :
          /\ jobs[t] # None /\ jobs[t].state = "QUEUED"
          /\ jobs' = [jobs EXCEPT ![t].state = "RUNNING"]
          /\ exits' = [exits EXCEPT ![jobs[t].exit].status = "APPLYING"]
          /\ work' = [work EXCEPT !["lane"] =
                [Idle EXCEPT !.step = "desired", !.tx = t, !.exit = jobs[t].exit]]
    /\ UNCHANGED <<subs, deleted, isp, net, mail, gatewayVars, sideVars, faults>>

\* Mutation: desired() is called without the subscription to leave out.
ClientsOfAll(w, e) == {s \in Subs : subs[s] # None /\ subs[s].client /\ subs[s].exit = e}

\* Mutation: only the subscriptions of the job's own exit.
ClientsOfTarget(w, e) ==
    {s \in Subs \ {work[w].sub} :
        subs[s] # None /\ subs[s].client /\ subs[s].exit = e /\ e = work[w].exit}

\* Every subscription with credentials bound to the exit, but the one being deleted.
ClientsOf(w, e) ==
    {s \in Subs \ {work[w].sub} : subs[s] # None /\ subs[s].client /\ subs[s].exit = e}

\* The whole gateway: a target has to be ready, the others lose their route only when
\* their identity changed (or their contract expired).
Desired(w) ==
    LET target == work[w].exit
        groups == [e \in {f \in Exits : exits[f].applied \/ f = target} |->
                      [enabled |-> e = target \/ isp[e] # "changed",
                       clients |-> ClientsOf(w, e)]]
    IN  /\ work[w].step = "desired"
        /\ isp[target] = "ok"
        /\ work' = [work EXCEPT ![w].step = "apply", ![w].groups = groups]
        /\ net' = net \cup {[kind |-> "apply-config", tx |-> work[w].tx, groups |-> groups]}
        /\ UNCHANGED <<dbVars, mail, gatewayVars, sideVars, faults>>

NotReady(w) ==
    /\ work[w].step = "desired"
    /\ isp[work[w].exit] # "ok"
    /\ work' = [work EXCEPT ![w].step = "fail"]
    /\ UNCHANGED <<dbVars, net, mail, gatewayVars, sideVars, faults>>

Answer(w, ok) == [tx |-> work[w].tx, ok |-> ok]

\* Mutation: a version that passed its checks is taken for committed.
ApplyAnsweredIsEnough(w) ==
    /\ work[w].step = "apply" /\ Answer(w, "pending") \in mail
    /\ mail' = mail \ {Answer(w, "pending")}
    /\ work' = [work EXCEPT ![w].step = "record"]
    /\ UNCHANGED <<dbVars, net, gatewayVars, sideVars, faults>>

\* All enabled exits answered from their addresses: commit.
ApplyAnswered(w) ==
    /\ work[w].step = "apply" /\ Answer(w, "pending") \in mail
    /\ mail' = mail \ {Answer(w, "pending")}
    /\ net' = net \cup {[kind |-> "commit-config", tx |-> work[w].tx, groups |-> None]}
    /\ work' = [work EXCEPT ![w].step = "commit"]
    /\ UNCHANGED <<dbVars, gatewayVars, sideVars, faults>>

CommitAnswered(w) ==
    /\ work[w].step = "commit" /\ Answer(w, "committed") \in mail
    /\ mail' = mail \ {Answer(w, "committed")}
    /\ work' = [work EXCEPT ![w].step = "record"]
    /\ UNCHANGED <<dbVars, net, gatewayVars, sideVars, faults>>

Refused(w) ==
    /\ work[w].step \in {"apply", "commit"} /\ Answer(w, "no") \in mail
    /\ mail' = mail \ {Answer(w, "no")}
    /\ work' = [work EXCEPT ![w].step = "fail", ![w].groups = None]
    /\ UNCHANGED <<dbVars, net, gatewayVars, sideVars, faults>>

\* No connection, a closed channel, or 110 and 30 seconds without the answer.
GiveUp(w) ==
    /\ work[w].step \in {"apply", "commit"} /\ <<w, work[w].step>> \in GiveUpAt
    /\ work' = [work EXCEPT ![w].step = "fail", ![w].groups = None]
    /\ mail' = {a \in mail : a.tx # work[w].tx}
    /\ UNCHANGED <<dbVars, net, gatewayVars, sideVars, faults>>

\* What a finished transaction says of each exit: applied (by a job of the lane only),
\* its status, and its address when it was verified.
Verified(groups, applied) ==
    [e \in Exits |->
        IF e \in DOMAIN groups
        THEN [applied |-> applied \/ exits[e].applied, ip |-> groups[e].enabled,
              status |-> IF groups[e].enabled THEN "HEALTHY" ELSE "CRITICAL"]
        ELSE exits[e]]

Finish(w, state) ==
    /\ jobs' = [jobs EXCEPT ![work[w].tx].state = state]
    /\ work' = [work EXCEPT ![w] = Idle]

\* The snapshot's clients become READY where they are still bound to the same exit.
RecordSuccess ==
    LET groups == work["lane"].groups
        Applied(s) == /\ subs[s] # None /\ subs[s].exit \in DOMAIN groups
                      /\ s \in groups[subs[s].exit].clients
    IN  /\ work["lane"].step = "record"
        /\ exits' = Verified(groups, TRUE)
        /\ subs' = [s \in Subs |->
                       IF Applied(s)
                       THEN [subs[s] EXCEPT !.deployed = subs[s].exit,
                                            !.state = IF groups[subs[s].exit].enabled
                                                      THEN "READY" ELSE "PENDING"]
                       ELSE subs[s]]
        /\ Finish("lane", "SUCCEEDED")
        /\ UNCHANGED <<deleted, isp, net, mail, gatewayVars, sideVars, faults>>

\* Mutation: the job is left as it is.
RecordFailureOfExit ==
    /\ work["lane"].step = "fail"
    /\ exits' = [exits EXCEPT ![work["lane"].exit].status = "CONFIG_FAILED"]
    /\ work' = [work EXCEPT !["lane"] = Idle]
    /\ UNCHANGED <<subs, deleted, isp, jobs, net, mail, gatewayVars, sideVars, faults>>

\* "The new configuration failed, the old one keeps running" when the exit was applied
\* and verified before, whatever the reason of the failure.
RecordFailure ==
    LET e == work["lane"].exit
    IN  /\ work["lane"].step = "fail"
        /\ IF exits[e].applied /\ exits[e].ip
           THEN /\ exits' = [exits EXCEPT ![e].status = "HEALTHY"]
                /\ UNCHANGED subs
           ELSE /\ exits' = [exits EXCEPT ![e].status = "CONFIG_FAILED"]
                /\ subs' = [s \in Subs |-> IF subs[s] # None /\ subs[s].exit = e
                                           THEN [subs[s] EXCEPT !.state = "PENDING"]
                                           ELSE subs[s]]
        /\ Finish("lane", "FAILED")
        /\ UNCHANGED <<deleted, isp, net, mail, gatewayVars, sideVars, faults>>

\* The subscription has to be the one the thread started with, token included.
RecordDelete ==
    LET s == work["http"].sub
    IN  /\ work["http"].step = "record"
        /\ subs[s] # None
        /\ subs[s].exit = work["http"].exit /\ subs[s].token = work["http"].token
        /\ exits' = Verified(work["http"].groups, FALSE)
        /\ Forget(s, "revoked")
        /\ Finish("http", "SUCCEEDED")
        /\ UNCHANGED <<isp, net, mail, gatewayVars, sideVars, faults>>

DeleteConflicts ==
    LET s == work["http"].sub
    IN  /\ work["http"].step = "record"
        /\ subs[s] # None => \/ subs[s].exit # work["http"].exit
                             \/ subs[s].token # work["http"].token
        /\ work' = [work EXCEPT !["http"].step = "fail", !["http"].groups = None]
        /\ UNCHANGED <<dbVars, net, mail, gatewayVars, sideVars, faults>>

\* "Deletion failed, the subscription is kept."
RecordDeleteFailure ==
    /\ work["http"].step = "fail"
    /\ Finish("http", "FAILED")
    /\ UNCHANGED <<exits, subs, deleted, isp, net, mail, gatewayVars, sideVars, faults>>

-----------------------------------------------------------------------------
(* Database failures and restarts of the controller *)

Interrupted(t) == [jobs EXCEPT ![t].state = "FAILED"]

\* exits.recover(): whatever is RUNNING has lost its worker.
RecoverJobs ==
    IF \E t \in Tx : Running(t)
    THEN \E t \in Tx :
            /\ Running(t)
            /\ jobs' = Interrupted(t)
            /\ exits' = [exits EXCEPT ![jobs[t].exit].status = "UNKNOWN"]
    ELSE UNCHANGED <<exits, jobs>>

\* The first transaction of the lane fails ("database is locked"): nothing is taken, and
\* the lane recovers before it looks again.
TakeFails ==
    /\ work["lane"] = Idle /\ <<"lane", "take">> \in DbFailAt
    /\ Strike
    /\ work' = [work EXCEPT !["lane"].step = "recover"]
    /\ UNCHANGED <<dbVars, net, mail, gatewayVars, sideVars>>

\* Inside the try: as if the gateway had refused.
RecordFails(w) ==
    /\ work[w].step = "record" /\ <<w, "record">> \in DbFailAt
    /\ Strike
    /\ work' = [work EXCEPT ![w].step = "fail", ![w].groups = None]
    /\ UNCHANGED <<dbVars, net, mail, gatewayVars, sideVars>>

\* Inside the except: the lane recovers; the HTTP request ends with 503, and its row stays
\* RUNNING with nobody to end it.
RecordFailureFails(w) ==
    /\ work[w].step = "fail" /\ <<w, "fail">> \in DbFailAt
    /\ Strike
    /\ work' = [work EXCEPT ![w] = IF w = "lane" THEN [Idle EXCEPT !.step = "recover"] ELSE Idle]
    /\ stranded' = IF w = "http" THEN stranded \cup {work[w].tx} ELSE stranded
    /\ UNCHANGED <<dbVars, net, mail, gatewayVars, healthVars>>

RecoverLane ==
    /\ work["lane"].step = "recover"
    /\ RecoverJobs
    /\ work' = [work EXCEPT !["lane"] = Idle]
    /\ UNCHANGED <<subs, deleted, isp, net, mail, gatewayVars, sideVars, faults>>

\* Every thread is gone; GatewayWorker.start() recovers all lanes before it starts them.
Restart ==
    /\ \A w \in Workers : <<w, work[w].step>> \in RestartAt
    /\ Strike
    /\ RecoverJobs
    /\ work' = [w \in Workers |-> Idle] /\ mail' = {}
    /\ check' = [check EXCEPT !.step = "idle", !.rows = None]
    /\ UNCHANGED <<subs, deleted, isp, net, gatewayVars, checks, stranded>>

-----------------------------------------------------------------------------
(* The gateway: ConfigStore behind a connection *)

Request(m) == m \in net /\ net' = net \ {m}

\* An answer nobody waits for any more goes nowhere.
Send(m, ok) ==
    mail' = IF \E w \in Workers : work[w].tx = m.tx /\ work[w].step \in {"apply", "commit"}
            THEN mail \cup {[tx |-> m.tx, ok |-> ok]} ELSE mail

\* Verified, on trial, and said so.
RemoteApplies(m) ==
    /\ Request(m) /\ m.kind = "apply-config"
    /\ Gateway!Propose([tx |-> m.tx, groups |-> m.groups])
    /\ Send(m, "pending")
    /\ UNCHANGED <<dbVars, work, guard, sideVars, faults>>

\* Busy, another transaction pending, or an exit that did not verify and was rolled back.
RemoteRefuses(m) ==
    /\ Request(m) /\ m.kind = "apply-config"
    /\ Send(m, "no")
    /\ UNCHANGED <<dbVars, work, gatewayVars, sideVars, faults>>

\* The rollback failed too: the answer is no, and the timer keeps trying.
RemoteGetsStuck(m) ==
    /\ Request(m) /\ m.kind = "apply-config"
    /\ CanGetStuck /\ Strike
    /\ Gateway!Propose([tx |-> m.tx, groups |-> m.groups])
    /\ Send(m, "no")
    /\ UNCHANGED <<dbVars, work, guard, sideVars>>

RemoteCommits(m) ==
    /\ Request(m) /\ m.kind = "commit-config"
    /\ proposal # None /\ proposal.tx = m.tx
    /\ Gateway!Accept
    /\ Send(m, "committed")
    /\ UNCHANGED <<dbVars, work, guard, sideVars, faults>>

\* TRANSACTION_NOT_APPLIED: the timer was faster.
RemoteTooLate(m) ==
    /\ Request(m) /\ m.kind = "commit-config"
    /\ proposal # None => proposal.tx # m.tx
    /\ Send(m, "no")
    /\ UNCHANGED <<dbVars, work, gatewayVars, sideVars, faults>>

\* 120 seconds, a reboot, or root.
RemoteAbandons ==
    /\ Gateway!Abandon
    /\ UNCHANGED <<dbVars, work, net, mail, guard, sideVars, faults>>

\* A round of the guard: what Guard decides of each enabled route is arbitrary here.
GuardRound ==
    /\ checks < MaxChecks
    /\ proposal = None /\ installed.manifest # None
    /\ guard' \in [{e \in DOMAIN installed.config : installed.config[e].enabled} -> BOOLEAN]
    /\ UNCHANGED <<dbVars, work, net, mail, installed, proposal, sideVars, faults>>

-----------------------------------------------------------------------------
(* monitor.run_next("health") *)

\* status: guard.json as it is now, whichever transaction it is about.
CheckBegins ==
    /\ check.step = "idle" /\ checks < MaxChecks
    /\ checks' = checks + 1
    /\ check' = [step |-> "probing", rows |-> guard]
    /\ UNCHANGED <<dbVars, work, net, mail, gatewayVars, stranded, faults>>

\* An exit is healthy when its row is there, open, with the expected address, and the ISP's
\* own check agrees (or the row is a success of this very round).
Healthy(e, good, fresh) ==
    /\ good /\ e \in DOMAIN check.rows /\ check.rows[e]
    /\ e \in Direct \/ isp[e] = "ok" \/ e \in fresh

Judge(good, fresh) ==
    exits' = [e \in Exits |->
                 IF exits[e].applied
                 THEN [applied |-> TRUE, ip |-> Healthy(e, good, fresh),
                       status |-> IF Healthy(e, good, fresh) THEN "HEALTHY" ELSE "CRITICAL"]
                 ELSE exits[e]]

\* Mutation: a running job does not keep the exits from being judged.
CheckRecordsAlways ==
    /\ check.step = "probing"
    /\ \E good \in BOOLEAN, fresh \in SUBSET DOMAIN check.rows : Judge(good, fresh)
    /\ check' = [check EXCEPT !.step = "idle", !.rows = None]
    /\ UNCHANGED <<subs, deleted, isp, jobs, work, net, mail, gatewayVars, checks, stranded,
                   faults>>

\* record_health(): no verdict on exits while a job is RUNNING. A failed or incomplete
\* report is not good.
CheckRecords ==
    /\ check.step = "probing"
    /\ IF \E t \in Tx : Running(t) THEN UNCHANGED exits
       ELSE \E good \in BOOLEAN, fresh \in SUBSET DOMAIN check.rows : Judge(good, fresh)
    /\ check' = [check EXCEPT !.step = "idle", !.rows = None]
    /\ UNCHANGED <<subs, deleted, isp, jobs, work, net, mail, gatewayVars, checks, stranded,
                   faults>>

-----------------------------------------------------------------------------

Requests ==
    \/ \E s \in Subs, e \in Exits : Register(s, e) \/ ConfirmChange(s, e)
    \/ \E s \in Subs : Activate(s) \/ Rotate(s) \/ DeleteLocally(s) \/ BeginDelete(s)
    \/ \E e \in Exits : Enqueue(e)
    \/ \E e \in Exits, result \in {"ok", "stale", "changed"} : IspChecked(e, result)

Lane == Take \/ RecordSuccess \/ RecordFailure \/ RecoverLane
Http == RecordDelete \/ DeleteConflicts \/ RecordDeleteFailure

Shared(w) ==
    Desired(w) \/ NotReady(w) \/ ApplyAnswered(w) \/ CommitAnswered(w) \/ Refused(w) \/ GiveUp(w)

Remote ==
    \/ \E m \in net : \/ RemoteApplies(m) \/ RemoteRefuses(m) \/ RemoteGetsStuck(m)
                      \/ RemoteCommits(m) \/ RemoteTooLate(m)
    \/ RemoteAbandons \/ GuardRound

Health == CheckBegins \/ CheckRecords

Failures == TakeFails \/ Restart \/ \E w \in Workers : RecordFails(w) \/ RecordFailureFails(w)

Next == Requests \/ Lane \/ Http \/ (\E w \in Workers : Shared(w)) \/ Remote \/ Health \/ Failures

Spec == Init /\ [][Next]_vars

\* The threads run, and no SSH call outlasts its timeout; nothing is owed by the
\* administrator, the gateway or the health lane.
Fairness ==
    /\ WF_vars(Lane \/ Shared("lane"))
    /\ WF_vars(Http \/ Shared("http"))

FairSpec == Spec /\ Fairness

-----------------------------------------------------------------------------
(* Properties *)

Serves(groups, s, e) == e \in DOMAIN groups /\ s \in groups[e].clients

Deleting(s) == work["http"].step # "idle" /\ work["http"].sub = s

\* "The node and its data are kept": a subscription whose link is handed out as READY is
\* configured on the gateway, by the exit it names, unless it is being deleted.
ReadyIsDeployed ==
    \A s \in Subs :
        /\ subs[s] # None
        /\ subs[s].state = "READY" /\ subs[s].exit = subs[s].deployed
        /\ ~Deleting(s)
        => Serves(installed.config, s, subs[s].exit)

\* "The node is revoked from the gateway first": what was deleted here is not served there.
DeletedIsRemoved ==
    \A s \in Subs, e \in Exits : deleted[s] # "no" => ~Serves(installed.config, s, e)

\* A deletion that went through the gateway is final: no late request, no job that read
\* the row before and no rollback brings the client back.
RevokedIsRemoved ==
    \A s \in Subs, e \in Exits : deleted[s] = "revoked" => ~Serves(installed.config, s, e)

\* "exit_jobs are processed serially for each gateway": two workers never hold it at once.
OneWorker == Cardinality({w \in Workers : work[w].tx # None}) <= 1

\* An exit shows APPLYING exactly while the lane works on it (or has yet to clean up), not
\* while a deletion does, nor after one that could not record its failure.
ApplyingIsRunning ==
    \A e \in Exits :
        exits[e].status = "APPLYING" <=>
            \E t \in Tx : /\ Running(t) /\ jobs[t].exit = e
                          /\ work["http"].tx # t /\ t \notin stranded

\* A job is recorded as SUCCEEDED only when the gateway has installed its version.
SucceededIsInstalled ==
    [][\A t \in Tx : jobs[t] # None /\ jobs'[t].state = "SUCCEEDED" /\ jobs[t].state # "SUCCEEDED"
         => installed.manifest # None /\ installed.manifest.tx = t]_vars

\* A gateway is not blocked for ever by a job: every job ends, but for a deletion whose
\* failure could not be recorded either, which holds its gateway until the next restart or
\* recovery of the lane.
JobsFinish == \A t \in Tx : Active(t) ~> (~Active(t) \/ t \in stranded)
=============================================================================
