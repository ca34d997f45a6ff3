----------------------------- MODULE IspIdentity -----------------------------
(***************************************************************************)
(* The fixed exits ("ISPs") of the controller: their connection data and   *)
(* secrets, the identity each is pinned to, and who changes them: requests *)
(* that run in a thread pool, the lane that checks ISPs (services/isps.py) *)
(* and the jobs that deploy the connection of an ISP to the gateways of    *)
(* the exits bound to it (services/exits.py).                              *)
(*                                                                         *)
(* A connection is named by the reference of its secret: every edit puts   *)
(* a new secret. What a probe measures is up to the ISP.                   *)
(*                                                                         *)
(* Simplifications:                                                        *)
(*  - an exit is of type ISP_PROXY and is not deleted (module ExitJobs);   *)
(*  - what a gateway does with a configuration is one step here (module    *)
(*    Transactions), which may succeed with the answer lost;               *)
(*  - of the reasons an applied exit is disabled (identity, expiry) only   *)
(*    those of the exit the job is for are kept: they fail the job;        *)
(*  - clocks are left out: a check may be due at any time.                 *)
(***************************************************************************)
EXTENDS Naturals, Sequences, FiniteSets

CONSTANTS
    None,
    Isps, Exits, Gateways, IPs,
    Requests,          \* threads of the pool
    IspOf, GatewayOf,  \* an exit's ISP and gateway
    HomeOf,            \* an ISP's gateway
    Deployed,          \* exits that are deployed from the start
    MayExpire,         \* TRUE: the date typed for an ISP may have passed
    MayRestart,        \* TRUE: the controller may restart
    MaxFaults,         \* bound: database failures and restarts
    MaxSecrets         \* bound: secrets put

Refs == 1..MaxSecrets
Statuses == {"NEW", "CHECKING", "HEALTHY", "CRITICAL", "UNKNOWN"}

IspRow == [ref : Refs, expected : IPs \cup {None}, current : IPs \cup {None},
           status : Statuses, expired : BOOLEAN,
           crossed : BOOLEAN]   \* history: a check pinned the identity while the last edit,
                                \* which had read none, was under way; no check since

ExitJob == [exit : Exits, state : {"QUEUED", "RUNNING"}]

ASSUME TopologyOK ==
    /\ IspOf \in [Exits -> Isps]
    /\ GatewayOf \in [Exits -> Gateways]
    /\ HomeOf \in [Isps -> Gateways]
    /\ Deployed \subseteq Exits
    /\ MaxSecrets \in Nat /\ MaxFaults \in Nat
    /\ None \notin Isps \cup Exits \cup Gateways \cup IPs
    /\ None \notin Refs /\ None \notin BOOLEAN /\ None \notin IspRow /\ None \notin ExitJob

VARIABLES
    row,      \* isp_exits: the row of each ISP, or None
    secrets,  \* files of the secret directory
    puts,     \* secrets put so far
    queue,    \* QUEUED rows of isp_jobs, by id
    lane,     \* the isp lane: the job it runs and what it read
    request,  \* what each thread does, with what it read
    exit,     \* exit_groups: applied, or None
    exitjob,  \* the active row of exit_jobs of each gateway, or None
    failed,   \* gateways whose last exit job failed
    raced,    \* history: exits first applied while the connection of their ISP was edited
    worker,   \* the configuration lane: the job it runs and what it read
    remote,   \* the connection a gateway uses for an exit, or None
    faults

ispVars == <<row, queue, lane>>
exitVars == <<exit, exitjob, failed, raced, worker, remote>>
vars == <<ispVars, secrets, puts, request, exitVars, faults>>

Free == [step |-> "idle"]

\* What the isp lane, a request and the configuration lane keep between their steps.
Lanes == {Free} \cup [step : {"probe"}, isp : Isps, ref : Refs, expected : IPs \cup {None}]
         \cup [step : {"record", "recover"}, isp : Isps, ref : Refs,
               expected : IPs \cup {None}, actual : IPs \cup {None}]

Pending == {Free} \cup [step : {"insert"}, isp : Isps, row : IspRow]
           \cup [step : {"probe"}, isp : Isps, old : Refs, expected : IPs \cup {None},
                 expired : BOOLEAN]
           \cup [step : {"commit"}, isp : Isps, old : Refs, new : Refs, ip : IPs,
                 expected : IPs \cup {None}, expired : BOOLEAN]
           \cup [step : {"discard"}, ref : Refs] \cup [step : {"bind"}, exit : Exits]

Snapshots == UNION {[E -> Refs] : E \in SUBSET Exits}
Workers == {Free} \cup [step : {"rows", "fail", "recover"}, gateway : Gateways]
           \cup [step : {"secrets", "apply", "success", "fail", "recover"},
                 gateway : Gateways, refs : Snapshots]

TypeOK ==
    /\ row \in [Isps -> IspRow \cup {None}]
    /\ puts \in 0..MaxSecrets /\ secrets \subseteq 1..puts
    /\ queue \in Seq(Isps) /\ lane \in Lanes
    /\ request \in [Requests -> Pending]
    /\ exit \in [Exits -> BOOLEAN \cup {None}]
    /\ exitjob \in [Gateways -> ExitJob \cup {None}]
    /\ failed \subseteq Gateways /\ raced \subseteq Exits
    /\ worker \in Workers
    /\ remote \in [Exits -> Refs \cup {None}]
    /\ faults \in 0..MaxFaults

\* The ISPs of the exits that are deployed, which have been checked and have a secret each.
Ready == {i \in Isps : \E e \in Deployed : IspOf[e] = i}

Checked(ip, ref) == [ref |-> ref, expected |-> ip, current |-> ip, status |-> "HEALTHY",
                     expired |-> FALSE, crossed |-> FALSE]

Init ==
    /\ puts = Cardinality(Ready) /\ puts \in 0..MaxSecrets /\ secrets = 1..puts
    /\ \E ip \in IPs, order \in [Isps -> Refs] :
          /\ \A i \in Ready : order[i] \in 1..puts
          /\ \A i, j \in Ready : order[i] = order[j] => i = j
          /\ \A i \in Isps \ Ready : order[i] = 1
          /\ row = [i \in Isps |-> IF i \in Ready THEN Checked(ip, order[i]) ELSE None]
          /\ remote = [e \in Exits |-> IF e \in Deployed THEN order[IspOf[e]] ELSE None]
    /\ queue = <<>> /\ lane = Free
    /\ request = [a \in Requests |-> Free]
    /\ exit = [e \in Exits |-> IF e \in Deployed THEN TRUE ELSE None]
    /\ exitjob = [g \in Gateways |-> None] /\ failed = {} /\ raced = {} /\ worker = Free
    /\ faults = 0

Strike == faults < MaxFaults /\ faults' = faults + 1

Checking(i) == lane # Free /\ lane.isp = i
BusyIsp(i) == Checking(i) \/ \E n \in DOMAIN queue : queue[n] = i
Bound(i) == {e \in Exits : exit[e] # None /\ IspOf[e] = i}

Put == puts < MaxSecrets /\ puts' = puts + 1 /\ secrets' = secrets \cup {puts + 1}
Discard(ref) == secrets' = secrets \ {ref}

\* remote_probe.probe(): two services have to see the same address.
Measured(first, second) == IF first = second THEN first ELSE None

Healthy(i) == row[i].status = "HEALTHY" /\ row[i].expected # None
              /\ row[i].current = row[i].expected

-----------------------------------------------------------------------------
(* Requests: register(), update_connection(), delete(), exits.register() *)

Become(a, state) == request' = [request EXCEPT ![a] = state]
At(a, step) == request[a].step = step
Busy(e) == exitjob[GatewayOf[e]] # None

Register(a, i, ip, expired) ==
    /\ request[a] = Free
    /\ expired => MayExpire
    /\ Put
    /\ Become(a, [step |-> "insert", isp |-> i,
                  row |-> [ref |-> puts', expected |-> ip, current |-> None,
                           status |-> "NEW", expired |-> expired, crossed |-> FALSE]])
    /\ UNCHANGED <<ispVars, exitVars, faults>>

\* The name is UNIQUE: of two requests for one ISP the second fails.
Insert(a) ==
    /\ At(a, "insert") /\ row[request[a].isp] = None
    /\ row' = [row EXCEPT ![request[a].isp] = request[a].row]
    /\ Become(a, Free)
    /\ UNCHANGED <<secrets, puts, queue, lane, exitVars, faults>>

InsertFails(a) ==
    /\ At(a, "insert")
    /\ \/ row[request[a].isp] # None /\ UNCHANGED faults
       \/ Strike
    /\ Become(a, [step |-> "discard", ref |-> request[a].row.ref])
    /\ UNCHANGED <<ispVars, secrets, puts, exitVars>>

\* Neither a check of the ISP nor a job of its gateway may be active. The probe that
\* follows takes a minute or more.
BeginEdit(a, i, expired) ==
    /\ request[a] = Free
    /\ row[i] # None /\ ~BusyIsp(i) /\ exitjob[HomeOf[i]] = None
    /\ row[i].ref \in secrets
    /\ expired => MayExpire
    /\ Become(a, [step |-> "probe", isp |-> i, old |-> row[i].ref,
                  expected |-> row[i].expected, expired |-> expired])
    /\ UNCHANGED <<ispVars, secrets, puts, exitVars, faults>>

\* Mutation: the old secret goes before the new one is in the database.
ProbeNewAndDiscard(a, ip) ==
    /\ At(a, "probe")
    /\ ip # None /\ request[a].expected \in {None, ip}
    /\ puts < MaxSecrets /\ puts' = puts + 1
    /\ secrets' = (secrets \cup {puts'}) \ {request[a].old}
    /\ Become(a, [step |-> "commit", isp |-> request[a].isp, old |-> request[a].old,
                  new |-> puts', ip |-> ip, expected |-> request[a].expected,
                  expired |-> request[a].expired])
    /\ UNCHANGED <<ispVars, exitVars, faults>>

\* An edit is refused on another identity than the pinned one.
ProbeNew(a, ip) ==
    /\ At(a, "probe")
    /\ ip # None /\ request[a].expected \in {None, ip}
    /\ Put
    /\ Become(a, [step |-> "commit", isp |-> request[a].isp, old |-> request[a].old,
                  new |-> puts', ip |-> ip, expected |-> request[a].expected,
                  expired |-> request[a].expired])
    /\ UNCHANGED <<ispVars, exitVars, faults>>

RefuseNew(a, ip) ==
    /\ At(a, "probe")
    /\ ip = None \/ request[a].expected \notin {None, ip}
    /\ Become(a, Free)
    /\ UNCHANGED <<ispVars, secrets, puts, exitVars, faults>>

\* The exit that will be deployed again: one of those applied.
Affected(i) == {e \in Bound(i) : exit[e]}

\* Nobody has changed the connection since it was read; one_exit_transaction.
MayCommit(q) ==
    /\ row[q.isp] # None /\ row[q.isp].ref = q.old
    /\ Affected(q.isp) # {} => exitjob[HomeOf[q.isp]] = None

Store(q) ==
    LET pinned == row[q.isp].expected IN
    row' = [row EXCEPT ![q.isp] =
        [ref |-> q.new, expected |-> IF pinned = None THEN q.ip ELSE pinned,
         current |-> q.ip, status |-> "HEALTHY", expired |-> q.expired,
         crossed |-> q.expected = None /\ pinned # None]]

QueueAffected(i) ==
    exitjob' = IF Affected(i) = {} THEN exitjob
               ELSE [exitjob EXCEPT ![HomeOf[i]] =
                       [exit |-> CHOOSE e \in Affected(i) : TRUE, state |-> "QUEUED"]]

\* An exit that is not applied yet is not seen here, though its first job may run.
Race(i) ==
    raced' = raced \cup {e \in Bound(i) : /\ ~exit[e] /\ Busy(e)
                                          /\ exitjob[GatewayOf[e]].state = "RUNNING"}

\* Mutation: a gateway that is busy is left alone, and the edit goes through.
CommitEditQuietly(a) ==
    LET q == request[a] IN
    /\ At(a, "commit")
    /\ row[q.isp] # None /\ row[q.isp].ref = q.old
    /\ Store(q)
    /\ IF exitjob[HomeOf[q.isp]] = None THEN QueueAffected(q.isp) ELSE UNCHANGED exitjob
    /\ Race(q.isp)
    /\ Become(a, [step |-> "discard", ref |-> q.old])
    /\ UNCHANGED <<secrets, puts, queue, lane, exit, failed, worker, remote, faults>>

CommitEdit(a) ==
    LET q == request[a] IN
    /\ At(a, "commit")
    /\ MayCommit(q)
    /\ Store(q)
    /\ QueueAffected(q.isp)
    /\ Race(q.isp)
    /\ Become(a, [step |-> "discard", ref |-> q.old])
    /\ UNCHANGED <<secrets, puts, queue, lane, exit, failed, worker, remote, faults>>

CommitEditFails(a) ==
    /\ At(a, "commit")
    /\ \/ ~MayCommit(request[a]) /\ UNCHANGED faults
       \/ Strike
    /\ Become(a, [step |-> "discard", ref |-> request[a].new])
    /\ UNCHANGED <<ispVars, secrets, puts, exitVars>>

\* store.delete(): what was replaced, removed or never used.
DiscardSecret(a) ==
    /\ At(a, "discard")
    /\ Discard(request[a].ref)
    /\ Become(a, Free)
    /\ UNCHANGED <<ispVars, puts, exitVars, faults>>

Delete(a, i) ==
    /\ request[a] = Free
    /\ row[i] # None /\ Bound(i) = {} /\ ~BusyIsp(i)
    /\ row' = [row EXCEPT ![i] = None]
    /\ Become(a, [step |-> "discard", ref |-> row[i].ref])
    /\ UNCHANGED <<secrets, puts, queue, lane, exitVars, faults>>

\* exits.register() reads the ISP, and inserts in another transaction.
BeginBind(a, e) ==
    /\ request[a] = Free
    /\ exit[e] = None /\ row[IspOf[e]] # None /\ Healthy(IspOf[e])
    /\ Become(a, [step |-> "bind", exit |-> e])
    /\ UNCHANGED <<ispVars, secrets, puts, exitVars, faults>>

Bind(a) ==
    LET e == request[a].exit IN
    /\ At(a, "bind")
    /\ exit' = IF exit[e] = None /\ row[IspOf[e]] # None
               THEN [exit EXCEPT ![e] = FALSE] ELSE exit
    /\ Become(a, Free)
    /\ UNCHANGED <<ispVars, secrets, puts, exitjob, failed, raced, worker, remote, faults>>

-----------------------------------------------------------------------------
(* The isp lane: enqueue(), schedule_due(), run_next(), recover() *)

\* one_isp_job.
EnqueueCheck(i) ==
    /\ row[i] # None /\ ~BusyIsp(i)
    /\ queue' = Append(queue, i)
    /\ UNCHANGED <<row, secrets, puts, lane, request, exitVars, faults>>

TakeCheck ==
    LET i == Head(queue) IN
    /\ lane = Free /\ queue # <<>>
    /\ queue' = Tail(queue)
    /\ lane' = [step |-> "probe", isp |-> i, ref |-> row[i].ref,
                expected |-> row[i].expected]
    /\ row' = [row EXCEPT ![i].status = "CHECKING"]
    /\ UNCHANGED <<secrets, puts, request, exitVars, faults>>

\* With the connection that was read then, if its secret still exists.
ProbeIsp(ip) ==
    /\ lane.step = "probe"
    /\ ip # None => lane.ref \in secrets
    /\ lane' = [step |-> "record", isp |-> lane.isp, ref |-> lane.ref,
                expected |-> lane.expected, actual |-> ip]
    /\ UNCHANGED <<row, queue, secrets, puts, request, exitVars, faults>>

\* The trigger immutable_exit_identity, which would refuse to replace an identity, is left
\* out: IdentityPinned shows that nothing depends on it.
Record(i, pin, actual) ==
    LET expected == IF pin = None THEN actual ELSE pin IN
    row' = [row EXCEPT ![i].expected = expected, ![i].current = actual, ![i].crossed = FALSE,
                       ![i].status = IF actual # None /\ expected = actual /\ ~row[i].expired
                                     THEN "HEALTHY" ELSE "CRITICAL"]

\* Mutation: the identity as it was before the probe.
RecordCheckOfSnapshot ==
    /\ lane.step = "record"
    /\ Record(lane.isp, lane.expected, lane.actual)
    /\ lane' = Free
    /\ UNCHANGED <<queue, secrets, puts, request, exitVars, faults>>

\* Mutation: the first identity is whatever was seen last.
RecordCheckOfLast ==
    /\ lane.step = "record"
    /\ Record(lane.isp, lane.actual, lane.actual)
    /\ lane' = Free
    /\ UNCHANGED <<queue, secrets, puts, request, exitVars, faults>>

\* The identity is read again; the connection is not compared.
RecordCheck ==
    /\ lane.step = "record"
    /\ Record(lane.isp, row[lane.isp].expected, lane.actual)
    /\ lane' = Free
    /\ UNCHANGED <<queue, secrets, puts, request, exitVars, faults>>

CheckDbFails ==
    /\ lane.step = "record"
    /\ Strike
    /\ lane' = [lane EXCEPT !.step = "recover"]
    /\ UNCHANGED <<row, queue, secrets, puts, request, exitVars>>

\* Mutation: the interrupted job stays RUNNING.
RecoverIspStatusOnly ==
    /\ row' = IF lane = Free THEN row ELSE [row EXCEPT ![lane.isp].status = "UNKNOWN"]
    /\ UNCHANGED lane

RecoverIsp ==
    /\ lane' = Free
    /\ row' = IF lane = Free THEN row ELSE [row EXCEPT ![lane.isp].status = "UNKNOWN"]

RecoverLane ==
    /\ lane.step = "recover"
    /\ RecoverIsp
    /\ UNCHANGED <<queue, secrets, puts, request, exitVars, faults>>

-----------------------------------------------------------------------------
(* The configuration lane: exits.enqueue(), desired(), run_next(), recover() *)

EnqueueExit(e) ==
    /\ exit[e] # None /\ ~Busy(e)
    /\ exitjob' = [exitjob EXCEPT ![GatewayOf[e]] = [exit |-> e, state |-> "QUEUED"]]
    /\ UNCHANGED <<ispVars, secrets, puts, request, exit, failed, raced, worker, remote, faults>>

TakeExit(g) ==
    /\ worker = Free
    /\ exitjob[g] # None /\ exitjob[g].state = "QUEUED"
    /\ exitjob' = [exitjob EXCEPT ![g].state = "RUNNING"]
    /\ worker' = [step |-> "rows", gateway |-> g]
    /\ UNCHANGED <<ispVars, secrets, puts, request, exit, failed, raced, remote, faults>>

WorkerOnly ==
    UNCHANGED <<ispVars, secrets, puts, request, exit, exitjob, failed, raced, remote>>

\* The exits of the gateway that are applied, and the one the job is for.
Wanted(g) == {e \in Exits : exit[e] # None /\ GatewayOf[e] = g /\ (exit[e] \/ exitjob[g].exit = e)}

\* A target has to be in order, and every exit needs an identity.
Usable(g) ==
    /\ \A e \in Wanted(g) : row[IspOf[e]].expected # None
    /\ exitjob[g].exit \in Wanted(g) =>
           LET i == IspOf[exitjob[g].exit] IN
           /\ row[i].status \in {"HEALTHY", "CHECKING"}
           /\ row[i].current = row[i].expected
           /\ ~row[i].expired

ReadRows ==
    /\ worker.step = "rows"
    /\ Usable(worker.gateway)
    /\ worker' = [step |-> "secrets", gateway |-> worker.gateway,
                  refs |-> [e \in Wanted(worker.gateway) |-> row[IspOf[e]].ref]]
    /\ WorkerOnly /\ UNCHANGED faults

\* Outside of the transaction that read the rows.
ReadSecrets ==
    /\ worker.step = "secrets"
    /\ \A e \in DOMAIN worker.refs : worker.refs[e] \in secrets
    /\ worker' = [worker EXCEPT !.step = "apply"]
    /\ WorkerOnly /\ UNCHANGED faults

\* No identity, a stale one, no secret, no connection, or refused by the gateway, with the
\* old configuration back.
WorkerFails ==
    /\ worker.step \in {"rows", "secrets", "apply"}
    /\ worker' = [step |-> "fail", gateway |-> worker.gateway]
    /\ WorkerOnly /\ UNCHANGED faults

\* Committed on the gateway, whether or not the answer arrives.
ApplyRemote(answered) ==
    /\ worker.step = "apply"
    /\ remote' = [e \in Exits |-> IF e \in DOMAIN worker.refs THEN worker.refs[e]
                                  ELSE IF GatewayOf[e] = worker.gateway THEN None
                                  ELSE remote[e]]
    /\ worker' = [worker EXCEPT !.step = IF answered THEN "success" ELSE "fail"]
    /\ UNCHANGED <<ispVars, secrets, puts, request, exit, exitjob, failed, raced, faults>>

RecordSuccess ==
    /\ worker.step = "success"
    /\ exit' = [e \in Exits |-> IF e \in DOMAIN worker.refs THEN TRUE ELSE exit[e]]
    /\ raced' = {e \in raced : e \in DOMAIN worker.refs => row[IspOf[e]].ref # worker.refs[e]}
    /\ exitjob' = [exitjob EXCEPT ![worker.gateway] = None]
    /\ failed' = failed \ {worker.gateway}
    /\ worker' = Free
    /\ UNCHANGED <<ispVars, secrets, puts, request, remote, faults>>

RecordFailure ==
    /\ worker.step = "fail"
    /\ exitjob' = [exitjob EXCEPT ![worker.gateway] = None]
    /\ failed' = failed \cup {worker.gateway}
    /\ worker' = Free
    /\ UNCHANGED <<ispVars, secrets, puts, request, exit, raced, remote, faults>>

WorkerDbFails ==
    /\ worker.step \in {"success", "fail"}
    /\ Strike
    /\ worker' = [worker EXCEPT !.step = IF @ = "success" THEN "fail" ELSE "recover"]
    /\ WorkerOnly

RecoverExit ==
    /\ worker' = Free
    /\ IF worker = Free THEN UNCHANGED <<exitjob, failed>>
       ELSE /\ exitjob' = [exitjob EXCEPT ![worker.gateway] = None]
            /\ failed' = failed \cup {worker.gateway}

RecoverWorker ==
    /\ worker.step = "recover"
    /\ RecoverExit
    /\ UNCHANGED <<ispVars, secrets, puts, request, exit, raced, remote, faults>>

\* GatewayWorker.start(): every lane recovers; requests are gone.
Restart ==
    /\ MayRestart /\ Strike
    /\ RecoverIsp /\ RecoverExit
    /\ request' = [a \in Requests |-> Free]
    /\ UNCHANGED <<queue, secrets, puts, exit, raced, remote>>

-----------------------------------------------------------------------------

RequestSteps(a) ==
    \/ \E i \in Isps, ip \in IPs \cup {None}, expired \in BOOLEAN : Register(a, i, ip, expired)
    \/ Insert(a) \/ InsertFails(a)
    \/ \E i \in Isps, expired \in BOOLEAN : BeginEdit(a, i, expired)
    \/ \E first, second \in IPs \cup {None} :
          ProbeNew(a, Measured(first, second)) \/ RefuseNew(a, Measured(first, second))
    \/ CommitEdit(a) \/ CommitEditFails(a) \/ DiscardSecret(a)
    \/ \E i \in Isps : Delete(a, i)
    \/ \E e \in Exits : BeginBind(a, e)
    \/ Bind(a)

IspLane ==
    \/ TakeCheck \/ RecordCheck \/ RecoverLane
    \/ \E first, second \in IPs \cup {None} : ProbeIsp(Measured(first, second))

ConfigurationLane ==
    \/ \E g \in Gateways : TakeExit(g)
    \/ ReadRows \/ ReadSecrets \/ WorkerFails \/ RecordSuccess \/ RecordFailure
    \/ \E answered \in BOOLEAN : ApplyRemote(answered)
    \/ RecoverWorker

Environment ==
    \/ \E i \in Isps : EnqueueCheck(i)
    \/ \E e \in Exits : EnqueueExit(e)
    \/ CheckDbFails \/ WorkerDbFails \/ Restart

Next ==
    \/ \E a \in Requests : RequestSteps(a)
    \/ IspLane \/ ConfigurationLane \/ Environment

Spec == Init /\ [][Next]_vars

\* The lanes are threads that run; probes and calls end in bounded time.
FairSpec == Spec /\ WF_vars(IspLane) /\ WF_vars(ConfigurationLane)

-----------------------------------------------------------------------------
(* Properties *)

\* The connection of every ISP can be used: no edit, refused or raced or interrupted,
\* and no deletion takes away the secret a row refers to.
SecretsKept == \A i \in Isps : row[i] # None => row[i].ref \in secrets

\* "Once determined, the expected IP cannot be overwritten": no interleaving of checks
\* and edits that each read the identity before a long probe replaces it.
IdentityPinned ==
    [][\A i \in Isps : row[i] # None /\ row'[i] # None /\ row[i].expected # None =>
         row'[i].expected = row[i].expected]_row

\* An ISP is shown HEALTHY only if it was last seen with its identity, whoever pinned that,
\* unless the last edit read the row before the check that pinned it and was stored after.
HealthyIsExpected ==
    \A i \in Isps : row[i] # None /\ row[i].status = "HEALTHY" /\ ~row[i].crossed =>
        row[i].current # None /\ row[i].current = row[i].expected

\* "When the address differs from the one already locked, saving is refused"
\* (USER-GUIDE.md:127): a connection that is stored was seen with the identity of the row.
OtherAddressRefused ==
    [][\A i \in Isps : row[i] # None /\ row'[i] # None /\ row'[i].ref # row[i].ref
         /\ row[i].expected # None => row'[i].current = row[i].expected]_row

\* "Exits bound to the ISP are deployed again": an applied exit of a gateway that is idle,
\* and whose last job did not fail, uses the present connection of its ISP.
RoutesFollow ==
    \A e \in Exits : exit[e] = TRUE /\ ~Busy(e) /\ GatewayOf[e] \notin failed /\ e \notin raced =>
        remote[e] = row[IspOf[e]].ref

\* Every check that was queued ends: done, or given up by the recovery of the lane.
ChecksFinish == \A i \in Isps : BusyIsp(i) ~> ~BusyIsp(i)
=============================================================================
