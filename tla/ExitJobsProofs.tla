---------------------------- MODULE ExitJobsProofs ----------------------------
(***************************************************************************)
(* Proofs about ExitJobs, for any number of exits, subscriptions, jobs,    *)
(* link tokens, health checks and faults, when the transaction that takes  *)
(* a job does not fail (otherwise the lane's recovery declares the job of  *)
(* a deletion dead while its thread goes on).                              *)
(***************************************************************************)
EXTENDS ExitJobs, FiniteSetTheorems, TLAPS

\* The window OneWorker leaves out.
TakesSucceed == <<"lane", "take">> \notin DbFailAt

\* What ReadyIsDeployed leaves out besides: a deletion cut off between its confirmation and its
\* record, or whose link is rotated meanwhile.
DeletionsEnd ==
    /\ <<"http", "commit">> \notin GiveUpAt /\ <<"http", "record">> \notin DbFailAt
    /\ <<"http", "commit">> \notin RestartAt /\ <<"http", "record">> \notin RestartAt

LinkKept == \A s \in Subs : Deleting(s) => ~Rotate(s)

-----------------------------------------------------------------------------
(* The inductive invariants *)

\* One active job; the row of a worker stays.
RowInv ==
    /\ \A t, u \in Tx : Active(t) /\ Active(u) => t = u
    /\ \A w \in Workers : work[w].tx # None => jobs[work[w].tx] # None

\* One active job; every worker runs one, and no two of them; the lane that has to clean up
\* finds its row.
JobInv ==
    /\ \A t, u \in Tx : Active(t) /\ Active(u) => t = u
    /\ \A w \in Workers : work[w].tx # None =>
          Running(work[w].tx) /\ jobs[work[w].tx].exit = work[w].exit
    /\ work["lane"].tx # None => work["http"].tx = None
    /\ work["lane"].step = "recover" => work["http"].tx = None /\ \E t \in Tx : Running(t)

\* The jobs whose worker may have spoken to the gateway.
Begun(t) == jobs[t] # None /\ jobs[t].state # "QUEUED"

\* The worker of a transaction waits for the answer to this command.
Waits(t, step) == \E w \in Workers : work[w].tx = t /\ work[w].step = step

\* One command or one answer of a transaction is under way, and who sent it or waits for it.
NetInv ==
    /\ \A m, n \in net : m.tx = n.tx => m = n
    /\ \A a, b \in mail : a.tx = b.tx => a = b
    /\ \A a \in mail, m \in net : a.tx # m.tx
    /\ \A m \in net : Begun(m.tx)
    /\ \A m \in net, w \in Workers : work[w].tx = m.tx =>
          IF m.kind = "apply-config"
          THEN /\ work[w].step \in {"apply", "fail"}
               /\ work[w].step = "apply" => m.groups = work[w].groups
          ELSE work[w].step \in {"commit", "fail"}
    /\ \A a \in mail : \/ a.ok # "committed" /\ Waits(a.tx, "apply")
                       \/ a.ok # "pending" /\ Waits(a.tx, "commit")

\* A confirmation of the version on trial is under way.
Decided == proposal # None /\ \E m \in net : m.kind = "commit-config" /\ m.tx = proposal.tx

Holding(t) == installed.manifest # None /\ installed.manifest.tx = t

Answered(w) == [tx |-> work[w].tx, ok |-> "committed"] \in mail

\* What the gateway has of the transaction of each worker.
GatewayInv ==
    /\ installed.manifest # None => Begun(installed.manifest.tx)
    /\ proposal # None =>
          /\ Begun(proposal.tx) /\ ~Holding(proposal.tx)
          /\ \A m \in net : m.tx = proposal.tx => m.kind = "commit-config"
    /\ \A w \in Workers :
          /\ work[w].step = "desired" => \A x \in net \cup mail : x.tx # work[w].tx
          /\ proposal # None /\ proposal.tx = work[w].tx =>
                /\ work[w].step \in {"apply", "commit", "fail"}
                /\ work[w].step # "fail" => proposal.groups = work[w].groups
          /\ work[w].step \in {"desired", "apply"} \/ (work[w].step = "commit" /\ ~Answered(w)) =>
                ~Holding(work[w].tx)
          /\ work[w].step = "record" \/ (work[w].step = "commit" /\ Answered(w)) =>
                /\ Holding(work[w].tx) /\ installed.config = work[w].groups
                /\ ~Decided

OutOf(groups, s) == \A e \in Exits : ~Serves(groups, s, e)

\* What is, or may yet be, installed leaves a client out that was revoked.
RevokedInv ==
    /\ \A w \in Workers : work[w].groups # None /\ work[w].sub # None =>
          OutOf(work[w].groups, work[w].sub)
    /\ \A s \in Subs : deleted[s] = "revoked" =>
          /\ installed.manifest # None /\ OutOf(installed.config, s)
          /\ \A w \in Workers : work[w].groups # None => OutOf(work[w].groups, s)
          /\ Decided => OutOf(proposal.groups, s)

Settled(s) == subs[s] # None /\ subs[s].state = "READY" /\ subs[s].exit = subs[s].deployed

\* Nobody is registered again under the identity of a client the gateway was asked to serve.
Known(s) == deleted[s] # "no" \/ (subs[s] # None /\ subs[s].client)

\* The deletion of a client has reached the gateway, or is about to.
Leaving(s, t) ==
    work["http"].sub = s /\ work["http"].tx = t /\ work["http"].step \in {"commit", "record"}

\* The subscription an HTTP thread deletes stays as it was read, and a deletion that failed has
\* no confirmation under way.
DeletionInv ==
    /\ work["http"].tx # None =>
          LET s == work["http"].sub
          IN  /\ subs[s] # None /\ subs[s].exit = work["http"].exit
              /\ subs[s].token = work["http"].token
    /\ work["http"].step = "fail" => \A m \in net : m.kind = "commit-config" => m.tx # work["http"].tx

KnownInv ==
    \A w \in Workers, s \in Subs, e \in Exits :
        work[w].groups # None /\ Serves(work[w].groups, s, e) => Known(s)

\* What is, or may yet be, installed serves the client, unless its deletion put it there.
Served(s) ==
    /\ subs[s].client /\ exits[subs[s].exit].applied /\ installed.manifest # None
    /\ \A w \in Workers : work[w].groups # None /\ work[w].sub # s =>
          Serves(work[w].groups, s, subs[s].exit)
    /\ Decided => Serves(proposal.groups, s, subs[s].exit) \/ Leaving(s, proposal.tx)
    /\ Serves(installed.config, s, subs[s].exit) \/ Leaving(s, installed.manifest.tx)

ReadyInv == \A s \in Subs : Settled(s) => Served(s)


-----------------------------------------------------------------------------
(* Types *)

\* The version an initial gateway has installed is one of the versions.
LEMMA TypeInit == Init => TypeOK
<1> SUFFICES ASSUME Init PROVE TypeOK
  OBVIOUS
<1> USE SetsOK, NoneOK DEF Init
<1>1. exits \in [Exits -> ExitRow]
  BY DEF ExitRow, Statuses
<1>2. jobs \in [Tx -> JobRow \cup {None}]
  <2>1. CASE Established = {}
    BY <2>1
  <2>2. CASE Established # {}
    <3>1. (CHOOSE e \in Established : TRUE) \in Exits
      BY <2>2
    <3> QED BY <3>1 DEF JobRow
  <2> QED BY <2>1, <2>2
<1>3. work \in [Workers -> Local]
  BY DEF Local, Idle, Steps, Workers
<1>4. installed \in Gateway!Coherent
  <2>1. CASE Established = {}
    BY <2>1 DEF Gateway!Coherent
  <2>2. CASE Established # {}
    <3>1. [e \in Established |-> [enabled |-> TRUE, clients |-> {}]] \in Groups
      BY DEF Groups, Route
    <3> QED BY <2>2, <3>1 DEF Gateway!Coherent, Gateway!Version
  <2> QED BY <2>1, <2>2
<1> QED BY <1>1, <1>2, <1>3, <1>4 DEF TypeOK, Idle, Workers

\* A topology says nothing but of exits.
LEMMA GroupsAre ==
    ASSUME NEW D \in SUBSET Exits, NEW g, g \in [D -> Route]
    PROVE  g \in Groups
BY DEF Groups

\* What a worker sends is a topology, without the client it deletes.
LEMMA DesiredIs ==
    ASSUME TypeOK, NEW w \in Workers, Desired(w)
    PROVE  \E groups \in Groups :
              /\ work' = [work EXCEPT ![w].step = "apply", ![w].groups = groups]
              /\ net' = net \cup {[kind |-> "apply-config", tx |-> work[w].tx, groups |-> groups]}
              /\ \A e \in Exits : e \in DOMAIN groups <=> exits[e].applied \/ e = work[w].exit
              /\ \A e \in DOMAIN groups : groups[e].clients = ClientsOf(w, e)
<1> DEFINE D == {f \in Exits : exits[f].applied \/ f = work[w].exit}
           groups == [e \in D |->
                         [enabled |-> e = work[w].exit \/ isp[e] # "changed",
                          clients |-> ClientsOf(w, e)]]
<1>1. groups \in [D -> Route]
  BY DEF ClientsOf, Route
<1>2. groups \in Groups
  BY <1>1, GroupsAre
<1> QED BY <1>2 DEF Desired

\* A row that is inserted, or the only one that runs, is a row.
LEMMA RowsAre ==
    ASSUME TypeOK
    PROVE  /\ \A e \in Exits, state \in {"QUEUED", "RUNNING"} : Insert(e, state) =>
                 \E t \in Tx : /\ jobs[t] = None
                               /\ jobs' = [jobs EXCEPT ![t] = [exit |-> e, state |-> state]]
                               /\ jobs' \in [Tx -> JobRow \cup {None}]
           /\ RecoverJobs => /\ jobs' \in [Tx -> JobRow \cup {None}]
                             /\ exits' \in [Exits -> ExitRow]
           /\ \A w \in Workers, state \in {"SUCCEEDED", "FAILED"} :
                 work[w].tx # None /\ jobs[work[w].tx] # None /\ Finish(w, state) =>
                     jobs' \in [Tx -> JobRow \cup {None}] /\ work' \in [Workers -> Local]
<1> USE DEF TypeOK
<1>1. ASSUME NEW e \in Exits, NEW state \in {"QUEUED", "RUNNING"}, Insert(e, state)
      PROVE  \E t \in Tx : /\ jobs[t] = None
                           /\ jobs' = [jobs EXCEPT ![t] = [exit |-> e, state |-> state]]
                           /\ jobs' \in [Tx -> JobRow \cup {None}]
  <2>1. PICK t \in Tx : jobs[t] = None /\ jobs' = [jobs EXCEPT ![t] = [exit |-> e, state |-> state]]
    BY <1>1 DEF Insert
  <2>2. [exit |-> e, state |-> state] \in JobRow
    BY DEF JobRow
  <2> QED BY <2>1, <2>2
<1>2. ASSUME RecoverJobs
      PROVE  jobs' \in [Tx -> JobRow \cup {None}] /\ exits' \in [Exits -> ExitRow]
  <2>1. CASE \E t \in Tx : Running(t)
    <3>1. PICK t \in Tx : /\ Running(t) /\ jobs' = [jobs EXCEPT ![t].state = "FAILED"]
                          /\ exits' = [exits EXCEPT ![jobs[t].exit].status = "UNKNOWN"]
      BY <1>2, <2>1 DEF RecoverJobs, Interrupted
    <3>2. jobs[t] \in JobRow
      BY <3>1 DEF Running
    <3>3. [jobs[t] EXCEPT !.state = "FAILED"] \in JobRow
      BY <3>2 DEF JobRow
    <3>4. \A e \in Exits : [exits[e] EXCEPT !.status = "UNKNOWN"] \in ExitRow
      BY DEF ExitRow, Statuses
    <3> QED BY <3>1, <3>3, <3>4
  <2> QED BY <1>2, <2>1 DEF RecoverJobs
<1>3. ASSUME NEW w \in Workers, NEW state \in {"SUCCEEDED", "FAILED"},
             work[w].tx # None, jobs[work[w].tx] # None, Finish(w, state)
      PROVE  jobs' \in [Tx -> JobRow \cup {None}] /\ work' \in [Workers -> Local]
  BY <1>3 DEF Finish, JobRow, Local, Idle, Steps
<1> QED BY <1>1, <1>2, <1>3

\* What a finished transaction says of the exits are rows.
LEMMA VerifiedIs ==
    ASSUME TypeOK, NEW groups \in Groups, NEW applied \in BOOLEAN
    PROVE  Verified(groups, applied) \in [Exits -> ExitRow]
<1>1. \A e \in DOMAIN groups : groups[e].enabled \in BOOLEAN
  BY DEF Groups, Route
<1> QED BY <1>1 DEF TypeOK, Verified, ExitRow, Statuses

\* Rows, workers, commands and answers keep their shapes, whatever fails.
LEMMA TypeStep == TypeOK /\ RowInv /\ [Next]_vars => TypeOK'
<1> SUFFICES ASSUME TypeOK, RowInv, [Next]_vars PROVE TypeOK'
  OBVIOUS
<1> USE SetsOK, NoneOK, RowsAre DEF TypeOK, dbVars, gatewayVars, healthVars, sideVars, Workers, Strike
<1>1. ASSUME NEW s \in Subs, NEW e \in Exits, Register(s, e) PROVE TypeOK'
  BY <1>1 DEF Register, SubRow
<1>2. ASSUME NEW s \in Subs, NEW e \in Exits, ConfirmChange(s, e) PROVE TypeOK'
  <2>1. subs[s] \in SubRow
    BY <1>2 DEF ConfirmChange
  <2>2. [subs[s] EXCEPT !.exit = e, !.state = "PENDING"] \in SubRow
    BY <2>1 DEF SubRow
  <2>3. subs' \in [Subs -> SubRow \cup {None}]
    BY <1>2, <2>2 DEF ConfirmChange
  <2>4. jobs' \in [Tx -> JobRow \cup {None}]
    BY <1>2 DEF ConfirmChange
  <2> QED BY <1>2, <2>3, <2>4 DEF ConfirmChange
<1>3. ASSUME NEW s \in Subs, Activate(s) PROVE TypeOK'
  <2>1. subs[s] \in SubRow
    BY <1>3 DEF Activate
  <2>2. \A state \in {"PENDING", "READY"} :
           [subs[s] EXCEPT !.client = TRUE, !.state = state] \in SubRow
    BY <2>1 DEF SubRow
  <2>3. subs' \in [Subs -> SubRow \cup {None}]
    BY <1>3, <2>1, <2>2 DEF Activate
  <2>4. jobs' \in [Tx -> JobRow \cup {None}]
    BY <1>3, <2>1 DEF Activate, SubRow
  <2> QED BY <1>3, <2>3, <2>4 DEF Activate
<1>4. ASSUME NEW s \in Subs, Rotate(s) PROVE TypeOK'
  BY <1>4 DEF Rotate, SubRow
<1>5. ASSUME NEW s \in Subs, DeleteLocally(s) PROVE TypeOK'
  BY <1>5 DEF DeleteLocally, Forget
<1>6. ASSUME NEW s \in Subs, BeginDelete(s) PROVE TypeOK'
  <2>1. subs[s] \in SubRow
    BY <1>6 DEF BeginDelete
  <2>2. PICK t \in Tx :
           work' = [work EXCEPT !["http"] =
              [Idle EXCEPT !.step = "desired", !.tx = t, !.exit = subs[s].exit, !.sub = s,
                           !.token = subs[s].token]]
    BY <1>6 DEF BeginDelete
  <2>3. [Idle EXCEPT !.step = "desired", !.tx = t, !.exit = subs[s].exit, !.sub = s,
                     !.token = subs[s].token] \in Local
    BY <2>1 DEF SubRow, Local, Idle, Steps
  <2>4. jobs' \in [Tx -> JobRow \cup {None}]
    BY <1>6, <2>1 DEF BeginDelete, SubRow
  <2> QED BY <1>6, <2>1, <2>2, <2>3, <2>4 DEF BeginDelete, SubRow, Idle
<1>7. ASSUME NEW e \in Exits, Enqueue(e) PROVE TypeOK'
  BY <1>7 DEF Enqueue
<1>8. ASSUME NEW e \in Exits, NEW result \in {"ok", "stale", "changed"}, IspChecked(e, result)
      PROVE  TypeOK'
  BY <1>8 DEF IspChecked
<1>9. CASE Take
  <2>1. PICK t \in Tx :
           /\ jobs[t] # None
           /\ jobs' = [jobs EXCEPT ![t].state = "RUNNING"]
           /\ exits' = [exits EXCEPT ![jobs[t].exit].status = "APPLYING"]
           /\ work' = [work EXCEPT !["lane"] =
                 [Idle EXCEPT !.step = "desired", !.tx = t, !.exit = jobs[t].exit]]
    BY <1>9 DEF Take
  <2>2. jobs[t].exit \in Exits /\ [jobs[t] EXCEPT !.state = "RUNNING"] \in JobRow
    BY <2>1 DEF JobRow
  <2>3. [exits[jobs[t].exit] EXCEPT !.status = "APPLYING"] \in ExitRow
    BY <2>2 DEF ExitRow, Statuses
  <2>4. [Idle EXCEPT !.step = "desired", !.tx = t, !.exit = jobs[t].exit] \in Local
    BY <2>2 DEF Local, Idle, Steps
  <2> QED BY <1>9, <2>1, <2>2, <2>3, <2>4 DEF Take, Idle
<1>10. CASE RecordSuccess
  <2> DEFINE groups == work["lane"].groups
  <2>1. groups \in Groups /\ work["lane"].tx # None /\ jobs[work["lane"].tx] # None
    BY <1>10 DEF RecordSuccess, RowInv, Local
  <2>2. jobs' \in [Tx -> JobRow \cup {None}] /\ work' \in [Workers -> Local]
    BY <1>10, <2>1 DEF RecordSuccess
  <2>3. exits' \in [Exits -> ExitRow]
    BY <1>10, <2>1, VerifiedIs DEF RecordSuccess
  <2>4. ASSUME NEW s \in Subs, NEW state \in {"PENDING", "READY"}, subs[s] # None
        PROVE  [subs[s] EXCEPT !.deployed = subs[s].exit, !.state = state] \in SubRow
    <3>1. subs[s] \in SubRow
      BY <2>4
    <3> QED BY <3>1 DEF SubRow
  <2>5. subs' \in [Subs -> SubRow \cup {None}] /\ \A s \in Subs : subs[s] = None => subs'[s] = None
    BY <1>10, <2>4 DEF RecordSuccess
  <2> QED BY <1>10, <2>2, <2>3, <2>5 DEF RecordSuccess, Finish, Idle
<1>11. CASE RecordFailure
  <2>1. work["lane"].tx # None /\ jobs[work["lane"].tx] # None /\ work["lane"].exit \in Exits
    BY <1>11 DEF RecordFailure, RowInv, Local
  <2>2. jobs' \in [Tx -> JobRow \cup {None}] /\ work' \in [Workers -> Local]
    BY <1>11, <2>1 DEF RecordFailure
  <2>3. exits' \in [Exits -> ExitRow]
    <3>1. \A status \in Statuses : [exits[work["lane"].exit] EXCEPT !.status = status] \in ExitRow
      BY <2>1 DEF ExitRow
    <3>2. \E status \in Statuses : exits' = [exits EXCEPT ![work["lane"].exit].status = status]
      BY <1>11 DEF RecordFailure, Statuses
    <3> QED BY <2>1, <3>1, <3>2
  <2>4. \A s \in Subs : subs[s] # None => [subs[s] EXCEPT !.state = "PENDING"] \in SubRow
    BY DEF SubRow
  <2>5. subs' \in [Subs -> SubRow \cup {None}] /\ \A s \in Subs : subs[s] = None => subs'[s] = None
    BY <1>11, <2>4 DEF RecordFailure
  <2> QED BY <1>11, <2>2, <2>3, <2>5 DEF RecordFailure, Finish, Idle
<1>12. CASE RecoverLane
  BY <1>12 DEF RecoverLane, Local, Idle, Steps
<1>13. CASE RecordDelete
  <2> DEFINE s == work["http"].sub
  <2>1. /\ work["http"].groups \in Groups /\ s \in Subs
        /\ work["http"].tx # None /\ jobs[work["http"].tx] # None
    BY <1>13 DEF RecordDelete, RowInv, Local
  <2>2. jobs' \in [Tx -> JobRow \cup {None}] /\ work' \in [Workers -> Local]
    BY <1>13, <2>1 DEF RecordDelete
  <2>3. exits' \in [Exits -> ExitRow]
    BY <1>13, <2>1, VerifiedIs DEF RecordDelete
  <2>4. subs' = [subs EXCEPT ![s] = None] /\ deleted' = [deleted EXCEPT ![s] = "revoked"]
    BY <1>13 DEF RecordDelete, Forget
  <2> QED BY <1>13, <2>1, <2>2, <2>3, <2>4 DEF RecordDelete, Finish, Idle
<1>14. CASE DeleteConflicts
  BY <1>14 DEF DeleteConflicts, Local, Steps
<1>15. CASE RecordDeleteFailure
  BY <1>15 DEF RecordDeleteFailure, Finish, Idle, RowInv
<1>16. ASSUME NEW w \in Workers, Desired(w) PROVE TypeOK'
  <2>1. PICK groups \in Groups :
           /\ work' = [work EXCEPT ![w].step = "apply", ![w].groups = groups]
           /\ net' = net \cup {[kind |-> "apply-config", tx |-> work[w].tx, groups |-> groups]}
    BY <1>16, DesiredIs
  <2>2. work[w].tx \in Tx /\ groups # None
    BY <1>16 DEF Desired, Local
  <2>3. [kind |-> "apply-config", tx |-> work[w].tx, groups |-> groups] \in Message
    BY <2>2 DEF Message
  <2>4. [work[w] EXCEPT !.step = "apply", !.groups = groups] \in Local
    <3>1. work[w] \in Local
      OBVIOUS
    <3> QED BY <3>1 DEF Local, Steps
  <2>5. work' \in [Workers -> Local] /\ \A v \in Workers : v # w => work'[v] = work[v]
    BY <2>1, <2>4
  <2>6. /\ work'[w].step = "apply" /\ work'[w].groups = groups /\ work'[w].tx = work[w].tx
        /\ work'[w].exit = work[w].exit /\ work'[w].sub = work[w].sub
    BY <2>1 DEF Local
  <2>7. \A v \in Workers :
           /\ work'[v].step \in {"idle", "recover"} <=> work'[v].tx = None
           /\ work'[v].tx # None => work'[v].exit # None /\ (v = "http" <=> work'[v].sub # None)
           /\ work'[v].step \in {"apply", "commit", "record"} <=> work'[v].groups # None
    BY <1>16, <2>2, <2>5, <2>6 DEF Desired
  <2> QED BY <1>16, <2>1, <2>2, <2>3, <2>5, <2>6, <2>7 DEF Desired
<1>17. ASSUME NEW w \in Workers, NotReady(w) PROVE TypeOK'
  BY <1>17 DEF NotReady, Local, Steps
<1>18. ASSUME NEW w \in Workers, ApplyAnswered(w) PROVE TypeOK'
  BY <1>18 DEF ApplyAnswered, Answer, Local, Steps, Message
<1>19. ASSUME NEW w \in Workers, CommitAnswered(w) PROVE TypeOK'
  BY <1>19 DEF CommitAnswered, Answer, Local, Steps
<1>20. ASSUME NEW w \in Workers, Refused(w) PROVE TypeOK'
  BY <1>20 DEF Refused, Answer, Local, Steps
<1>21. ASSUME NEW w \in Workers, GiveUp(w) PROVE TypeOK'
  BY <1>21 DEF GiveUp, Local, Steps
<1>22. ASSUME NEW m \in net, RemoteApplies(m) PROVE TypeOK'
  BY <1>22 DEF RemoteApplies, Request, Send, Reply, Message, Gateway!Propose, Gateway!Version
<1>23. ASSUME NEW m \in net, RemoteRefuses(m) PROVE TypeOK'
  BY <1>23 DEF RemoteRefuses, Request, Send, Reply, Message
<1>24. ASSUME NEW m \in net, RemoteGetsStuck(m) PROVE TypeOK'
  BY <1>24 DEF RemoteGetsStuck, Request, Send, Reply, Message, Gateway!Propose, Gateway!Version
<1>25. ASSUME NEW m \in net, RemoteCommits(m) PROVE TypeOK'
  BY <1>25
     DEF RemoteCommits, Request, Send, Reply, Message, Gateway!Accept, Gateway!Version,
         Gateway!Coherent
<1>26. ASSUME NEW m \in net, RemoteTooLate(m) PROVE TypeOK'
  BY <1>26 DEF RemoteTooLate, Request, Send, Reply, Message
<1>27. CASE RemoteAbandons
  BY <1>27 DEF RemoteAbandons, Gateway!Abandon
<1>28. CASE GuardRound
  BY <1>28 DEF GuardRound
<1>29. CASE CheckBegins
  BY <1>29 DEF CheckBegins
<1>30. CASE CheckRecords
  <2>1. ASSUME NEW good \in BOOLEAN, NEW fresh \in SUBSET DOMAIN check.rows, Judge(good, fresh)
        PROVE  exits' \in [Exits -> ExitRow]
    <3>1. \A e \in Exits : Healthy(e, good, fresh) \in BOOLEAN
      BY DEF Healthy
    <3> QED BY <2>1, <3>1 DEF Judge, ExitRow, Statuses
  <2>2. exits' \in [Exits -> ExitRow]
    BY <1>30, <2>1 DEF CheckRecords
  <2> QED BY <1>30, <2>2 DEF CheckRecords
<1>31. CASE TakeFails
  BY <1>31 DEF TakeFails, Local, Idle, Steps
<1>32. ASSUME NEW w \in Workers, RecordFails(w) PROVE TypeOK'
  BY <1>32 DEF RecordFails, Local, Steps
<1>33. ASSUME NEW w \in Workers, RecordFailureFails(w) PROVE TypeOK'
  BY <1>33 DEF RecordFailureFails, Local, Idle, Steps
<1>34. CASE Restart
  BY <1>34 DEF Restart, Local, Idle, Steps
<1>35. CASE UNCHANGED vars
  BY <1>35 DEF vars, dbVars, gatewayVars, healthVars, sideVars
<1> QED
  BY <1>1, <1>2, <1>3, <1>4, <1>5, <1>6, <1>7, <1>8, <1>9, <1>10, <1>11, <1>12, <1>13, <1>14,
     <1>15, <1>16, <1>17, <1>18, <1>19, <1>20, <1>21, <1>22, <1>23, <1>24, <1>25, <1>26,
     <1>27, <1>28, <1>29, <1>30, <1>31, <1>32, <1>33, <1>34, <1>35
     DEF Next, Requests, Lane, Http, Shared, Remote, Health, Failures

-----------------------------------------------------------------------------
(* Rows *)

\* A row that ends.
LEMMA RowEnds ==
    ASSUME TypeOK
    PROVE  \A t \in Tx, state \in {"RUNNING", "SUCCEEDED", "FAILED"} : jobs[t] # None =>
              LET row == [jobs[t] EXCEPT !.state = state]
              IN  row # None /\ row.state = state /\ row.exit = jobs[t].exit
<1> SUFFICES ASSUME NEW t \in Tx, NEW state \in {"RUNNING", "SUCCEEDED", "FAILED"}, jobs[t] # None
             PROVE  LET row == [jobs[t] EXCEPT !.state = state]
                    IN  row # None /\ row.state = state /\ row.exit = jobs[t].exit
  OBVIOUS
<1>1. jobs[t] \in JobRow
  BY DEF TypeOK
<1>2. [jobs[t] EXCEPT !.state = state] \in JobRow
  BY <1>1 DEF JobRow
<1> QED BY <1>1, <1>2, NoneOK DEF JobRow

\* When the job that runs ends, none runs.
LEMMA NoneRuns ==
    ASSUME TypeOK, RowInv, NEW t \in Tx, Running(t), NEW state \in {"SUCCEEDED", "FAILED"},
           jobs' = [jobs EXCEPT ![t].state = state]
    PROVE  \A u \in Tx : ~Running(u)'
<1>1. jobs'[t].state = state
  BY RowEnds DEF TypeOK
<1>2. \A u \in Tx : u # t => jobs'[u] = jobs[u]
  BY DEF TypeOK
<1> QED BY <1>1, <1>2 DEF RowInv, Active, Running

\* No row starts to run, unless a worker takes it.
LEMMA Queued ==
    ASSUME TypeOK, NEW e \in Exits, Insert(e, "QUEUED") PROVE \A t \in Tx : ~Running(t)'
<1>1. PICK t \in Tx : jobs' = [jobs EXCEPT ![t] = [exit |-> e, state |-> "QUEUED"]]
  BY DEF Insert
<1>2. \A u \in Tx : ~Running(u)
  BY DEF Insert, NoActiveJob, Active, Running
<1> QED BY <1>1, <1>2 DEF TypeOK, Running

\* recover() leaves no row running.
LEMMA Recovered == ASSUME TypeOK, RowInv, RecoverJobs PROVE \A t \in Tx : ~Running(t)'
<1>1. CASE \E t \in Tx : Running(t)
  <2>1. PICK t \in Tx : Running(t) /\ jobs' = [jobs EXCEPT ![t].state = "FAILED"]
    BY <1>1 DEF RecoverJobs, Interrupted
  <2> QED BY <2>1, NoneRuns
<1>2. CASE ~\E t \in Tx : Running(t)
  BY <1>2 DEF RecoverJobs, Running
<1> QED BY <1>1, <1>2

\* Where each step leaves the rows and the transactions of the workers, whatever fails.
LEMMA RowStep == TypeOK /\ RowInv /\ [Next]_vars => RowInv'
<1> SUFFICES ASSUME TypeOK, RowInv, [Next]_vars PROVE RowInv'
  OBVIOUS
<1> USE SetsOK, NoneOK DEF Workers
<1>a. ASSUME UNCHANGED jobs, \A w \in Workers : work'[w].tx \in {work[w].tx, None} PROVE RowInv'
  BY <1>a DEF RowInv, Active
<1>b. ASSUME NEW e \in Exits, NEW state \in {"QUEUED", "RUNNING"}, NEW x \in Tx, Insert(e, state),
             jobs[x] = None, jobs'[x] # None,
             \A w \in Workers : work'[w].tx \in {work[w].tx, None, x}
      PROVE  RowInv'
  <2>1. PICK t \in Tx : /\ jobs[t] = None
                        /\ jobs' = [jobs EXCEPT ![t] = [exit |-> e, state |-> state]]
                        /\ jobs' \in [Tx -> JobRow \cup {None}]
    BY <1>b, RowsAre
  <2>2. \A u \in Tx : ~Active(u)
    BY <1>b DEF Insert, NoActiveJob
  <2>3. t = x /\ \A u \in Tx : u # x => jobs'[u] = jobs[u]
    BY <1>b, <2>1 DEF TypeOK
  <2>4. \A u \in Tx : Active(u)' => u = x
    BY <2>2, <2>3 DEF Active
  <2>5. ASSUME NEW w \in Workers, work'[w].tx # None PROVE jobs'[work'[w].tx] # None
    BY <1>b, <2>3, <2>5 DEF TypeOK, Local, RowInv
  <2> QED BY <2>4, <2>5 DEF RowInv
<1>c. ASSUME NEW t \in Tx, NEW state \in {"RUNNING", "SUCCEEDED", "FAILED"}, jobs[t] # None,
             jobs' = [jobs EXCEPT ![t].state = state], Active(t) \/ state # "RUNNING",
             \A w \in Workers : work'[w].tx \in {work[w].tx, None, t}
      PROVE  RowInv'
  <2>1. \A u \in Tx : u # t => jobs'[u] = jobs[u]
    BY <1>c DEF TypeOK
  <2>2. jobs'[t] # None /\ jobs'[t].state = state
    BY <1>c, RowEnds DEF TypeOK
  <2>3. \A u \in Tx : Active(u)' => Active(u)
    BY <1>c, <2>1, <2>2 DEF Active
  <2>4. ASSUME NEW w \in Workers, work'[w].tx # None PROVE jobs'[work'[w].tx] # None
    BY <1>c, <2>1, <2>2, <2>4 DEF TypeOK, Local, RowInv
  <2> QED BY <2>3, <2>4 DEF RowInv
<1>d. ASSUME RecoverJobs, \A w \in Workers : work'[w].tx \in {work[w].tx, None} PROVE RowInv'
  <2>1. CASE \E t \in Tx : Running(t)
    <3>1. PICK t \in Tx : Running(t) /\ jobs' = [jobs EXCEPT ![t].state = "FAILED"]
      BY <1>d, <2>1 DEF RecoverJobs, Interrupted
    <3>2. jobs[t] # None
      BY <3>1 DEF Running
    <3> QED BY <1>c, <1>d, <3>1, <3>2
  <2>2. CASE ~\E t \in Tx : Running(t)
    BY <1>a, <1>d, <2>2 DEF RecoverJobs
  <2> QED BY <2>1, <2>2
<1>e. ASSUME NEW w \in Workers, NEW state \in {"SUCCEEDED", "FAILED"}, work[w].tx # None,
             Finish(w, state)
      PROVE  RowInv'
  <2>1. work[w].tx \in Tx /\ jobs[work[w].tx] # None
    BY <1>e DEF TypeOK, Local, RowInv
  <2>2. \A v \in Workers : work'[v].tx \in {work[v].tx, None}
    BY <1>e DEF Finish, Idle, TypeOK
  <2> QED BY <1>c, <1>e, <2>1, <2>2 DEF Finish
<1>f. ASSUME NEW e \in Exits, Insert(e, "QUEUED"), UNCHANGED work PROVE RowInv'
  <2>1. PICK x \in Tx : jobs[x] = None /\ jobs' = [jobs EXCEPT ![x] = [exit |-> e, state |-> "QUEUED"]]
    BY <1>f DEF Insert
  <2>2. jobs'[x] # None
    BY <2>1 DEF TypeOK, JobRow
  <2> QED BY <1>b, <1>f, <2>1, <2>2
<1>1. ASSUME NEW s \in Subs, NEW e \in Exits, ConfirmChange(s, e) PROVE RowInv'
  BY <1>1, <1>a, <1>f DEF ConfirmChange
<1>2. ASSUME NEW s \in Subs, Activate(s) PROVE RowInv'
  <2>1. subs[s].exit \in Exits
    BY <1>2 DEF Activate, TypeOK, SubRow
  <2> QED BY <1>2, <1>f, <2>1 DEF Activate
<1>3. ASSUME NEW e \in Exits, Enqueue(e) PROVE RowInv'
  BY <1>3, <1>f DEF Enqueue
<1>4. ASSUME NEW s \in Subs, BeginDelete(s) PROVE RowInv'
  <2>1. subs[s].exit \in Exits
    BY <1>4 DEF BeginDelete, TypeOK, SubRow
  <2>2. PICK t \in Tx :
           /\ jobs[t] = None /\ jobs'[t] # None
           /\ work' = [work EXCEPT !["http"] =
                 [Idle EXCEPT !.step = "desired", !.tx = t, !.exit = subs[s].exit, !.sub = s,
                              !.token = subs[s].token]]
    BY <1>4 DEF BeginDelete
  <2>3. \A w \in Workers : work'[w].tx \in {work[w].tx, None, t}
    BY <2>2 DEF Idle, TypeOK
  <2> QED BY <1>4, <1>b, <2>1, <2>2, <2>3 DEF BeginDelete
<1>5. CASE Take
  <2>1. PICK t \in Tx :
           /\ jobs[t] # None /\ jobs[t].state = "QUEUED"
           /\ jobs' = [jobs EXCEPT ![t].state = "RUNNING"]
           /\ work' = [work EXCEPT !["lane"] =
                 [Idle EXCEPT !.step = "desired", !.tx = t, !.exit = jobs[t].exit]]
    BY <1>5 DEF Take
  <2>2. \A w \in Workers : work'[w].tx \in {work[w].tx, None, t}
    BY <2>1 DEF Idle, TypeOK
  <2>3. Active(t)
    BY <2>1 DEF Active
  <2> QED BY <1>c, <2>1, <2>2, <2>3
<1>6. CASE RecordSuccess \/ RecordFailure \/ RecordDelete \/ RecordDeleteFailure
  <2>1. CASE RecordSuccess \/ RecordFailure
    <3>1. work["lane"].tx # None
      BY <2>1 DEF RecordSuccess, RecordFailure, TypeOK
    <3> QED BY <1>e, <2>1, <3>1 DEF RecordSuccess, RecordFailure
  <2>2. CASE RecordDelete \/ RecordDeleteFailure
    <3>1. work["http"].tx # None
      BY <2>2 DEF RecordDelete, RecordDeleteFailure, TypeOK
    <3> QED BY <1>e, <2>2, <3>1 DEF RecordDelete, RecordDeleteFailure
  <2> QED BY <1>6, <2>1, <2>2
<1>7. CASE RecoverLane \/ Restart
  BY <1>7, <1>d DEF RecoverLane, Restart, Idle, TypeOK
<1>8. ASSUME NEW w \in Workers, Shared(w) \/ RecordFails(w) \/ RecordFailureFails(w) PROVE RowInv'
  <2>1. UNCHANGED jobs
    BY <1>8 DEF Shared, Desired, NotReady, ApplyAnswered, CommitAnswered, Refused, GiveUp,
                RecordFails, RecordFailureFails, dbVars
  <2>2. \A v \in Workers : work'[v].tx \in {work[v].tx, None}
    <3>1. CASE Desired(w)
      BY <3>1, DesiredIs DEF TypeOK, Local
    <3>2. CASE NotReady(w) \/ ApplyAnswered(w) \/ CommitAnswered(w)
      BY <3>2 DEF NotReady, ApplyAnswered, CommitAnswered, TypeOK, Local
    <3>3. CASE Refused(w) \/ GiveUp(w) \/ RecordFails(w)
      BY <3>3 DEF Refused, GiveUp, RecordFails, TypeOK, Local
    <3>4. CASE RecordFailureFails(w)
      BY <3>4 DEF RecordFailureFails, Idle, TypeOK
    <3> QED BY <1>8, <3>1, <3>2, <3>3, <3>4 DEF Shared
  <2> QED BY <1>a, <2>1, <2>2
<1>9. CASE TakeFails \/ DeleteConflicts
  <2>1. UNCHANGED jobs /\ \A v \in Workers : work'[v].tx = work[v].tx
    BY <1>9 DEF TakeFails, DeleteConflicts, dbVars, TypeOK, Local
  <2> QED BY <1>a, <2>1
<1>10. CASE (\E s \in Subs, e \in Exits : Register(s, e)) \/ (\E s \in Subs : Rotate(s) \/ DeleteLocally(s))
            \/ (\E e \in Exits, result \in {"ok", "stale", "changed"} : IspChecked(e, result))
            \/ Remote \/ Health \/ UNCHANGED vars
  <2>1. UNCHANGED <<jobs, work>>
    BY <1>10
       DEF Register, Rotate, DeleteLocally, IspChecked, Remote, RemoteApplies, RemoteRefuses,
           RemoteGetsStuck, RemoteCommits, RemoteTooLate, RemoteAbandons, GuardRound, Health,
           CheckBegins, CheckRecords, dbVars, vars
  <2> QED BY <1>a, <2>1
<1> QED
  BY <1>1, <1>2, <1>3, <1>4, <1>5, <1>6, <1>7, <1>8, <1>9, <1>10
     DEF Next, Requests, Lane, Http, Failures

\* Whatever fails.
LEMMA RowAlways == Spec => [](TypeOK /\ RowInv)
<1>1. Init => TypeOK /\ RowInv
  BY TypeInit DEF Init, RowInv, Active, Idle, Workers
<1> QED BY <1>1, TypeStep, RowStep, PTL DEF Spec

\* A worker that runs its job has its row.
LEMMA JobsHaveRows == JobInv => RowInv
BY DEF JobInv, RowInv, Running

-----------------------------------------------------------------------------
(* Jobs and their workers *)

\* Nobody works, and the jobs of the exits that are applied have ended.
LEMMA JobInit == Init => JobInv
BY DEF Init, JobInv, Active, Running, Idle, Workers

\* Without an active job nobody works, and nothing is left to clean up.
LEMMA NobodyWorks ==
    ASSUME TypeOK, JobInv, NoActiveJob
    PROVE  work["lane"].step # "recover" /\ \A w \in Workers : work[w].tx = None
BY DEF TypeOK, JobInv, NoActiveJob, Active, Running, Local, Workers

\* A row added when there is no active one.
LEMMA JobAdded ==
    ASSUME TypeOK, JobInv, NEW e \in Exits, NEW state \in {"QUEUED", "RUNNING"}, Insert(e, state)
    PROVE  /\ NoActiveJob
           /\ \A t, u \in Tx : Active(t)' /\ Active(u)' => t = u
           /\ \A t \in Tx : jobs[t] = None /\ jobs'[t] # None =>
                 jobs'[t].exit = e /\ jobs'[t].state = state
<1>1. PICK x \in Tx : jobs[x] = None /\ jobs' = [jobs EXCEPT ![x] = [exit |-> e, state |-> state]]
  BY DEF Insert
<1>2. NoActiveJob
  BY DEF Insert
<1> QED BY <1>1, <1>2 DEF TypeOK, NoActiveJob, Active

\* The index on the active jobs keeps a second worker out: a worker ends its own row only, and
\* the lane cleans up what it left itself.
LEMMA JobStep ==
    ASSUME TakesSucceed PROVE TypeOK /\ JobInv /\ [Next]_vars => JobInv'
<1> SUFFICES ASSUME TypeOK, JobInv, [Next]_vars PROVE JobInv'
  OBVIOUS
<1> USE SetsOK, NoneOK DEF TypeOK, JobInv, dbVars, gatewayVars, healthVars, sideVars, Workers, Active, Running
<1>1. ASSUME NEW s \in Subs, NEW e \in Exits, Register(s, e) PROVE JobInv'
  BY <1>1 DEF Register
<1>2. ASSUME NEW s \in Subs, NEW e \in Exits, ConfirmChange(s, e) PROVE JobInv'
  <2>1. NoActiveJob /\ work' = work
    BY <1>2 DEF ConfirmChange
  <2>2. \A t, u \in Tx : Active(t)' /\ Active(u)' => t = u
    BY <1>2, JobAdded DEF ConfirmChange
  <2> QED BY <2>1, <2>2, NobodyWorks DEF Active
<1>3. ASSUME NEW s \in Subs, Activate(s) PROVE JobInv'
  <2>1. subs[s].exit \in Exits /\ work' = work
    BY <1>3 DEF Activate, SubRow
  <2>2. NoActiveJob /\ \A t, u \in Tx : Active(t)' /\ Active(u)' => t = u
    BY <1>3, <2>1, JobAdded DEF Activate
  <2> QED BY <2>1, <2>2, NobodyWorks DEF Active
<1>4. ASSUME NEW s \in Subs, Rotate(s) PROVE JobInv'
  BY <1>4 DEF Rotate
<1>5. ASSUME NEW s \in Subs, DeleteLocally(s) PROVE JobInv'
  BY <1>5 DEF DeleteLocally
<1>6. ASSUME NEW s \in Subs, BeginDelete(s) PROVE JobInv'
  <2>1. subs[s].exit \in Exits
    BY <1>6 DEF BeginDelete, SubRow
  <2>2. NoActiveJob /\ \A t, u \in Tx : Active(t)' /\ Active(u)' => t = u
    BY <1>6, <2>1, JobAdded DEF BeginDelete
  <2>3. PICK t \in Tx :
           /\ jobs[t] = None /\ jobs'[t] # None
           /\ work' = [work EXCEPT !["http"] =
                 [Idle EXCEPT !.step = "desired", !.tx = t, !.exit = subs[s].exit, !.sub = s,
                              !.token = subs[s].token]]
    BY <1>6 DEF BeginDelete
  <2>4. jobs'[t].exit = subs[s].exit /\ jobs'[t].state = "RUNNING"
    BY <1>6, <2>1, <2>3, JobAdded DEF BeginDelete
  <2>5. work["lane"].step # "recover" /\ work["lane"].tx = None
    BY <2>2, NobodyWorks
  <2>6. work'["lane"] = work["lane"]
    BY <2>3
  <2>7. work'["http"].tx = t /\ work'["http"].exit = subs[s].exit
    BY <2>3 DEF Idle
  <2>8. jobs'[t] # None /\ t \in Tx
    BY <2>3
  <2> QED BY <2>2, <2>4, <2>5, <2>6, <2>7, <2>8
<1>7. ASSUME NEW e \in Exits, Enqueue(e) PROVE JobInv'
  <2>1. NoActiveJob /\ \A t, u \in Tx : Active(t)' /\ Active(u)' => t = u
    BY <1>7, JobAdded DEF Enqueue
  <2> QED BY <1>7, <2>1, NobodyWorks DEF Enqueue, Active
<1>8. ASSUME NEW e \in Exits, NEW result \in {"ok", "stale", "changed"}, IspChecked(e, result)
      PROVE  JobInv'
  BY <1>8 DEF IspChecked
<1>9. CASE Take
  <2>1. PICK t \in Tx :
           /\ jobs[t] # None /\ jobs[t].state = "QUEUED"
           /\ jobs' = [jobs EXCEPT ![t].state = "RUNNING"]
           /\ work' = [work EXCEPT !["lane"] =
                 [Idle EXCEPT !.step = "desired", !.tx = t, !.exit = jobs[t].exit]]
    BY <1>9 DEF Take
  <2>2. jobs[t] \in JobRow
    BY <2>1
  <2>3. \A u \in Tx : Active(u) => u = t
    BY <2>1
  <2>4. work["http"].tx = None
    BY <2>1, <2>3 DEF Local
  <2>5. \A u \in Tx : Active(u)' => u = t
    BY <2>1, <2>3
  <2>6. work'["http"].tx = None
    BY <2>1, <2>4
  <2>7. /\ work'["lane"].tx = t /\ work'["lane"].exit = jobs[t].exit
        /\ work'["lane"].step = "desired"
    BY <2>1 DEF Idle
  <2>8. jobs'[t].exit = jobs[t].exit /\ jobs'[t].state = "RUNNING" /\ jobs'[t] # None
    <3>1. jobs'[t] = [jobs[t] EXCEPT !.state = "RUNNING"]
      BY <2>1
    <3>2. [jobs[t] EXCEPT !.state = "RUNNING"] \in JobRow
      BY <2>2 DEF JobRow
    <3> QED BY <2>2, <3>1, <3>2 DEF JobRow
  <2> QED BY <2>5, <2>6, <2>7, <2>8
<1>10. CASE RecordSuccess
  BY <1>10 DEF RecordSuccess, Finish, Idle
<1>11. CASE RecordFailure
  BY <1>11 DEF RecordFailure, Finish, Idle
<1>12. CASE RecoverLane
  <2>1. \A t, u \in Tx : Active(t)' /\ Active(u)' => t = u
    <3>1. CASE \E t \in Tx : Running(t)
      <4>1. PICK x \in Tx : jobs' = [jobs EXCEPT ![x].state = "FAILED"]
        BY <1>12, <3>1 DEF RecoverLane, RecoverJobs, Interrupted
      <4> QED BY <4>1 DEF JobRow
    <3>2. CASE ~\E t \in Tx : Running(t)
      BY <1>12, <3>2 DEF RecoverLane, RecoverJobs
    <3> QED BY <3>1, <3>2
  <2>2. work'["http"] = work["http"] /\ work'["lane"] = Idle /\ work["http"].tx = None
    BY <1>12 DEF RecoverLane
  <2> QED BY <2>1, <2>2 DEF Idle
<1>13. CASE RecordDelete
  BY <1>13 DEF RecordDelete, Finish, Idle
<1>14. CASE DeleteConflicts
  BY <1>14 DEF DeleteConflicts
<1>15. CASE RecordDeleteFailure
  BY <1>15 DEF RecordDeleteFailure, Finish, Idle
<1>16. ASSUME NEW w \in Workers, Desired(w) PROVE JobInv'
  BY <1>16 DEF Desired
<1>17. ASSUME NEW w \in Workers, NotReady(w) PROVE JobInv'
  BY <1>17 DEF NotReady
<1>18. ASSUME NEW w \in Workers, ApplyAnswered(w) PROVE JobInv'
  BY <1>18 DEF ApplyAnswered
<1>19. ASSUME NEW w \in Workers, CommitAnswered(w) PROVE JobInv'
  BY <1>19 DEF CommitAnswered
<1>20. ASSUME NEW w \in Workers, Refused(w) PROVE JobInv'
  BY <1>20 DEF Refused
<1>21. ASSUME NEW w \in Workers, GiveUp(w) PROVE JobInv'
  BY <1>21 DEF GiveUp
<1>22. ASSUME NEW m \in net, RemoteApplies(m) PROVE JobInv'
  BY <1>22 DEF RemoteApplies
<1>23. ASSUME NEW m \in net, RemoteRefuses(m) PROVE JobInv'
  BY <1>23 DEF RemoteRefuses
<1>24. ASSUME NEW m \in net, RemoteGetsStuck(m) PROVE JobInv'
  BY <1>24 DEF RemoteGetsStuck
<1>25. ASSUME NEW m \in net, RemoteCommits(m) PROVE JobInv'
  BY <1>25 DEF RemoteCommits
<1>26. ASSUME NEW m \in net, RemoteTooLate(m) PROVE JobInv'
  BY <1>26 DEF RemoteTooLate
<1>27. CASE RemoteAbandons
  BY <1>27 DEF RemoteAbandons
<1>28. CASE GuardRound
  BY <1>28 DEF GuardRound
<1>29. CASE CheckBegins
  BY <1>29 DEF CheckBegins
<1>30. CASE CheckRecords
  BY <1>30 DEF CheckRecords
<1>31. CASE TakeFails
  BY <1>31 DEF TakeFails, TakesSucceed
<1>32. ASSUME NEW w \in Workers, RecordFails(w) PROVE JobInv'
  BY <1>32 DEF RecordFails
<1>33. ASSUME NEW w \in Workers, RecordFailureFails(w) PROVE JobInv'
  <2>1. work[w].tx # None /\ jobs' = jobs
    BY <1>33 DEF RecordFailureFails
  <2>2. CASE w = "lane"
    <3>1. work' = [work EXCEPT !["lane"] = [Idle EXCEPT !.step = "recover"]]
      BY <1>33, <2>2 DEF RecordFailureFails
    <3>2. work'["lane"].tx = None /\ work'["http"] = work["http"]
      BY <3>1 DEF Idle
    <3>3. work["http"].tx = None /\ Running(work["lane"].tx) /\ work["lane"].tx \in Tx
      BY <2>1, <2>2 DEF Local
    <3> QED BY <2>1, <3>2, <3>3
  <2>3. CASE w = "http"
    <3>1. work'["http"].tx = None /\ work'["lane"] = work["lane"]
      BY <1>33, <2>3 DEF RecordFailureFails, Idle
    <3> QED BY <2>1, <3>1
  <2> QED BY <2>2, <2>3
<1>34. CASE Restart
  <2>1. \A t, u \in Tx : Active(t)' /\ Active(u)' => t = u
    <3>1. CASE \E t \in Tx : Running(t)
      <4>1. PICK x \in Tx : jobs' = [jobs EXCEPT ![x].state = "FAILED"]
        BY <1>34, <3>1 DEF Restart, RecoverJobs, Interrupted
      <4> QED BY <4>1 DEF JobRow
    <3>2. CASE ~\E t \in Tx : Running(t)
      BY <1>34, <3>2 DEF Restart, RecoverJobs
    <3> QED BY <3>1, <3>2
  <2>2. work' = [w \in Workers |-> Idle]
    BY <1>34 DEF Restart
  <2> QED BY <2>1, <2>2 DEF Idle
<1>35. CASE UNCHANGED vars
  BY <1>35 DEF vars, dbVars, gatewayVars, healthVars, sideVars
<1> QED
  BY <1>1, <1>2, <1>3, <1>4, <1>5, <1>6, <1>7, <1>8, <1>9, <1>10, <1>11, <1>12, <1>13, <1>14,
     <1>15, <1>16, <1>17, <1>18, <1>19, <1>20, <1>21, <1>22, <1>23, <1>24, <1>25, <1>26,
     <1>27, <1>28, <1>29, <1>30, <1>31, <1>32, <1>33, <1>34, <1>35
     DEF Next, Requests, Lane, Http, Shared, Remote, Health, Failures

-----------------------------------------------------------------------------
(* Commands and answers *)

\* No two workers have a job.
LEMMA OnlyOne ==
    ASSUME JobInv, NEW v \in Workers, NEW w \in Workers, work[v].tx # None, work[w].tx # None
    PROVE  v = w
BY DEF JobInv, Workers

\* A job whose worker has begun is never queued again.
LEMMA BegunStays == TypeOK /\ JobInv /\ [Next]_vars => \A t \in Tx : Begun(t) => Begun(t)'
<1> SUFFICES ASSUME TypeOK, JobInv, [Next]_vars, NEW x \in Tx, Begun(x) PROVE Begun(x)'
  OBVIOUS
<1> USE RowEnds DEF TypeOK, Begun, dbVars, gatewayVars, healthVars, sideVars, Workers
<1>1. ASSUME NEW s \in Subs, NEW e \in Exits, Register(s, e) PROVE Begun(x)'
  BY <1>1 DEF Register
<1>2. ASSUME NEW s \in Subs, NEW e \in Exits, ConfirmChange(s, e) PROVE Begun(x)'
  BY <1>2 DEF ConfirmChange, Insert
<1>3. ASSUME NEW s \in Subs, Activate(s) PROVE Begun(x)'
  BY <1>3 DEF Activate, Insert
<1>4. ASSUME NEW s \in Subs, Rotate(s) PROVE Begun(x)'
  BY <1>4 DEF Rotate
<1>5. ASSUME NEW s \in Subs, DeleteLocally(s) PROVE Begun(x)'
  BY <1>5 DEF DeleteLocally
<1>6. ASSUME NEW s \in Subs, BeginDelete(s) PROVE Begun(x)'
  BY <1>6 DEF BeginDelete, Insert
<1>7. ASSUME NEW e \in Exits, Enqueue(e) PROVE Begun(x)'
  BY <1>7 DEF Enqueue, Insert
<1>8. ASSUME NEW e \in Exits, NEW result \in {"ok", "stale", "changed"}, IspChecked(e, result)
      PROVE  Begun(x)'
  BY <1>8 DEF IspChecked
<1>9. CASE Take
  BY <1>9 DEF Take, JobRow
<1>10. CASE RecordSuccess
  <2>1. PICK t \in Tx, state \in {"SUCCEEDED", "FAILED"} :
           jobs[t] # None /\ jobs' = [jobs EXCEPT ![t].state = state]
    BY <1>10 DEF RecordSuccess, Finish, JobInv, Running, Local
  <2> QED BY <2>1
<1>11. CASE RecordFailure
  <2>1. PICK t \in Tx, state \in {"SUCCEEDED", "FAILED"} :
           jobs[t] # None /\ jobs' = [jobs EXCEPT ![t].state = state]
    BY <1>11 DEF RecordFailure, Finish, JobInv, Running, Local
  <2> QED BY <2>1
<1>12. CASE RecoverLane
  <2>1. CASE \E t \in Tx : Running(t)
    <3>1. PICK t \in Tx : jobs[t] # None /\ jobs' = [jobs EXCEPT ![t].state = "FAILED"]
      BY <1>12, <2>1 DEF RecoverLane, RecoverJobs, Interrupted, Running
    <3> QED BY <3>1
  <2>2. CASE ~\E t \in Tx : Running(t)
    BY <1>12, <2>2 DEF RecoverLane, RecoverJobs
  <2> QED BY <2>1, <2>2
<1>13. CASE RecordDelete
  <2>1. PICK t \in Tx, state \in {"SUCCEEDED", "FAILED"} :
           jobs[t] # None /\ jobs' = [jobs EXCEPT ![t].state = state]
    BY <1>13 DEF RecordDelete, Finish, JobInv, Running, Local
  <2> QED BY <2>1
<1>14. CASE DeleteConflicts
  BY <1>14 DEF DeleteConflicts
<1>15. CASE RecordDeleteFailure
  <2>1. PICK t \in Tx, state \in {"SUCCEEDED", "FAILED"} :
           jobs[t] # None /\ jobs' = [jobs EXCEPT ![t].state = state]
    BY <1>15 DEF RecordDeleteFailure, Finish, JobInv, Running, Local
  <2> QED BY <2>1
<1>16. ASSUME NEW w \in Workers, Desired(w) PROVE Begun(x)'
  BY <1>16 DEF Desired
<1>17. ASSUME NEW w \in Workers, NotReady(w) PROVE Begun(x)'
  BY <1>17 DEF NotReady
<1>18. ASSUME NEW w \in Workers, ApplyAnswered(w) PROVE Begun(x)'
  BY <1>18 DEF ApplyAnswered
<1>19. ASSUME NEW w \in Workers, CommitAnswered(w) PROVE Begun(x)'
  BY <1>19 DEF CommitAnswered
<1>20. ASSUME NEW w \in Workers, Refused(w) PROVE Begun(x)'
  BY <1>20 DEF Refused
<1>21. ASSUME NEW w \in Workers, GiveUp(w) PROVE Begun(x)'
  BY <1>21 DEF GiveUp
<1>22. ASSUME NEW m \in net, RemoteApplies(m) PROVE Begun(x)'
  BY <1>22 DEF RemoteApplies
<1>23. ASSUME NEW m \in net, RemoteRefuses(m) PROVE Begun(x)'
  BY <1>23 DEF RemoteRefuses
<1>24. ASSUME NEW m \in net, RemoteGetsStuck(m) PROVE Begun(x)'
  BY <1>24 DEF RemoteGetsStuck
<1>25. ASSUME NEW m \in net, RemoteCommits(m) PROVE Begun(x)'
  BY <1>25 DEF RemoteCommits
<1>26. ASSUME NEW m \in net, RemoteTooLate(m) PROVE Begun(x)'
  BY <1>26 DEF RemoteTooLate
<1>27. CASE RemoteAbandons
  BY <1>27 DEF RemoteAbandons
<1>28. CASE GuardRound
  BY <1>28 DEF GuardRound
<1>29. CASE CheckBegins
  BY <1>29 DEF CheckBegins
<1>30. CASE CheckRecords
  BY <1>30 DEF CheckRecords
<1>31. CASE TakeFails
  BY <1>31 DEF TakeFails
<1>32. ASSUME NEW w \in Workers, RecordFails(w) PROVE Begun(x)'
  BY <1>32 DEF RecordFails
<1>33. ASSUME NEW w \in Workers, RecordFailureFails(w) PROVE Begun(x)'
  BY <1>33 DEF RecordFailureFails
<1>34. CASE Restart
  <2>1. CASE \E t \in Tx : Running(t)
    <3>1. PICK t \in Tx : jobs[t] # None /\ jobs' = [jobs EXCEPT ![t].state = "FAILED"]
      BY <1>34, <2>1 DEF Restart, RecoverJobs, Interrupted, Running
    <3> QED BY <3>1
  <2>2. CASE ~\E t \in Tx : Running(t)
    BY <1>34, <2>2 DEF Restart, RecoverJobs
  <2> QED BY <2>1, <2>2
<1>35. CASE UNCHANGED vars
  BY <1>35 DEF vars, dbVars, gatewayVars, healthVars, sideVars
<1> QED
  BY <1>1, <1>2, <1>3, <1>4, <1>5, <1>6, <1>7, <1>8, <1>9, <1>10, <1>11, <1>12, <1>13, <1>14,
     <1>15, <1>16, <1>17, <1>18, <1>19, <1>20, <1>21, <1>22, <1>23, <1>24, <1>25, <1>26,
     <1>27, <1>28, <1>29, <1>30, <1>31, <1>32, <1>33, <1>34, <1>35
     DEF Next, Requests, Lane, Http, Shared, Remote, Health, Failures

\* The gateway starts without any.
LEMMA NetInit == Init => NetInv
BY DEF Init, NetInv

\* A worker that leaves its job, when no answer to it is under way.
LEMMA NetLeft ==
    ASSUME TypeOK, JobInv, NetInv, NEW w \in Workers, NEW local,
           work' = [work EXCEPT ![w] = local], local.tx = None,
           work[w].step \notin {"apply", "commit"},
           net' = net, mail' = mail, \A t \in Tx : Begun(t) => Begun(t)'
    PROVE  NetInv'
<1>1. \A v \in Workers : work'[v].tx # None => v # w /\ work'[v] = work[v]
  BY DEF TypeOK
<1>2. \A m \in net : m.tx \in Tx
  BY DEF TypeOK, Message
<1>3. \A a \in mail : a.tx \in Tx /\ a.tx # None
  BY SetsOK DEF TypeOK, Reply
<1>4. \A t \in Tx, step \in {"apply", "commit"} : Waits(t, step) => Waits(t, step)'
  BY DEF TypeOK, Waits
<1>5. \A m \in net : m.tx # None
  BY <1>2, SetsOK
<1> QED BY <1>1, <1>2, <1>3, <1>4, <1>5 DEF NetInv

\* A worker has one command or answer under way at most, and leaves what it gave up to the
\* gateway, which answers only who still waits.
LEMMA NetStep == TypeOK /\ JobInv /\ NetInv /\ [Next]_vars => NetInv'
<1> SUFFICES ASSUME TypeOK, JobInv, NetInv, [Next]_vars PROVE NetInv'
  OBVIOUS
<1> USE BegunStays, OnlyOne
        DEF TypeOK, NetInv, Waits, Message, Reply, Local, dbVars, gatewayVars, healthVars, sideVars
<1>1. ASSUME NEW s \in Subs, NEW e \in Exits, Register(s, e) PROVE NetInv'
  BY <1>1 DEF Register
<1>2. ASSUME NEW s \in Subs, NEW e \in Exits, ConfirmChange(s, e) PROVE NetInv'
  BY <1>2 DEF ConfirmChange
<1>3. ASSUME NEW s \in Subs, Activate(s) PROVE NetInv'
  BY <1>3 DEF Activate
<1>4. ASSUME NEW s \in Subs, Rotate(s) PROVE NetInv'
  BY <1>4 DEF Rotate
<1>5. ASSUME NEW s \in Subs, DeleteLocally(s) PROVE NetInv'
  BY <1>5 DEF DeleteLocally
<1>6. ASSUME NEW s \in Subs, BeginDelete(s) PROVE NetInv'
  <2>1. PICK t \in Tx :
           /\ jobs[t] = None
           /\ work' = [work EXCEPT !["http"] =
                 [Idle EXCEPT !.step = "desired", !.tx = t, !.exit = subs[s].exit, !.sub = s,
                              !.token = subs[s].token]]
    BY <1>6 DEF BeginDelete
  <2>2. work'["http"].tx = t /\ work'["lane"] = work["lane"]
    BY <2>1 DEF Idle, Workers
  <2>3. work["http"] = Idle /\ net' = net /\ mail' = mail
    BY <1>6 DEF BeginDelete
  <2>4. \A m \in net : m.tx # t
    BY <2>1 DEF Begun
  <2> QED BY <2>2, <2>3, <2>4 DEF Workers, Idle
<1>7. ASSUME NEW e \in Exits, Enqueue(e) PROVE NetInv'
  BY <1>7 DEF Enqueue
<1>8. ASSUME NEW e \in Exits, NEW result \in {"ok", "stale", "changed"}, IspChecked(e, result)
      PROVE  NetInv'
  BY <1>8 DEF IspChecked
<1>9. CASE Take
  <2>1. PICK t \in Tx :
           /\ jobs[t] # None /\ jobs[t].state = "QUEUED"
           /\ work' = [work EXCEPT !["lane"] =
                 [Idle EXCEPT !.step = "desired", !.tx = t, !.exit = jobs[t].exit]]
    BY <1>9 DEF Take
  <2>2. work'["lane"].tx = t /\ work'["http"] = work["http"]
    BY <2>1 DEF Idle, Workers
  <2>3. work["lane"] = Idle /\ net' = net /\ mail' = mail
    BY <1>9 DEF Take
  <2>4. \A m \in net : m.tx # t
    BY <2>1 DEF Begun
  <2> QED BY <2>2, <2>3, <2>4 DEF Workers, Idle
<1>10. CASE RecordSuccess
  <2>1. work' = [work EXCEPT !["lane"] = Idle] /\ net' = net /\ mail' = mail
    BY <1>10 DEF RecordSuccess, Finish
  <2>2. work["lane"].step \notin {"apply", "commit"}
    BY <1>10 DEF RecordSuccess, Idle
  <2> QED BY <2>1, <2>2, NetLeft DEF Idle, Workers
<1>11. CASE RecordFailure
  <2>1. work' = [work EXCEPT !["lane"] = Idle] /\ net' = net /\ mail' = mail
    BY <1>11 DEF RecordFailure, Finish
  <2>2. work["lane"].step \notin {"apply", "commit"}
    BY <1>11 DEF RecordFailure, Idle
  <2> QED BY <2>1, <2>2, NetLeft DEF Idle, Workers
<1>12. CASE RecoverLane
  BY <1>12 DEF RecoverLane, Idle
<1>13. CASE RecordDelete
  <2>1. work' = [work EXCEPT !["http"] = Idle] /\ net' = net /\ mail' = mail
    BY <1>13 DEF RecordDelete, Finish
  <2>2. work["http"].step \notin {"apply", "commit"}
    BY <1>13 DEF RecordDelete, Idle
  <2> QED BY <2>1, <2>2, NetLeft DEF Idle, Workers
<1>14. CASE DeleteConflicts
  BY <1>14 DEF DeleteConflicts
<1>15. CASE RecordDeleteFailure
  <2>1. work' = [work EXCEPT !["http"] = Idle] /\ net' = net /\ mail' = mail
    BY <1>15 DEF RecordDeleteFailure, Finish
  <2>2. work["http"].step \notin {"apply", "commit"}
    BY <1>15 DEF RecordDeleteFailure, Idle
  <2> QED BY <2>1, <2>2, NetLeft DEF Idle, Workers
<1>16. ASSUME NEW w \in Workers, Desired(w) PROVE NetInv'
  <2>1. PICK groups \in Groups :
           /\ work' = [work EXCEPT ![w].step = "apply", ![w].groups = groups]
           /\ net' = net \cup {[kind |-> "apply-config", tx |-> work[w].tx, groups |-> groups]}
    BY <1>16, DesiredIs
  <2>2. work[w].step = "desired" /\ mail' = mail /\ work[w].tx \in Tx /\ work[w].tx # None
    BY <1>16 DEF Desired
  <2>3. /\ work'[w].step = "apply" /\ work'[w].groups = groups /\ work'[w].tx = work[w].tx
        /\ \A v \in Workers : v # w => work'[v] = work[v]
    BY <2>1
  <2>4. \A m \in net : m.tx # work[w].tx
    BY <2>2
  <2>5. \A a \in mail : a.tx # work[w].tx
    BY <2>2, OnlyOne
  <2>6. Begun(work[w].tx)
    BY <2>2 DEF JobInv, Running, Begun
  <2>7. \A v \in Workers : v # w => work[v].tx # work[w].tx
    BY <2>2, OnlyOne
  <2> DEFINE new == [kind |-> "apply-config", tx |-> work[w].tx, groups |-> groups]
  <2>8. \A m \in net' : Begun(m.tx)'
    BY <2>1, <2>2, <2>6
  <2>9. \A m, n \in net' : m.tx = n.tx => m = n
    BY <2>1, <2>4
  <2>10. \A m \in net', v \in Workers : work'[v].tx = m.tx =>
            IF m.kind = "apply-config"
            THEN /\ work'[v].step \in {"apply", "fail"}
                 /\ work'[v].step = "apply" => m.groups = work'[v].groups
            ELSE work'[v].step \in {"commit", "fail"}
    BY <2>1, <2>3, <2>4, <2>7
  <2>11. \A a \in mail', m \in net' : a.tx # m.tx
    BY <2>1, <2>2, <2>5
  <2>12. \A t \in Tx, step \in {"apply", "commit"} : Waits(t, step) => Waits(t, step)'
    BY <2>2, <2>3
  <2>13. \A a \in mail' : \/ a.ok # "committed" /\ Waits(a.tx, "apply")'
                          \/ a.ok # "pending" /\ Waits(a.tx, "commit")'
    BY <2>2, <2>12
  <2>14. \A a, b \in mail' : a.tx = b.tx => a = b
    BY <2>2
  <2> QED BY <2>8, <2>9, <2>10, <2>11, <2>13, <2>14
<1>17. ASSUME NEW w \in Workers, NotReady(w) PROVE NetInv'
  BY <1>17 DEF NotReady
<1>18. ASSUME NEW w \in Workers, ApplyAnswered(w) PROVE NetInv'
  <2> DEFINE answer == Answer(w, "pending")
             new == [kind |-> "commit-config", tx |-> work[w].tx, groups |-> None]
  <2>1. /\ work[w].step = "apply" /\ answer \in mail /\ mail' = mail \ {answer}
        /\ net' = net \cup {new} /\ work' = [work EXCEPT ![w].step = "commit"]
    BY <1>18 DEF ApplyAnswered
  <2>2. answer.tx = work[w].tx /\ work[w].tx \in Tx /\ work[w].tx # None
    BY <2>1 DEF Answer
  <2> HIDE DEF answer
  <2>3. /\ work'[w].step = "commit" /\ work'[w].tx = work[w].tx
        /\ \A v \in Workers : v # w => work'[v] = work[v]
    BY <2>1
  <2>4. \A m \in net : m.tx # work[w].tx
    BY <2>1, <2>2
  <2>5. \A a \in mail' : a.tx # work[w].tx
    BY <2>1, <2>2
  <2>6. Begun(work[w].tx)
    BY <2>2 DEF JobInv, Running, Begun
  <2>7. \A v \in Workers : v # w => work[v].tx # work[w].tx
    BY <2>2, OnlyOne
  <2>8. new.tx = work[w].tx /\ new.kind = "commit-config"
    OBVIOUS
  <2> HIDE DEF new
  <2>9. \A m \in net' : Begun(m.tx)'
    BY <2>1, <2>2, <2>6, <2>8
  <2>10. \A m, n \in net' : m.tx = n.tx => m = n
    BY <2>1, <2>4, <2>8
  <2>11. \A m \in net', v \in Workers : work'[v].tx = m.tx =>
            IF m.kind = "apply-config"
            THEN /\ work'[v].step \in {"apply", "fail"}
                 /\ work'[v].step = "apply" => m.groups = work'[v].groups
            ELSE work'[v].step \in {"commit", "fail"}
    BY <2>1, <2>3, <2>4, <2>7, <2>8
  <2>12. \A a \in mail', m \in net' : a.tx # m.tx
    BY <2>1, <2>5, <2>8
  <2>13. \A a \in mail' : \/ a.ok # "committed" /\ Waits(a.tx, "apply")'
                          \/ a.ok # "pending" /\ Waits(a.tx, "commit")'
    BY <2>1, <2>3, <2>5
  <2>14. \A a, b \in mail' : a.tx = b.tx => a = b
    BY <2>1
  <2> QED BY <2>9, <2>10, <2>11, <2>12, <2>13, <2>14
<1>19. ASSUME NEW w \in Workers, CommitAnswered(w) PROVE NetInv'
  BY <1>19 DEF CommitAnswered, Answer
<1>20. ASSUME NEW w \in Workers, Refused(w) PROVE NetInv'
  BY <1>20 DEF Refused, Answer
<1>21. ASSUME NEW w \in Workers, GiveUp(w) PROVE NetInv'
  BY <1>21 DEF GiveUp
<1>22. ASSUME NEW m \in net, RemoteApplies(m) PROVE NetInv'
  BY <1>22 DEF RemoteApplies, Request, Send
<1>23. ASSUME NEW m \in net, RemoteRefuses(m) PROVE NetInv'
  BY <1>23 DEF RemoteRefuses, Request, Send
<1>24. ASSUME NEW m \in net, RemoteGetsStuck(m) PROVE NetInv'
  BY <1>24 DEF RemoteGetsStuck, Request, Send
<1>25. ASSUME NEW m \in net, RemoteCommits(m) PROVE NetInv'
  BY <1>25 DEF RemoteCommits, Request, Send
<1>26. ASSUME NEW m \in net, RemoteTooLate(m) PROVE NetInv'
  BY <1>26 DEF RemoteTooLate, Request, Send
<1>27. CASE RemoteAbandons
  BY <1>27 DEF RemoteAbandons
<1>28. CASE GuardRound
  BY <1>28 DEF GuardRound
<1>29. CASE CheckBegins
  BY <1>29 DEF CheckBegins
<1>30. CASE CheckRecords
  BY <1>30 DEF CheckRecords
<1>31. CASE TakeFails
  <2>1. work' = [work EXCEPT !["lane"] = [Idle EXCEPT !.step = "recover"]] /\ net' = net /\ mail' = mail
    BY <1>31 DEF TakeFails, Finish
  <2>2. work["lane"].step \notin {"apply", "commit"}
    BY <1>31 DEF TakeFails, Idle
  <2> QED BY <2>1, <2>2, NetLeft DEF Idle, Workers
<1>32. ASSUME NEW w \in Workers, RecordFails(w) PROVE NetInv'
  BY <1>32 DEF RecordFails
<1>33. ASSUME NEW w \in Workers, RecordFailureFails(w) PROVE NetInv'
  <2>1. /\ work' = [work EXCEPT ![w] = IF w = "lane" THEN [Idle EXCEPT !.step = "recover"] ELSE Idle]
        /\ net' = net /\ mail' = mail
    BY <1>33 DEF RecordFailureFails, Finish
  <2>2. work[w].step \notin {"apply", "commit"}
    BY <1>33 DEF RecordFailureFails, Idle
  <2> QED BY <2>1, <2>2, NetLeft DEF Idle, Workers
<1>34. CASE Restart
  <2>1. work' = [w \in Workers |-> Idle] /\ net' = net /\ mail' = {}
    BY <1>34 DEF Restart
  <2>2. \A w \in Workers : work'[w].tx = None
    BY <2>1 DEF Idle
  <2>3. \A m \in net : m.tx # None
    BY SetsOK
  <2> QED BY <2>1, <2>2, <2>3
<1>35. CASE UNCHANGED vars
  BY <1>35 DEF vars, dbVars, gatewayVars, healthVars, sideVars
<1> QED
  BY <1>1, <1>2, <1>3, <1>4, <1>5, <1>6, <1>7, <1>8, <1>9, <1>10, <1>11, <1>12, <1>13, <1>14,
     <1>15, <1>16, <1>17, <1>18, <1>19, <1>20, <1>21, <1>22, <1>23, <1>24, <1>25, <1>26,
     <1>27, <1>28, <1>29, <1>30, <1>31, <1>32, <1>33, <1>34, <1>35
     DEF Next, Requests, Lane, Http, Shared, Remote, Health, Failures

-----------------------------------------------------------------------------
(* The gateway and the transaction of a worker *)

\* What the types say of workers, commands, answers and versions.
LEMMA Shapes ==
    ASSUME TypeOK
    PROVE  /\ DOMAIN work = Workers
           /\ \A w \in Workers :
                 /\ work[w].tx \in Tx \cup {None}
                 /\ work[w].step \in {"idle", "recover"} <=> work[w].tx = None
                 /\ work[w].step \in {"apply", "commit", "record"} <=> work[w].groups # None
                 /\ work[w].step \in Steps
           /\ \A m \in net : m.tx \in Tx /\ m.tx # None
           /\ \A a \in mail : a.tx \in Tx /\ a.tx # None
           /\ proposal # None => proposal \in Gateway!Version /\ proposal.tx \in Tx /\ proposal.tx # None
           /\ installed.manifest # None =>
                 /\ installed.manifest \in Gateway!Version /\ installed.manifest.tx \in Tx
                 /\ installed.manifest.tx # None /\ installed.config = installed.manifest.groups
<1>1. installed.manifest # None =>
         installed.manifest \in Gateway!Version /\ installed.config = installed.manifest.groups
  BY DEF TypeOK, Gateway!Coherent, Gateway!Whole, Gateway!FactoryFiles
<1> QED BY <1>1, SetsOK DEF TypeOK, Local, Message, Reply, Gateway!Version

\* Nothing is on trial, and nobody works.
LEMMA GatewayInit == Init => GatewayInv
<1> SUFFICES ASSUME Init PROVE GatewayInv
  OBVIOUS
<1>1. installed.manifest # None => installed.manifest.tx = First /\ Established # {}
  BY DEF Init, Gateway!FactoryFiles, Gateway!Whole
<1> QED BY <1>1, SetsOK, NoneOK DEF Init, GatewayInv, Begun, Idle, Workers, JobRow

\* Only the commit of the one worker at work decides for the version on trial, so what a worker
\* was told is installed stays installed until it has written that down.
LEMMA GatewayStep == TypeOK /\ JobInv /\ NetInv /\ GatewayInv /\ [Next]_vars => GatewayInv'
<1> SUFFICES ASSUME TypeOK, JobInv, NetInv, GatewayInv, [Next]_vars PROVE GatewayInv'
  OBVIOUS
<1> USE BegunStays, OnlyOne, Shapes
        DEF GatewayInv, Decided, Holding, Answered, dbVars, gatewayVars, healthVars, sideVars
<1>1. ASSUME NEW s \in Subs, NEW e \in Exits, Register(s, e) PROVE GatewayInv'
  BY <1>1 DEF Register
<1>2. ASSUME NEW s \in Subs, NEW e \in Exits, ConfirmChange(s, e) PROVE GatewayInv'
  BY <1>2 DEF ConfirmChange
<1>3. ASSUME NEW s \in Subs, Activate(s) PROVE GatewayInv'
  BY <1>3 DEF Activate
<1>4. ASSUME NEW s \in Subs, Rotate(s) PROVE GatewayInv'
  BY <1>4 DEF Rotate
<1>5. ASSUME NEW s \in Subs, DeleteLocally(s) PROVE GatewayInv'
  BY <1>5 DEF DeleteLocally
<1>6. ASSUME NEW s \in Subs, BeginDelete(s) PROVE GatewayInv'
  <2>1. PICK t \in Tx :
           /\ jobs[t] = None
           /\ work' = [work EXCEPT !["http"] =
                 [Idle EXCEPT !.step = "desired", !.tx = t, !.exit = subs[s].exit, !.sub = s,
                              !.token = subs[s].token]]
    BY <1>6 DEF BeginDelete
  <2>2. /\ work'["http"].tx = t /\ work'["http"].step = "desired"
        /\ work'["lane"] = work["lane"]
    BY <2>1 DEF Idle, Workers
  <2>3. net' = net /\ mail' = mail /\ installed' = installed /\ proposal' = proposal
    BY <1>6 DEF BeginDelete
  <2>4. ~Begun(t) /\ ~Running(t)
    BY <2>1 DEF Begun, Running
  <2>5. (\A m \in net : m.tx # t) /\ (\A a \in mail : a.tx # t)
    BY <2>4 DEF NetInv, Waits, JobInv
  <2>6. ~Holding(t) /\ (proposal # None => proposal.tx # t)
    BY <2>4
  <2> QED BY <2>2, <2>3, <2>5, <2>6 DEF Workers
<1>7. ASSUME NEW e \in Exits, Enqueue(e) PROVE GatewayInv'
  BY <1>7 DEF Enqueue
<1>8. ASSUME NEW e \in Exits, NEW result \in {"ok", "stale", "changed"}, IspChecked(e, result)
      PROVE  GatewayInv'
  BY <1>8 DEF IspChecked
<1>9. CASE Take
  <2>1. PICK t \in Tx :
           /\ jobs[t] # None /\ jobs[t].state = "QUEUED"
           /\ work' = [work EXCEPT !["lane"] =
                 [Idle EXCEPT !.step = "desired", !.tx = t, !.exit = jobs[t].exit]]
    BY <1>9 DEF Take
  <2>2. /\ work'["lane"].tx = t /\ work'["lane"].step = "desired"
        /\ work'["http"] = work["http"]
    BY <2>1 DEF Idle, Workers
  <2>3. net' = net /\ mail' = mail /\ installed' = installed /\ proposal' = proposal
    BY <1>9 DEF Take
  <2>4. ~Begun(t) /\ ~Running(t)
    BY <2>1 DEF Begun, Running
  <2>5. (\A m \in net : m.tx # t) /\ (\A a \in mail : a.tx # t)
    BY <2>4 DEF NetInv, Waits, JobInv
  <2>6. ~Holding(t) /\ (proposal # None => proposal.tx # t)
    BY <2>4
  <2> QED BY <2>2, <2>3, <2>5, <2>6 DEF Workers
<1>10. CASE RecordSuccess
  BY <1>10 DEF RecordSuccess, Finish, Idle
<1>11. CASE RecordFailure
  BY <1>11 DEF RecordFailure, Finish, Idle
<1>12. CASE RecoverLane
  BY <1>12 DEF RecoverLane, Idle
<1>13. CASE RecordDelete
  BY <1>13 DEF RecordDelete, Finish, Idle
<1>14. CASE DeleteConflicts
  BY <1>14 DEF DeleteConflicts
<1>15. CASE RecordDeleteFailure
  BY <1>15 DEF RecordDeleteFailure, Finish, Idle
<1>16. ASSUME NEW w \in Workers, Desired(w) PROVE GatewayInv'
  <2>1. PICK groups \in Groups :
           /\ work' = [work EXCEPT ![w].step = "apply", ![w].groups = groups]
           /\ net' = net \cup {[kind |-> "apply-config", tx |-> work[w].tx, groups |-> groups]}
    BY <1>16, DesiredIs
  <2>2. /\ work[w].step = "desired" /\ mail' = mail
        /\ installed' = installed /\ proposal' = proposal
    BY <1>16 DEF Desired
  <2>3. /\ work'[w].step = "apply" /\ work'[w].tx = work[w].tx
        /\ \A v \in Workers : v # w => work'[v] = work[v]
    BY <2>1 DEF TypeOK, Local
  <2>4. \A v \in Workers : v # w => work[v].tx # work[w].tx /\ work[v].tx = None
    BY <2>2
  <2>5. proposal # None => proposal.tx # work[w].tx
    BY <2>2
  <2>6. Decided' <=> Decided
    BY <2>1, <2>2, <2>5
  <2>7. \A m \in net' : m \in net \/ m.tx = work[w].tx
    BY <2>1
  <2>8. proposal' # None =>
           /\ Begun(proposal.tx)' /\ ~Holding(proposal.tx)'
           /\ \A m \in net' : m.tx = proposal'.tx => m.kind = "commit-config"
    BY <2>2, <2>5, <2>7
  <2>9. \A v \in Workers : v # w => work'[v].step \in {"idle", "recover"} /\ work'[v].tx = None
    BY <2>3, <2>4
  <2>10. \A v \in Workers :
          /\ work'[v].step # "desired" /\ (proposal' # None => proposal'.tx # work'[v].tx)
          /\ work'[v].step \in {"apply", "idle", "recover"}
          /\ work'[v].step = "apply" => ~Holding(work[v].tx)' /\ work'[v].tx = work[v].tx
    BY <2>2, <2>3, <2>5, <2>9
  <2> QED BY <2>2, <2>8, <2>10
<1>17. ASSUME NEW w \in Workers, NotReady(w) PROVE GatewayInv'
  BY <1>17 DEF NotReady
<1>18. ASSUME NEW w \in Workers, ApplyAnswered(w) PROVE GatewayInv'
  <2> DEFINE answer == Answer(w, "pending")
             new == [kind |-> "commit-config", tx |-> work[w].tx, groups |-> None]
  <2>1. /\ work[w].step = "apply" /\ answer \in mail /\ mail' = mail \ {answer}
        /\ net' = net \cup {new} /\ work' = [work EXCEPT ![w].step = "commit"]
        /\ installed' = installed /\ proposal' = proposal
    BY <1>18 DEF ApplyAnswered
  <2>2. answer.tx = work[w].tx /\ new.tx = work[w].tx /\ new.kind = "commit-config"
    BY DEF Answer
  <2>3. \A a \in mail' : a.tx # work[w].tx
    BY <2>1, <2>2 DEF NetInv
  <2>4. /\ work'[w].step = "commit" /\ work'[w].tx = work[w].tx /\ work'[w].groups = work[w].groups
        /\ \A v \in Workers : v # w => work'[v] = work[v]
    BY <2>1 DEF TypeOK, Local
  <2>5. \A v \in Workers : v # w => work'[v].tx = None /\ work'[v].step \in {"idle", "recover"}
    BY <2>1, <2>4
  <2> HIDE DEF answer, new
  <2>6. ~Answered(w)' /\ ~Holding(work[w].tx)'
    BY <2>1, <2>3, <2>4
  <2>7. proposal' # None =>
           /\ Begun(proposal.tx)' /\ ~Holding(proposal.tx)'
           /\ \A m \in net' : m.tx = proposal'.tx => m.kind = "commit-config"
    BY <2>1, <2>2
  <2>8. \A v \in Workers :
          proposal' # None /\ proposal'.tx = work'[v].tx =>
             v = w /\ proposal'.groups = work'[v].groups
    BY <2>1, <2>4, <2>5
  <2> QED BY <2>1, <2>4, <2>5, <2>6, <2>7, <2>8
<1>19. ASSUME NEW w \in Workers, CommitAnswered(w) PROVE GatewayInv'
  BY <1>19 DEF CommitAnswered, Answer
<1>20. ASSUME NEW w \in Workers, Refused(w) PROVE GatewayInv'
  BY <1>20 DEF Refused, Answer
<1>21. ASSUME NEW w \in Workers, GiveUp(w) PROVE GatewayInv'
  BY <1>21 DEF GiveUp
<1>22. ASSUME NEW m \in net, RemoteApplies(m) PROVE GatewayInv'
  BY <1>22 DEF RemoteApplies, Request, Send, NetInv, Gateway!Propose
<1>23. ASSUME NEW m \in net, RemoteRefuses(m) PROVE GatewayInv'
  BY <1>23 DEF RemoteRefuses, Request, Send
<1>24. ASSUME NEW m \in net, RemoteGetsStuck(m) PROVE GatewayInv'
  BY <1>24 DEF RemoteGetsStuck, Request, Send, NetInv, Gateway!Propose
<1>25. ASSUME NEW m \in net, RemoteCommits(m) PROVE GatewayInv'
  BY <1>25 DEF RemoteCommits, Request, Send, NetInv, Gateway!Accept, Gateway!Whole
<1>26. ASSUME NEW m \in net, RemoteTooLate(m) PROVE GatewayInv'
  BY <1>26 DEF RemoteTooLate, Request, Send
<1>27. CASE RemoteAbandons
  BY <1>27 DEF RemoteAbandons, Gateway!Abandon
<1>28. CASE GuardRound
  BY <1>28 DEF GuardRound
<1>29. CASE CheckBegins
  BY <1>29 DEF CheckBegins
<1>30. CASE CheckRecords
  BY <1>30 DEF CheckRecords
<1>31. CASE TakeFails
  <2>1. /\ work' = [work EXCEPT !["lane"] = [Idle EXCEPT !.step = "recover"]]
        /\ net' = net /\ mail' = mail /\ installed' = installed /\ proposal' = proposal
    BY <1>31 DEF TakeFails
  <2>2. work'["lane"].tx = None /\ work'["lane"].step = "recover"
    BY <2>1 DEF Idle, Workers
  <2>3. \A w \in Workers : w # "lane" => work'[w] = work[w]
    BY <2>1
  <2> QED BY <2>1, <2>2, <2>3
<1>32. ASSUME NEW w \in Workers, RecordFails(w) PROVE GatewayInv'
  BY <1>32 DEF RecordFails
<1>33. ASSUME NEW w \in Workers, RecordFailureFails(w) PROVE GatewayInv'
  BY <1>33 DEF RecordFailureFails, Idle
<1>34. CASE Restart
  BY <1>34 DEF Restart, Idle
<1>35. CASE UNCHANGED vars
  BY <1>35 DEF vars, dbVars, gatewayVars, healthVars, sideVars
<1> QED
  BY <1>1, <1>2, <1>3, <1>4, <1>5, <1>6, <1>7, <1>8, <1>9, <1>10, <1>11, <1>12, <1>13, <1>14,
     <1>15, <1>16, <1>17, <1>18, <1>19, <1>20, <1>21, <1>22, <1>23, <1>24, <1>25, <1>26,
     <1>27, <1>28, <1>29, <1>30, <1>31, <1>32, <1>33, <1>34, <1>35
     DEF Next, Requests, Lane, Http, Shared, Remote, Health, Failures

-----------------------------------------------------------------------------
(* What was revoked *)

\* Nothing was revoked before the start.
LEMMA RevokedInit == Init => RevokedInv
BY DEF Init, RevokedInv, Idle, Workers

\* The version a deletion was confirmed with leaves the client out, and so does every later one,
\* which is read after the row is gone.
LEMMA RevokedStep ==
    TypeOK /\ JobInv /\ NetInv /\ GatewayInv /\ RevokedInv /\ [Next]_vars => RevokedInv'
<1> SUFFICES ASSUME TypeOK, JobInv, NetInv, GatewayInv, RevokedInv, [Next]_vars PROVE RevokedInv'
  OBVIOUS
<1> USE OnlyOne, Shapes DEF RevokedInv, OutOf, Decided, dbVars, gatewayVars, healthVars, sideVars
<1>1. ASSUME NEW s \in Subs, NEW e \in Exits, Register(s, e) PROVE RevokedInv'
  BY <1>1 DEF Register
<1>2. ASSUME NEW s \in Subs, NEW e \in Exits, ConfirmChange(s, e) PROVE RevokedInv'
  BY <1>2 DEF ConfirmChange
<1>3. ASSUME NEW s \in Subs, Activate(s) PROVE RevokedInv'
  BY <1>3 DEF Activate
<1>4. ASSUME NEW s \in Subs, Rotate(s) PROVE RevokedInv'
  BY <1>4 DEF Rotate
<1>5. ASSUME NEW s \in Subs, DeleteLocally(s) PROVE RevokedInv'
  BY <1>5 DEF DeleteLocally, Forget
<1>6. ASSUME NEW s \in Subs, BeginDelete(s) PROVE RevokedInv'
  <2>1. PICK t \in Tx :
           work' = [work EXCEPT !["http"] =
              [Idle EXCEPT !.step = "desired", !.tx = t, !.exit = subs[s].exit, !.sub = s,
                           !.token = subs[s].token]]
    BY <1>6 DEF BeginDelete
  <2>2. work'["http"].groups = None /\ work'["lane"] = work["lane"]
    BY <2>1 DEF Idle, Workers
  <2> QED BY <1>6, <2>2 DEF BeginDelete, Workers
<1>7. ASSUME NEW e \in Exits, Enqueue(e) PROVE RevokedInv'
  BY <1>7 DEF Enqueue
<1>8. ASSUME NEW e \in Exits, NEW result \in {"ok", "stale", "changed"}, IspChecked(e, result)
      PROVE  RevokedInv'
  BY <1>8 DEF IspChecked
<1>9. CASE Take
  BY <1>9 DEF Take
<1>10. CASE RecordSuccess
  BY <1>10 DEF RecordSuccess, Finish, Idle
<1>11. CASE RecordFailure
  BY <1>11 DEF RecordFailure, Finish, Idle
<1>12. CASE RecoverLane
  BY <1>12 DEF RecoverLane, Idle
<1>13. CASE RecordDelete
  <2> DEFINE s == work["http"].sub
  <2>1. /\ work["http"].step = "record" /\ work["http"].tx # None /\ work["http"].groups # None
        /\ s \in Subs /\ s # None
    BY <1>13, SetsOK DEF RecordDelete, TypeOK, Local, Workers
  <2>2. /\ deleted' = [deleted EXCEPT ![s] = "revoked"] /\ work' = [work EXCEPT !["http"] = Idle]
        /\ net' = net /\ installed' = installed /\ proposal' = proposal
    BY <1>13 DEF RecordDelete, Forget, Finish
  <2>3. /\ installed.manifest # None /\ installed.config = work["http"].groups /\ ~Decided
    BY <2>1 DEF GatewayInv, Holding, Workers
  <2>4. OutOf(work["http"].groups, s)
    BY <2>1 DEF Workers
  <2>5. \A w \in Workers : work'[w].groups = None
    BY <2>1, <2>2 DEF Workers, Idle
  <2> QED BY <2>1, <2>2, <2>3, <2>4, <2>5 DEF TypeOK
<1>14. CASE DeleteConflicts
  BY <1>14 DEF DeleteConflicts
<1>15. CASE RecordDeleteFailure
  BY <1>15 DEF RecordDeleteFailure, Finish, Idle
<1>16. ASSUME NEW w \in Workers, Desired(w) PROVE RevokedInv'
  <2>1. PICK groups \in Groups :
           /\ work' = [work EXCEPT ![w].step = "apply", ![w].groups = groups]
           /\ net' = net \cup {[kind |-> "apply-config", tx |-> work[w].tx, groups |-> groups]}
           /\ \A e \in DOMAIN groups : groups[e].clients = ClientsOf(w, e)
    BY <1>16, DesiredIs
  <2>2. /\ deleted' = deleted /\ installed' = installed /\ proposal' = proposal
    BY <1>16 DEF Desired
  <2>3. OutOf(groups, work[w].sub)
    BY <2>1 DEF Serves, ClientsOf
  <2>4. \A s \in Subs : deleted[s] = "revoked" => OutOf(groups, s)
    BY <2>1 DEF Serves, ClientsOf, TypeOK
  <2>5. Decided' => Decided
    BY <2>1, <2>2
  <2>6. /\ work'[w].groups = groups /\ work'[w].sub = work[w].sub
        /\ \A v \in Workers : v # w => work'[v] = work[v]
    BY <2>1 DEF TypeOK, Local
  <2> QED BY <2>2, <2>3, <2>4, <2>5, <2>6
<1>17. ASSUME NEW w \in Workers, NotReady(w) PROVE RevokedInv'
  BY <1>17 DEF NotReady
<1>18. ASSUME NEW w \in Workers, ApplyAnswered(w) PROVE RevokedInv'
  <2>1. /\ work[w].step = "apply" /\ work' = [work EXCEPT ![w].step = "commit"]
        /\ deleted' = deleted /\ installed' = installed /\ proposal' = proposal
        /\ \A m \in net' : m \in net \/ m.tx = work[w].tx
    BY <1>18 DEF ApplyAnswered
  <2>2. \A v \in Workers : work'[v].groups = work[v].groups /\ work'[v].sub = work[v].sub
    BY <2>1 DEF TypeOK, Local
  <2>3. proposal # None /\ proposal.tx = work[w].tx => proposal.groups = work[w].groups
    BY <2>1 DEF GatewayInv
  <2>4. Decided' => Decided \/ (proposal # None /\ proposal.tx = work[w].tx)
    BY <2>1
  <2> QED BY <2>1, <2>2, <2>3, <2>4
<1>19. ASSUME NEW w \in Workers, CommitAnswered(w) PROVE RevokedInv'
  BY <1>19 DEF CommitAnswered, Answer
<1>20. ASSUME NEW w \in Workers, Refused(w) PROVE RevokedInv'
  BY <1>20 DEF Refused, Answer
<1>21. ASSUME NEW w \in Workers, GiveUp(w) PROVE RevokedInv'
  BY <1>21 DEF GiveUp
<1>22. ASSUME NEW m \in net, RemoteApplies(m) PROVE RevokedInv'
  BY <1>22 DEF RemoteApplies, Request, Send, NetInv, Gateway!Propose
<1>23. ASSUME NEW m \in net, RemoteRefuses(m) PROVE RevokedInv'
  BY <1>23 DEF RemoteRefuses, Request, Send
<1>24. ASSUME NEW m \in net, RemoteGetsStuck(m) PROVE RevokedInv'
  BY <1>24 DEF RemoteGetsStuck, Request, Send, NetInv, Gateway!Propose
<1>25. ASSUME NEW m \in net, RemoteCommits(m) PROVE RevokedInv'
  BY <1>25 DEF RemoteCommits, Request, Send, NetInv, Gateway!Accept, Gateway!Whole
<1>26. ASSUME NEW m \in net, RemoteTooLate(m) PROVE RevokedInv'
  BY <1>26 DEF RemoteTooLate, Request, Send
<1>27. CASE RemoteAbandons
  BY <1>27 DEF RemoteAbandons, Gateway!Abandon
<1>28. CASE GuardRound
  BY <1>28 DEF GuardRound
<1>29. CASE CheckBegins
  BY <1>29 DEF CheckBegins
<1>30. CASE CheckRecords
  BY <1>30 DEF CheckRecords
<1>31. CASE TakeFails
  BY <1>31 DEF TakeFails
<1>32. ASSUME NEW w \in Workers, RecordFails(w) PROVE RevokedInv'
  BY <1>32 DEF RecordFails
<1>33. ASSUME NEW w \in Workers, RecordFailureFails(w) PROVE RevokedInv'
  BY <1>33 DEF RecordFailureFails, Idle
<1>34. CASE Restart
  BY <1>34 DEF Restart, Idle
<1>35. CASE UNCHANGED vars
  BY <1>35 DEF vars, dbVars, gatewayVars, healthVars, sideVars
<1> QED
  BY <1>1, <1>2, <1>3, <1>4, <1>5, <1>6, <1>7, <1>8, <1>9, <1>10, <1>11, <1>12, <1>13, <1>14,
     <1>15, <1>16, <1>17, <1>18, <1>19, <1>20, <1>21, <1>22, <1>23, <1>24, <1>25, <1>26,
     <1>27, <1>28, <1>29, <1>30, <1>31, <1>32, <1>33, <1>34, <1>35
     DEF Next, Requests, Lane, Http, Shared, Remote, Health, Failures

-----------------------------------------------------------------------------
(* Theorems of the specification *)

IInv == TypeOK /\ JobInv /\ NetInv /\ GatewayInv /\ RevokedInv

\* The parts of the invariant hold together.
LEMMA IInvHolds == ASSUME TakesSucceed PROVE Spec => []IInv
<1>1. Init => IInv
  BY TypeInit, JobInit, NetInit, GatewayInit, RevokedInit DEF IInv
<1>2. IInv /\ [Next]_vars => IInv'
  BY JobsHaveRows, TypeStep, JobStep, NetStep, GatewayStep, RevokedStep DEF IInv
<1> QED BY <1>1, <1>2, PTL DEF Spec

\* Rows, workers, commands and answers have their types: exit_jobs and the threads' variables.
THEOREM ExitTyped == Spec => []TypeOK
BY RowAlways, PTL

\* The gateway that the jobs meet takes only steps of the store that Transactions implements:
\* commands that come late, twice or never install nothing else.
THEOREM JobsStore == Spec => [][Gateway!StoreNext]_(Gateway!storeVars)
<1>1. TypeOK /\ [Next]_vars => [Gateway!StoreNext]_(Gateway!storeVars)
  <2> SUFFICES ASSUME TypeOK, [Next]_vars
               PROVE  Gateway!StoreNext \/ UNCHANGED <<installed, proposal>>
    BY DEF Gateway!storeVars
  <2>1. ASSUME NEW m \in net, RemoteApplies(m) \/ RemoteGetsStuck(m) PROVE Gateway!StoreNext
    <3>1. m.kind = "apply-config" /\ Gateway!Propose([tx |-> m.tx, groups |-> m.groups])
      BY <2>1 DEF RemoteApplies, RemoteGetsStuck
    <3>2. m \in Message /\ m.groups # None
      BY <3>1 DEF TypeOK
    <3>3. [tx |-> m.tx, groups |-> m.groups] \in Gateway!Version
      BY <3>2 DEF Message, Gateway!Version
    <3> QED BY <3>1, <3>3 DEF Gateway!StoreNext
  <2>2. CASE RemoteAbandons \/ \E m \in net : RemoteCommits(m)
    BY <2>2 DEF RemoteAbandons, RemoteCommits, Gateway!StoreNext
  <2>3. CASE \E m \in net : RemoteRefuses(m) \/ RemoteTooLate(m)
    BY <2>3 DEF RemoteRefuses, RemoteTooLate, gatewayVars
  <2>4. CASE GuardRound \/ Health \/ UNCHANGED vars
    BY <2>4 DEF GuardRound, Health, CheckBegins, CheckRecords, gatewayVars, vars
  <2>5. CASE Requests
    BY <2>5 DEF Requests, Register, ConfirmChange, Activate, Rotate, DeleteLocally, BeginDelete,
                Enqueue, IspChecked, gatewayVars
  <2>6. CASE Lane \/ Http \/ Failures
    BY <2>6 DEF Lane, Take, RecordSuccess, RecordFailure, RecoverLane, Http, RecordDelete,
                DeleteConflicts, RecordDeleteFailure, Failures, TakeFails, RecordFails,
                RecordFailureFails, Restart, gatewayVars
  <2>7. CASE \E w \in Workers : Shared(w)
    BY <2>7 DEF Shared, Desired, NotReady, ApplyAnswered, CommitAnswered, Refused, GiveUp, gatewayVars
  <2> QED BY <2>1, <2>2, <2>3, <2>4, <2>5, <2>6, <2>7 DEF Next, Remote
<1> QED BY <1>1, RowAlways, PTL DEF Spec

\* services/exits.py and services/groups.py never work on one gateway at once.
THEOREM WorkersExclude == ASSUME TakesSucceed PROVE Spec => []OneWorker
<1>1. ASSUME IInv PROVE OneWorker
  <2> DEFINE busy == {w \in Workers : work[w].tx # None}
  <2>1. PICK w \in Workers : busy \subseteq {w}
    BY <1>1, OnlyOne DEF IInv, Workers
  <2>2. IsFiniteSet({w}) /\ Cardinality({w}) = 1
    BY FS_Singleton
  <2>3. Cardinality(busy) <= 1 /\ IsFiniteSet(busy)
    BY <2>1, <2>2, FS_Subset
  <2> QED BY <2>3 DEF OneWorker
<1> QED BY <1>1, IInvHolds, PTL

\* A deletion recorded as done through the gateway is final.
THEOREM RevocationIsFinal == ASSUME TakesSucceed PROVE Spec => []RevokedIsRemoved
<1>1. IInv => RevokedIsRemoved
  BY DEF IInv, RevokedInv, OutOf, RevokedIsRemoved
<1> QED BY <1>1, IInvHolds, PTL

\* A job ends as SUCCEEDED in the step that writes its rows, when the gateway has installed its
\* version and not before: the confirmation was for this transaction.
THEOREM SuccessIsInstalled == ASSUME TakesSucceed PROVE Spec => SucceededIsInstalled
<1> DEFINE Step == \A t \in Tx : jobs[t] # None /\ jobs'[t].state = "SUCCEEDED" /\ jobs[t].state # "SUCCEEDED"
                      => installed.manifest # None /\ installed.manifest.tx = t
<1>0. ASSUME IInv, [Next]_vars, NEW x \in Tx, jobs[x] # None, jobs'[x].state = "SUCCEEDED",
             jobs[x].state # "SUCCEEDED"
      PROVE  installed.manifest # None /\ installed.manifest.tx = x
  <2> USE <1>0, RowEnds DEF IInv, dbVars, gatewayVars, healthVars, sideVars
  <2>1. ASSUME NEW e \in Exits, NEW state \in {"QUEUED", "RUNNING"}, Insert(e, state) PROVE FALSE
    BY <2>1 DEF Insert, TypeOK
  <2>2. ASSUME RecoverJobs PROVE FALSE
    <3>1. CASE \E t \in Tx : Running(t)
      <4>1. PICK t \in Tx : jobs[t] # None /\ jobs' = [jobs EXCEPT ![t].state = "FAILED"]
        BY <2>2, <3>1 DEF RecoverJobs, Interrupted, Running
      <4> QED BY <4>1 DEF TypeOK
    <3>2. CASE ~\E t \in Tx : Running(t)
      BY <2>2, <3>2 DEF RecoverJobs
    <3> QED BY <3>1, <3>2
  <2>3. ASSUME NEW w \in Workers, NEW state \in {"SUCCEEDED", "FAILED"}, Finish(w, state),
               work[w].tx # None
        PROVE  state = "SUCCEEDED" /\ x = work[w].tx
    <3>1. work[w].tx \in Tx /\ jobs[work[w].tx] # None
      BY <2>3, Shapes DEF JobInv, Running
    <3>2. jobs' = [jobs EXCEPT ![work[w].tx].state = state]
      BY <2>3 DEF Finish
    <3> QED BY <3>1, <3>2 DEF TypeOK
  <2>4. CASE RecordSuccess
    <3>1. work["lane"].step = "record" /\ work["lane"].tx # None /\ Finish("lane", "SUCCEEDED")
      BY <2>4, Shapes DEF RecordSuccess, Workers
    <3>2. Holding(work["lane"].tx)
      BY <3>1 DEF GatewayInv, Workers
    <3> QED BY <2>3, <3>1, <3>2 DEF Holding, Workers
  <2>5. CASE RecordDelete
    <3>1. work["http"].step = "record" /\ work["http"].tx # None /\ Finish("http", "SUCCEEDED")
      BY <2>5, Shapes DEF RecordDelete, Workers
    <3>2. Holding(work["http"].tx)
      BY <3>1 DEF GatewayInv, Workers
    <3> QED BY <2>3, <3>1, <3>2 DEF Holding, Workers
  <2>6. CASE RecordFailure \/ RecordDeleteFailure
    <3>1. \E w \in Workers : Finish(w, "FAILED") /\ work[w].tx # None
      BY <2>6, Shapes DEF RecordFailure, RecordDeleteFailure, Workers
    <3> QED BY <2>3, <3>1
  <2>7. CASE Take
    <3>1. PICK t \in Tx : jobs[t] # None /\ jobs' = [jobs EXCEPT ![t].state = "RUNNING"]
      BY <2>7 DEF Take
    <3> QED BY <3>1 DEF TypeOK
  <2>8. CASE Restart \/ RecoverLane
    BY <2>2, <2>8 DEF Restart, RecoverLane
  <2>9. ASSUME NEW s \in Subs, NEW e \in Exits, Activate(s) \/ ConfirmChange(s, e) \/ BeginDelete(s)
        PROVE  FALSE
    <3>1. subs[s] # None => subs[s].exit \in Exits
      BY DEF TypeOK, SubRow
    <3> QED BY <2>1, <2>9, <3>1 DEF Activate, ConfirmChange, BeginDelete
  <2>10. ASSUME NEW s \in Subs, Activate(s) \/ BeginDelete(s) PROVE FALSE
    <3>1. subs[s] # None => subs[s].exit \in Exits
      BY DEF TypeOK, SubRow
    <3> QED BY <2>1, <2>10, <3>1 DEF Activate, BeginDelete
  <2>11. ASSUME NEW e \in Exits, Enqueue(e) PROVE FALSE
    BY <2>1, <2>11 DEF Enqueue
  <2>12. jobs' # jobs
    OBVIOUS
  <2>13. ASSUME NEW s \in Subs, NEW e \in Exits, Register(s, e) PROVE FALSE
    BY <2>12, <2>13 DEF Register
  <2>14. ASSUME NEW s \in Subs, Rotate(s) \/ DeleteLocally(s) PROVE FALSE
    BY <2>12, <2>14 DEF Rotate, DeleteLocally
  <2>15. ASSUME NEW e \in Exits, NEW result \in {"ok", "stale", "changed"}, IspChecked(e, result)
         PROVE  FALSE
    BY <2>12, <2>15 DEF IspChecked
  <2>16. ASSUME NEW w \in Workers, Shared(w) \/ RecordFails(w) \/ RecordFailureFails(w) PROVE FALSE
    BY <2>12, <2>16 DEF Shared, Desired, NotReady, ApplyAnswered, CommitAnswered, Refused, GiveUp,
       RecordFails, RecordFailureFails
  <2>17. ASSUME Remote \/ Health \/ TakeFails \/ DeleteConflicts PROVE FALSE
    BY <2>12, <2>17 DEF Remote, RemoteApplies, RemoteRefuses, RemoteGetsStuck, RemoteCommits,
       RemoteTooLate, RemoteAbandons, GuardRound, Health, CheckBegins, CheckRecords, TakeFails,
       DeleteConflicts
  <2> QED
    BY <2>4, <2>5, <2>6, <2>7, <2>8, <2>9, <2>10, <2>11, <2>12, <2>13, <2>14, <2>15, <2>16, <2>17
    DEF Next, Requests, Lane, Http, Failures, vars
<1>1. IInv /\ [Next]_vars => [Step]_vars
  BY <1>0
<1> QED BY <1>1, IInvHolds, PTL DEF SucceededIsInstalled, Spec


-----------------------------------------------------------------------------
(* Who is READY *)

\* There is no subscription at the start.
LEMMA ReadyInit == Init => DeletionInv /\ KnownInv /\ ReadyInv
BY SetsOK DEF Init, DeletionInv, KnownInv, ReadyInv, Settled, Idle, Workers

\* What each operation leaves of a subscription's row.
LEMMA RowChanged ==
    ASSUME TypeOK, NEW s \in Subs, NEW e \in Exits, ConfirmChange(s, e)
    PROVE  /\ \A r \in Subs : r # s => subs'[r] = subs[r]
           /\ subs'[s] # None /\ subs'[s].state = "PENDING" /\ subs'[s].client = subs[s].client
<1> DEFINE row == [subs[s] EXCEPT !.exit = e, !.state = "PENDING"]
<1>1. subs[s] \in SubRow
  BY DEF ConfirmChange, TypeOK
<1>2. row \in SubRow /\ row.state = "PENDING" /\ row.client = subs[s].client
  BY <1>1 DEF SubRow
<1>3. subs' = [subs EXCEPT ![s] = row]
  BY DEF ConfirmChange, TypeOK
<1> QED BY <1>2, <1>3, NoneOK DEF TypeOK

\* A row that activate() writes.
LEMMA RowActivated ==
    ASSUME TypeOK, NEW s \in Subs, Activate(s)
    PROVE  /\ \A r \in Subs : r # s => subs'[r] = subs[r]
           /\ subs[s] # None /\ subs'[s] # None /\ subs'[s].client
           /\ subs'[s].exit = subs[s].exit /\ subs'[s].deployed = subs[s].deployed
           /\ subs'[s].token = subs[s].token
           /\ subs'[s].state = "READY" => subs[s].state = "READY" /\ subs[s].deployed = subs[s].exit
<1> DEFINE state == IF subs[s].state = "READY" /\ subs[s].deployed = subs[s].exit
                    THEN "READY" ELSE "PENDING"
           row == [subs[s] EXCEPT !.client = TRUE, !.state = state]
<1>1. subs[s] \in SubRow
  BY DEF Activate, TypeOK
<1>2. /\ row \in SubRow /\ row.client /\ row.exit = subs[s].exit /\ row.deployed = subs[s].deployed
      /\ row.token = subs[s].token /\ row.state = state
  BY <1>1 DEF SubRow
<1>3. subs' = [subs EXCEPT ![s] = row]
  BY <1>1 DEF Activate, TypeOK, SubRow
<1> QED BY <1>1, <1>2, <1>3, NoneOK DEF TypeOK

\* A row whose link is replaced.
LEMMA RowRotated ==
    ASSUME TypeOK, NEW s \in Subs, Rotate(s)
    PROVE  /\ \A r \in Subs : r # s => subs'[r] = subs[r]
           /\ subs[s] # None /\ subs'[s] # None /\ subs'[s].client = subs[s].client
           /\ subs'[s].exit = subs[s].exit /\ subs'[s].deployed = subs[s].deployed
           /\ subs'[s].state = subs[s].state
<1> DEFINE row == [subs[s] EXCEPT !.token = @ + 1]
<1>1. subs[s] \in SubRow
  BY DEF Rotate, TypeOK
<1>2. /\ row \in SubRow /\ row.client = subs[s].client /\ row.exit = subs[s].exit
      /\ row.deployed = subs[s].deployed /\ row.state = subs[s].state
  <2>1. subs[s].token + 1 \in 0..MaxTokens
    BY <1>1, SetsOK DEF SubRow, Rotate
  <2> QED BY <1>1, <2>1 DEF SubRow
<1>3. subs' = [subs EXCEPT ![s] = row]
  BY DEF Rotate, TypeOK
<1> QED BY <1>1, <1>2, <1>3, NoneOK DEF TypeOK

\* The rows a job of the lane leaves when it succeeds, and when it fails.
LEMMA RowsSucceeded ==
    ASSUME TypeOK, RecordSuccess, NEW s \in Subs
    PROVE  /\ subs'[s] # None <=> subs[s] # None
           /\ subs[s] # None => /\ subs'[s].client = subs[s].client /\ subs'[s].exit = subs[s].exit
                                /\ \/ subs'[s] = subs[s]
                                   \/ Serves(work["lane"].groups, s, subs[s].exit)
<1>1. CASE subs[s] = None
  BY <1>1 DEF RecordSuccess
<1>2. CASE subs[s] # None
  <2>1. subs[s] \in SubRow
    BY <1>2 DEF TypeOK
  <2>2. \A state \in {"PENDING", "READY"} :
           LET row == [subs[s] EXCEPT !.deployed = subs[s].exit, !.state = state]
           IN  row # None /\ row.client = subs[s].client /\ row.exit = subs[s].exit
    <3> SUFFICES ASSUME NEW state \in {"PENDING", "READY"}
                 PROVE  LET row == [subs[s] EXCEPT !.deployed = subs[s].exit, !.state = state]
                        IN  row # None /\ row.client = subs[s].client /\ row.exit = subs[s].exit
      OBVIOUS
    <3>1. [subs[s] EXCEPT !.deployed = subs[s].exit, !.state = state] \in SubRow
      BY <2>1 DEF SubRow
    <3> QED BY <2>1, <3>1, NoneOK DEF SubRow
  <2> QED BY <1>2, <2>2 DEF RecordSuccess, Serves
<1> QED BY <1>1, <1>2

\* What a failure leaves of a row.
LEMMA RowsFailed ==
    ASSUME TypeOK, RecordFailure, NEW s \in Subs
    PROVE  /\ subs'[s] # None <=> subs[s] # None
           /\ subs[s] # None => /\ subs'[s].client = subs[s].client /\ subs'[s].exit = subs[s].exit
                                /\ subs'[s] = subs[s] \/ subs'[s].state = "PENDING"
<1>1. CASE subs[s] = None
  BY <1>1 DEF RecordFailure
<1>2. CASE subs[s] # None
  <2> DEFINE row == [subs[s] EXCEPT !.state = "PENDING"]
  <2>1. subs[s] \in SubRow
    BY <1>2 DEF TypeOK
  <2>2. row \in SubRow /\ row.client = subs[s].client /\ row.exit = subs[s].exit /\ row.state = "PENDING"
    BY <2>1 DEF SubRow
  <2> QED BY <1>2, <2>2, NoneOK DEF RecordFailure
<1> QED BY <1>1, <1>2

\* The exits stay applied.
LEMMA StaysApplied ==
    ASSUME TypeOK, [Next]_vars, NEW x \in Exits, exits[x].applied
    PROVE  exits'[x].applied
<1> USE DEF dbVars, gatewayVars, healthVars, sideVars, TypeOK, ExitRow
<1>1. ASSUME NEW s \in Subs, NEW e \in Exits, Register(s, e) PROVE exits'[x].applied
  BY <1>1 DEF Register
<1>2. ASSUME NEW s \in Subs, NEW e \in Exits, ConfirmChange(s, e) PROVE exits'[x].applied
  BY <1>2 DEF ConfirmChange
<1>3. ASSUME NEW s \in Subs, Activate(s) PROVE exits'[x].applied
  BY <1>3 DEF Activate
<1>4. ASSUME NEW s \in Subs, Rotate(s) PROVE exits'[x].applied
  BY <1>4 DEF Rotate
<1>5. ASSUME NEW s \in Subs, DeleteLocally(s) PROVE exits'[x].applied
  BY <1>5 DEF DeleteLocally
<1>6. ASSUME NEW s \in Subs, BeginDelete(s) PROVE exits'[x].applied
  BY <1>6 DEF BeginDelete
<1>7. ASSUME NEW e \in Exits, Enqueue(e) PROVE exits'[x].applied
  BY <1>7 DEF Enqueue
<1>8. ASSUME NEW e \in Exits, NEW result \in {"ok", "stale", "changed"}, IspChecked(e, result)
      PROVE  exits'[x].applied
  BY <1>8 DEF IspChecked
<1>9. CASE Take
  BY <1>9 DEF Take
<1>10. CASE RecordSuccess
  BY <1>10 DEF RecordSuccess, Verified
<1>11. CASE RecordFailure
  BY <1>11 DEF RecordFailure
<1>12. CASE RecoverLane
  BY <1>12 DEF RecoverLane, RecoverJobs
<1>13. CASE RecordDelete
  BY <1>13 DEF RecordDelete, Verified
<1>14. CASE DeleteConflicts
  BY <1>14 DEF DeleteConflicts
<1>15. CASE RecordDeleteFailure
  BY <1>15 DEF RecordDeleteFailure
<1>16. ASSUME NEW w \in Workers, Desired(w) PROVE exits'[x].applied
  BY <1>16 DEF Desired
<1>17. ASSUME NEW w \in Workers, NotReady(w) PROVE exits'[x].applied
  BY <1>17 DEF NotReady
<1>18. ASSUME NEW w \in Workers, ApplyAnswered(w) PROVE exits'[x].applied
  BY <1>18 DEF ApplyAnswered
<1>19. ASSUME NEW w \in Workers, CommitAnswered(w) PROVE exits'[x].applied
  BY <1>19 DEF CommitAnswered
<1>20. ASSUME NEW w \in Workers, Refused(w) PROVE exits'[x].applied
  BY <1>20 DEF Refused
<1>21. ASSUME NEW w \in Workers, GiveUp(w) PROVE exits'[x].applied
  BY <1>21 DEF GiveUp
<1>22. ASSUME NEW m \in net, RemoteApplies(m) PROVE exits'[x].applied
  BY <1>22 DEF RemoteApplies
<1>23. ASSUME NEW m \in net, RemoteRefuses(m) PROVE exits'[x].applied
  BY <1>23 DEF RemoteRefuses
<1>24. ASSUME NEW m \in net, RemoteGetsStuck(m) PROVE exits'[x].applied
  BY <1>24 DEF RemoteGetsStuck
<1>25. ASSUME NEW m \in net, RemoteCommits(m) PROVE exits'[x].applied
  BY <1>25 DEF RemoteCommits
<1>26. ASSUME NEW m \in net, RemoteTooLate(m) PROVE exits'[x].applied
  BY <1>26 DEF RemoteTooLate
<1>27. CASE RemoteAbandons
  BY <1>27 DEF RemoteAbandons
<1>28. CASE GuardRound
  BY <1>28 DEF GuardRound
<1>29. CASE CheckBegins
  BY <1>29 DEF CheckBegins
<1>30. CASE CheckRecords
  BY <1>30 DEF CheckRecords, Judge
<1>31. CASE TakeFails
  BY <1>31 DEF TakeFails
<1>32. ASSUME NEW w \in Workers, RecordFails(w) PROVE exits'[x].applied
  BY <1>32 DEF RecordFails
<1>33. ASSUME NEW w \in Workers, RecordFailureFails(w) PROVE exits'[x].applied
  BY <1>33 DEF RecordFailureFails
<1>34. CASE Restart
  BY <1>34 DEF Restart, RecoverJobs
<1>35. CASE UNCHANGED vars
  BY <1>35 DEF vars, dbVars, gatewayVars, healthVars, sideVars
<1> QED
  BY <1>1, <1>2, <1>3, <1>4, <1>5, <1>6, <1>7, <1>8, <1>9, <1>10, <1>11, <1>12, <1>13, <1>14,
     <1>15, <1>16, <1>17, <1>18, <1>19, <1>20, <1>21, <1>22, <1>23, <1>24, <1>25, <1>26,
     <1>27, <1>28, <1>29, <1>30, <1>31, <1>32, <1>33, <1>34, <1>35
     DEF Next, Requests, Lane, Http, Shared, Remote, Health, Failures

\* No request changes a subscription while an active job deletes it, but a rotated link.
LEMMA DeletionStep ==
    ASSUME DeletionsEnd
    PROVE  TypeOK /\ JobInv /\ NetInv /\ DeletionInv /\ [Next]_vars /\ [LinkKept]_vars
              => DeletionInv'
<1> SUFFICES ASSUME TypeOK, JobInv, NetInv, DeletionInv, [Next]_vars, [LinkKept]_vars
             PROVE  DeletionInv'
  OBVIOUS
<1> USE OnlyOne, Shapes DEF DeletionInv, Workers, dbVars, gatewayVars, healthVars, sideVars
<1>1. ASSUME NEW s \in Subs, NEW e \in Exits, Register(s, e) PROVE DeletionInv'
  BY <1>1 DEF Register
<1>2. ASSUME NEW s \in Subs, NEW e \in Exits, ConfirmChange(s, e) PROVE DeletionInv'
  <2>1. NoActiveJob /\ work' = work
    BY <1>2 DEF ConfirmChange
  <2> QED BY <2>1, NobodyWorks
<1>3. ASSUME NEW s \in Subs, Activate(s) PROVE DeletionInv'
  <2>1. NoActiveJob /\ work' = work
    BY <1>3 DEF Activate, Insert
  <2> QED BY <2>1, NobodyWorks
<1>4. ASSUME NEW s \in Subs, Rotate(s) PROVE DeletionInv'
  <2>1. CASE UNCHANGED vars
    BY <2>1 DEF vars
  <2>2. CASE LinkKept
    <3>1. ~Deleting(s)
      BY <1>4, <2>2 DEF LinkKept
    <3>2. work' = work /\ net' = net /\ \A r \in Subs : r # s => subs'[r] = subs[r]
      BY <1>4, RowRotated DEF Rotate
    <3>3. work["http"].tx # None => work["http"].sub # s /\ work["http"].sub \in Subs
      BY <3>1 DEF Deleting, TypeOK, Local
    <3> QED BY <3>2, <3>3
  <2> QED BY <2>1, <2>2
<1>5. ASSUME NEW s \in Subs, DeleteLocally(s) PROVE DeletionInv'
  <2>1. NoActiveJob /\ work' = work
    BY <1>5 DEF DeleteLocally
  <2> QED BY <2>1, NobodyWorks
<1>6. ASSUME NEW s \in Subs, BeginDelete(s) PROVE DeletionInv'
  BY <1>6 DEF BeginDelete
<1>7. ASSUME NEW e \in Exits, Enqueue(e) PROVE DeletionInv'
  BY <1>7 DEF Enqueue
<1>8. ASSUME NEW e \in Exits, NEW result \in {"ok", "stale", "changed"}, IspChecked(e, result)
      PROVE  DeletionInv'
  BY <1>8 DEF IspChecked
<1>9. CASE Take
  BY <1>9 DEF Take
<1>10. CASE RecordSuccess
  BY <1>10 DEF RecordSuccess, Finish, Idle
<1>11. CASE RecordFailure
  BY <1>11 DEF RecordFailure, Finish, Idle
<1>12. CASE RecoverLane
  BY <1>12 DEF RecoverLane, Idle
<1>13. CASE RecordDelete
  BY <1>13 DEF RecordDelete, Finish, Idle
<1>14. CASE DeleteConflicts
  BY <1>14 DEF DeleteConflicts
<1>15. CASE RecordDeleteFailure
  BY <1>15 DEF RecordDeleteFailure, Finish, Idle
<1>16. ASSUME NEW w \in Workers, Desired(w) PROVE DeletionInv'
  BY <1>16 DEF Desired
<1>17. ASSUME NEW w \in Workers, NotReady(w) PROVE DeletionInv'
  BY <1>17 DEF NotReady, NetInv
<1>18. ASSUME NEW w \in Workers, ApplyAnswered(w) PROVE DeletionInv'
  BY <1>18 DEF ApplyAnswered, Answer
<1>19. ASSUME NEW w \in Workers, CommitAnswered(w) PROVE DeletionInv'
  BY <1>19 DEF CommitAnswered, Answer
<1>20. ASSUME NEW w \in Workers, Refused(w) PROVE DeletionInv'
  BY <1>20 DEF Refused, Answer, NetInv
<1>21. ASSUME NEW w \in Workers, GiveUp(w) PROVE DeletionInv'
  BY <1>21 DEF GiveUp, DeletionsEnd, NetInv
<1>22. ASSUME NEW m \in net, RemoteApplies(m) PROVE DeletionInv'
  BY <1>22 DEF RemoteApplies, Request, Send, NetInv, Gateway!Propose
<1>23. ASSUME NEW m \in net, RemoteRefuses(m) PROVE DeletionInv'
  BY <1>23 DEF RemoteRefuses, Request, Send
<1>24. ASSUME NEW m \in net, RemoteGetsStuck(m) PROVE DeletionInv'
  BY <1>24 DEF RemoteGetsStuck, Request, Send, NetInv, Gateway!Propose
<1>25. ASSUME NEW m \in net, RemoteCommits(m) PROVE DeletionInv'
  BY <1>25 DEF RemoteCommits, Request, Send, NetInv, Gateway!Accept, Gateway!Whole
<1>26. ASSUME NEW m \in net, RemoteTooLate(m) PROVE DeletionInv'
  BY <1>26 DEF RemoteTooLate, Request, Send
<1>27. CASE RemoteAbandons
  BY <1>27 DEF RemoteAbandons, Gateway!Abandon
<1>28. CASE GuardRound
  BY <1>28 DEF GuardRound
<1>29. CASE CheckBegins
  BY <1>29 DEF CheckBegins
<1>30. CASE CheckRecords
  BY <1>30 DEF CheckRecords, Judge
<1>31. CASE TakeFails
  BY <1>31 DEF TakeFails
<1>32. ASSUME NEW w \in Workers, RecordFails(w) PROVE DeletionInv'
  BY <1>32 DEF RecordFails, DeletionsEnd
<1>33. ASSUME NEW w \in Workers, RecordFailureFails(w) PROVE DeletionInv'
  BY <1>33 DEF RecordFailureFails, Idle
<1>34. CASE Restart
  BY <1>34 DEF Restart, Idle
<1>35. CASE UNCHANGED vars
  BY <1>35 DEF vars, dbVars, gatewayVars, healthVars, sideVars
<1> QED
  BY <1>1, <1>2, <1>3, <1>4, <1>5, <1>6, <1>7, <1>8, <1>9, <1>10, <1>11, <1>12, <1>13, <1>14,
     <1>15, <1>16, <1>17, <1>18, <1>19, <1>20, <1>21, <1>22, <1>23, <1>24, <1>25, <1>26,
     <1>27, <1>28, <1>29, <1>30, <1>31, <1>32, <1>33, <1>34, <1>35
     DEF Next, Requests, Lane, Http, Shared, Remote, Health, Failures

\* A version serves clients with credentials, whose rows nobody but a deletion removes.
LEMMA KnownStep ==
    TypeOK /\ JobInv /\ KnownInv /\ [Next]_vars => KnownInv'
<1> SUFFICES ASSUME TypeOK, JobInv, KnownInv, [Next]_vars PROVE KnownInv'
  OBVIOUS
<1> USE OnlyOne, Shapes DEF KnownInv, Known, dbVars, gatewayVars, healthVars, sideVars
<1>1. ASSUME NEW s \in Subs, NEW e \in Exits, Register(s, e) PROVE KnownInv'
  BY <1>1 DEF Register
<1>2. ASSUME NEW s \in Subs, NEW e \in Exits, ConfirmChange(s, e) PROVE KnownInv'
  <2>1. NoActiveJob /\ work' = work
    BY <1>2 DEF ConfirmChange
  <2> QED BY <2>1, NobodyWorks, SetsOK DEF Workers
<1>3. ASSUME NEW s \in Subs, Activate(s) PROVE KnownInv'
  <2>1. NoActiveJob /\ work' = work
    BY <1>3 DEF Activate, Insert
  <2> QED BY <2>1, NobodyWorks
<1>4. ASSUME NEW s \in Subs, Rotate(s) PROVE KnownInv'
  <2>1. work' = work /\ deleted' = deleted
    BY <1>4 DEF Rotate
  <2> QED BY <1>4, <2>1, RowRotated
<1>5. ASSUME NEW s \in Subs, DeleteLocally(s) PROVE KnownInv'
  <2>1. NoActiveJob /\ work' = work
    BY <1>5 DEF DeleteLocally
  <2> QED BY <2>1, NobodyWorks
<1>6. ASSUME NEW s \in Subs, BeginDelete(s) PROVE KnownInv'
  BY <1>6 DEF BeginDelete
<1>7. ASSUME NEW e \in Exits, Enqueue(e) PROVE KnownInv'
  BY <1>7 DEF Enqueue
<1>8. ASSUME NEW e \in Exits, NEW result \in {"ok", "stale", "changed"}, IspChecked(e, result)
      PROVE  KnownInv'
  BY <1>8 DEF IspChecked
<1>9. CASE Take
  BY <1>9 DEF Take
<1>10. CASE RecordSuccess
  <2>1. work' = [work EXCEPT !["lane"] = Idle] /\ deleted' = deleted
    BY <1>10 DEF RecordSuccess, Finish
  <2> QED BY <1>10, <2>1, RowsSucceeded DEF Idle
<1>11. CASE RecordFailure
  <2>1. work' = [work EXCEPT !["lane"] = Idle] /\ deleted' = deleted
    BY <1>11 DEF RecordFailure, Finish
  <2> QED BY <1>11, <2>1, RowsFailed DEF Idle
<1>12. CASE RecoverLane
  BY <1>12 DEF RecoverLane, Idle
<1>13. CASE RecordDelete
  <2>1. work["http"].step = "record" /\ work' = [work EXCEPT !["http"] = Idle]
    BY <1>13 DEF RecordDelete, Finish
  <2>2. \A w \in Workers : work'[w].groups = None
    BY <2>1 DEF Idle, Workers
  <2> QED BY <2>2
<1>14. CASE DeleteConflicts
  BY <1>14 DEF DeleteConflicts
<1>15. CASE RecordDeleteFailure
  BY <1>15 DEF RecordDeleteFailure, Finish, Idle
<1>16. ASSUME NEW w \in Workers, Desired(w) PROVE KnownInv'
  <2>1. PICK groups \in Groups :
           /\ work' = [work EXCEPT ![w].step = "apply", ![w].groups = groups]
           /\ \A e \in DOMAIN groups : groups[e].clients = ClientsOf(w, e)
    BY <1>16, DesiredIs
  <2>2. subs' = subs /\ deleted' = deleted
    BY <1>16 DEF Desired
  <2>3. \A s \in Subs, e \in Exits : Serves(groups, s, e) => Known(s)
    BY <2>1 DEF Serves, ClientsOf
  <2>4. work'[w].groups = groups /\ \A v \in Workers : v # w => work'[v] = work[v]
    BY <2>1 DEF TypeOK, Local
  <2> QED BY <2>2, <2>3, <2>4
<1>17. ASSUME NEW w \in Workers, NotReady(w) PROVE KnownInv'
  BY <1>17 DEF NotReady
<1>18. ASSUME NEW w \in Workers, ApplyAnswered(w) PROVE KnownInv'
  BY <1>18 DEF ApplyAnswered, Answer
<1>19. ASSUME NEW w \in Workers, CommitAnswered(w) PROVE KnownInv'
  BY <1>19 DEF CommitAnswered, Answer
<1>20. ASSUME NEW w \in Workers, Refused(w) PROVE KnownInv'
  BY <1>20 DEF Refused, Answer
<1>21. ASSUME NEW w \in Workers, GiveUp(w) PROVE KnownInv'
  BY <1>21 DEF GiveUp, DeletionsEnd, NetInv
<1>22. ASSUME NEW m \in net, RemoteApplies(m) PROVE KnownInv'
  BY <1>22 DEF RemoteApplies, Request, Send, NetInv, Gateway!Propose
<1>23. ASSUME NEW m \in net, RemoteRefuses(m) PROVE KnownInv'
  BY <1>23 DEF RemoteRefuses, Request, Send
<1>24. ASSUME NEW m \in net, RemoteGetsStuck(m) PROVE KnownInv'
  BY <1>24 DEF RemoteGetsStuck, Request, Send, NetInv, Gateway!Propose
<1>25. ASSUME NEW m \in net, RemoteCommits(m) PROVE KnownInv'
  BY <1>25 DEF RemoteCommits, Request, Send, NetInv, Gateway!Accept, Gateway!Whole
<1>26. ASSUME NEW m \in net, RemoteTooLate(m) PROVE KnownInv'
  BY <1>26 DEF RemoteTooLate, Request, Send
<1>27. CASE RemoteAbandons
  BY <1>27 DEF RemoteAbandons, Gateway!Abandon
<1>28. CASE GuardRound
  BY <1>28 DEF GuardRound
<1>29. CASE CheckBegins
  BY <1>29 DEF CheckBegins
<1>30. CASE CheckRecords
  BY <1>30 DEF CheckRecords, Judge
<1>31. CASE TakeFails
  BY <1>31 DEF TakeFails
<1>32. ASSUME NEW w \in Workers, RecordFails(w) PROVE KnownInv'
  BY <1>32 DEF RecordFails, DeletionsEnd
<1>33. ASSUME NEW w \in Workers, RecordFailureFails(w) PROVE KnownInv'
  BY <1>33 DEF RecordFailureFails, Idle
<1>34. CASE Restart
  BY <1>34 DEF Restart, Idle
<1>35. CASE UNCHANGED vars
  BY <1>35 DEF vars, dbVars, gatewayVars, healthVars, sideVars
<1> QED
  BY <1>1, <1>2, <1>3, <1>4, <1>5, <1>6, <1>7, <1>8, <1>9, <1>10, <1>11, <1>12, <1>13, <1>14,
     <1>15, <1>16, <1>17, <1>18, <1>19, <1>20, <1>21, <1>22, <1>23, <1>24, <1>25, <1>26,
     <1>27, <1>28, <1>29, <1>30, <1>31, <1>32, <1>33, <1>34, <1>35
     DEF Next, Requests, Lane, Http, Shared, Remote, Health, Failures

\* A client is READY from a record of the lane, whose version serves it, until a deletion that
\* the gateway has confirmed ends with the row.
LEMMA ReadyStep ==
    ASSUME DeletionsEnd
    PROVE  TypeOK /\ JobInv /\ NetInv /\ GatewayInv /\ DeletionInv /\ KnownInv /\ ReadyInv /\ [Next]_vars
              => ReadyInv'
<1> SUFFICES ASSUME TypeOK, JobInv, NetInv, GatewayInv, DeletionInv, KnownInv, ReadyInv, [Next]_vars
             PROVE  ReadyInv'
  OBVIOUS
<1> USE OnlyOne, Shapes
        DEF ReadyInv, Served, Settled, Leaving, Decided, dbVars, gatewayVars, healthVars, sideVars
<1>a. \A e \in Exits : exits[e].applied => exits'[e].applied
  BY StaysApplied
<1>b. \A s \in Subs : subs[s] # None => subs[s].exit \in Exits
  BY DEF TypeOK, SubRow
<1>1. ASSUME NEW s \in Subs, NEW e \in Exits, Register(s, e) PROVE ReadyInv'
  BY <1>1 DEF Register
<1>2. ASSUME NEW s \in Subs, NEW e \in Exits, ConfirmChange(s, e) PROVE ReadyInv'
  <2>1. work' = work /\ exits' = exits /\ net' = net /\ installed' = installed /\ proposal' = proposal
    BY <1>2 DEF ConfirmChange
  <2> QED BY <1>2, <2>1, RowChanged
<1>3. ASSUME NEW s \in Subs, Activate(s) PROVE ReadyInv'
  <2>1. work' = work /\ exits' = exits /\ net' = net /\ installed' = installed /\ proposal' = proposal
    BY <1>3 DEF Activate
  <2> QED BY <1>3, <2>1, RowActivated
<1>4. ASSUME NEW s \in Subs, Rotate(s) PROVE ReadyInv'
  BY <1>4 DEF Rotate
<1>5. ASSUME NEW s \in Subs, DeleteLocally(s) PROVE ReadyInv'
  BY <1>5 DEF DeleteLocally, Forget
<1>6. ASSUME NEW s \in Subs, BeginDelete(s) PROVE ReadyInv'
  <2>1. PICK t \in Tx :
           work' = [work EXCEPT !["http"] =
              [Idle EXCEPT !.step = "desired", !.tx = t, !.exit = subs[s].exit, !.sub = s,
                           !.token = subs[s].token]]
    BY <1>6 DEF BeginDelete
  <2>2. /\ work'["http"].step = "desired" /\ work'["http"].groups = None
        /\ work'["lane"] = work["lane"]
    BY <2>1 DEF Idle, Workers
  <2>3. work["http"].step = "idle"
    BY <1>6 DEF BeginDelete, Idle
  <2>4. /\ subs' = subs /\ exits' = exits /\ net' = net
        /\ installed' = installed /\ proposal' = proposal
    BY <1>6 DEF BeginDelete
  <2> QED BY <2>2, <2>3, <2>4 DEF Workers
<1>7. ASSUME NEW e \in Exits, Enqueue(e) PROVE ReadyInv'
  BY <1>7 DEF Enqueue
<1>8. ASSUME NEW e \in Exits, NEW result \in {"ok", "stale", "changed"}, IspChecked(e, result)
      PROVE  ReadyInv'
  BY <1>8 DEF IspChecked
<1>9. CASE Take
  BY <1>9 DEF Take
<1>10. CASE RecordSuccess
  <2> DEFINE groups == work["lane"].groups
  <2>1. /\ work["lane"].step = "record" /\ work["lane"].tx # None /\ work["lane"].sub = None
        /\ groups # None
    BY <1>10 DEF RecordSuccess, TypeOK, Workers
  <2>2. /\ installed.manifest # None /\ installed.config = groups /\ ~Decided
    BY <2>1 DEF GatewayInv, Holding, Workers
  <2>3. /\ work' = [work EXCEPT !["lane"] = Idle] /\ exits' = Verified(groups, TRUE)
        /\ net' = net /\ installed' = installed /\ proposal' = proposal
    BY <1>10 DEF RecordSuccess, Finish
  <2>4. \A w \in Workers : work'[w].groups = None
    BY <2>1, <2>3 DEF Idle, Workers
  <2>5. ASSUME NEW s \in Subs, Settled(s)'
        PROVE  /\ subs'[s].exit = subs[s].exit /\ Serves(groups, s, subs[s].exit)
               /\ subs'[s].client /\ exits'[subs[s].exit].applied
    <3>1. /\ subs[s] # None /\ subs[s].exit \in Exits /\ subs'[s].exit = subs[s].exit
          /\ subs'[s].client = subs[s].client
          /\ subs'[s] = subs[s] \/ Serves(groups, s, subs[s].exit)
      BY <1>10, <1>b, <2>5, RowsSucceeded
    <3>2. CASE Serves(groups, s, subs[s].exit)
      <4>1. subs[s].client
        BY <2>1, <3>1, <3>2 DEF KnownInv, Known, TypeOK, Workers
      <4>2. exits'[subs[s].exit].applied
        BY <2>3, <3>1, <3>2 DEF Verified, Serves
      <4> QED BY <3>1, <3>2, <4>1, <4>2
    <3>3. CASE subs'[s] = subs[s]
      <4>1. Settled(s)
        BY <2>5, <3>3
      <4>2. Serves(groups, s, subs[s].exit)
        BY <2>1, <4>1, SetsOK DEF Workers
      <4> QED BY <3>2, <4>2
    <3> QED BY <3>1, <3>2, <3>3
  <2> QED BY <2>2, <2>3, <2>4, <2>5
<1>11. CASE RecordFailure
  <2>1. /\ work' = [work EXCEPT !["lane"] = Idle]
        /\ net' = net /\ installed' = installed /\ proposal' = proposal
    BY <1>11 DEF RecordFailure, Finish
  <2>2. work'["lane"].groups = None /\ work'["http"] = work["http"]
    BY <2>1 DEF Idle, Workers
  <2>3. \A s \in Subs : Settled(s)' => Settled(s) /\ subs'[s] = subs[s]
    BY <1>11, RowsFailed
  <2> QED BY <1>a, <1>b, <2>1, <2>2, <2>3 DEF Workers
<1>12. CASE RecoverLane
  <2>1. /\ work' = [work EXCEPT !["lane"] = Idle] /\ subs' = subs
        /\ net' = net /\ installed' = installed /\ proposal' = proposal
    BY <1>12 DEF RecoverLane
  <2>2. work'["lane"].groups = None /\ work'["http"] = work["http"]
    BY <2>1 DEF Idle, Workers
  <2> QED BY <1>a, <1>b, <2>1, <2>2 DEF Workers
<1>13. CASE RecordDelete
  <2> DEFINE s0 == work["http"].sub
  <2>1. /\ work["http"].tx # None /\ work' = [work EXCEPT !["http"] = Idle]
        /\ subs' = [subs EXCEPT ![s0] = None]
        /\ net' = net /\ installed' = installed /\ proposal' = proposal
    BY <1>13 DEF RecordDelete, Finish, Forget, Workers
  <2>2. \A w \in Workers : work'[w].groups = None
    BY <2>1 DEF Idle, Workers
  <2>3. \A s \in Subs : Settled(s)' => s # s0 /\ Settled(s) /\ subs'[s] = subs[s]
    BY <2>1 DEF TypeOK
  <2> QED BY <1>a, <1>b, <2>1, <2>2, <2>3
<1>14. CASE DeleteConflicts
  <2>1. work["http"].tx # None
    BY <1>14 DEF DeleteConflicts, Workers
  <2> QED BY <1>14, <2>1 DEF DeleteConflicts, DeletionInv
<1>15. CASE RecordDeleteFailure
  BY <1>15 DEF RecordDeleteFailure, Finish, Idle
<1>16. ASSUME NEW w \in Workers, Desired(w) PROVE ReadyInv'
  <2>1. PICK groups \in Groups :
           /\ work' = [work EXCEPT ![w].step = "apply", ![w].groups = groups]
           /\ net' = net \cup {[kind |-> "apply-config", tx |-> work[w].tx, groups |-> groups]}
           /\ \A e \in Exits : e \in DOMAIN groups <=> exits[e].applied \/ e = work[w].exit
           /\ \A e \in DOMAIN groups : groups[e].clients = ClientsOf(w, e)
    BY <1>16, DesiredIs
  <2>2. /\ work[w].step = "desired" /\ subs' = subs /\ exits' = exits
        /\ installed' = installed /\ proposal' = proposal
    BY <1>16 DEF Desired
  <2>3. \A s \in Subs : Settled(s) /\ work[w].sub # s => Serves(groups, s, subs[s].exit)
    BY <1>b, <2>1 DEF Serves, ClientsOf
  <2>4. /\ work'[w].groups = groups /\ work'[w].sub = work[w].sub /\ work'[w].step = "apply"
        /\ work'[w].tx = work[w].tx /\ \A v \in Workers : v # w => work'[v] = work[v]
    BY <2>1 DEF TypeOK, Local
  <2>5. Decided' => Decided
    BY <2>1, <2>2
  <2>6. \A s \in Subs, t \in Tx : Leaving(s, t) => Leaving(s, t)'
    BY <2>2, <2>4 DEF Workers
  <2>7. \A s \in Subs, v \in Workers :
           Settled(s) /\ work'[v].groups # None /\ work'[v].sub # s =>
              Serves(work'[v].groups, s, subs[s].exit)
    BY <2>3, <2>4
  <2> QED BY <2>2, <2>5, <2>6, <2>7
<1>17. ASSUME NEW w \in Workers, NotReady(w) PROVE ReadyInv'
  BY <1>17 DEF NotReady
<1>18. ASSUME NEW w \in Workers, ApplyAnswered(w) PROVE ReadyInv'
  <2>1. /\ work[w].step = "apply" /\ work' = [work EXCEPT ![w].step = "commit"]
        /\ subs' = subs /\ exits' = exits /\ installed' = installed /\ proposal' = proposal
        /\ \A m \in net' : m \in net \/ m.tx = work[w].tx
    BY <1>18 DEF ApplyAnswered
  <2>2. /\ work'[w].step = "commit" /\ \A v \in Workers : v # w => work'[v] = work[v]
        /\ \A v \in Workers : /\ work'[v].groups = work[v].groups /\ work'[v].sub = work[v].sub
                              /\ work'[v].tx = work[v].tx
    BY <2>1 DEF TypeOK, Local
  <2>3. proposal # None /\ proposal.tx = work[w].tx => proposal.groups = work[w].groups
    BY <2>1 DEF GatewayInv
  <2>4. Decided' => Decided \/ (proposal # None /\ proposal.tx = work[w].tx)
    BY <2>1
  <2>5. \A s \in Subs : work[w].sub = s => w = "http"
    BY <2>1, SetsOK DEF TypeOK, Workers
  <2>6. \A s \in Subs, t \in Tx : Leaving(s, t) => Leaving(s, t)'
    BY <2>1, <2>2 DEF Workers
  <2>7. \A s \in Subs : Settled(s) /\ proposal # None /\ proposal.tx = work[w].tx =>
           Serves(proposal.groups, s, subs[s].exit) \/ Leaving(s, proposal.tx)'
    BY <2>1, <2>2, <2>3, <2>5 DEF Workers
  <2> QED BY <2>1, <2>2, <2>4, <2>6, <2>7
<1>19. ASSUME NEW w \in Workers, CommitAnswered(w) PROVE ReadyInv'
  BY <1>19 DEF CommitAnswered, Answer
<1>20. ASSUME NEW w \in Workers, Refused(w) PROVE ReadyInv'
  <2> DEFINE answer == Answer(w, "no")
  <2>1. /\ work[w].step \in {"apply", "commit"} /\ answer \in mail
        /\ answer.tx = work[w].tx /\ answer.ok = "no"
        /\ work' = [work EXCEPT ![w].step = "fail", ![w].groups = None]
        /\ subs' = subs /\ exits' = exits /\ net' = net
        /\ installed' = installed /\ proposal' = proposal
    BY <1>20 DEF Refused, Answer
  <2>2. ~Answered(w)
    <3>1. [tx |-> work[w].tx, ok |-> "committed"] # answer
      BY <2>1
    <3> QED BY <2>1, <3>1 DEF NetInv, Answered
  <2> HIDE DEF answer
  <2>3. ~Holding(work[w].tx) /\ ~(Decided /\ proposal.tx = work[w].tx)
    BY <2>1, <2>2 DEF GatewayInv, NetInv
  <2>4. work'[w].groups = None /\ \A v \in Workers : v # w => work'[v] = work[v]
    BY <2>1 DEF TypeOK, Local
  <2>5. \A s \in Subs, t \in Tx : Leaving(s, t) => t = work[w].tx \/ Leaving(s, t)'
    BY <2>1, <2>4 DEF Workers
  <2>6. ASSUME NEW s \in Subs, Settled(s)' PROVE Served(s)'
    <3>1. Settled(s) /\ subs'[s] = subs[s]
      BY <2>1, <2>6
    <3>2. Decided => Serves(proposal.groups, s, subs[s].exit) \/ Leaving(s, proposal.tx)'
      BY <2>1, <2>3, <2>5, <3>1
    <3>3. Serves(installed.config, s, subs[s].exit) \/ Leaving(s, installed.manifest.tx)'
      BY <2>1, <2>3, <2>5, <3>1 DEF Holding
    <3>4. \A v \in Workers : work'[v].groups # None /\ work'[v].sub # s =>
             Serves(work'[v].groups, s, subs[s].exit)
      BY <2>4, <3>1
    <3>5. Decided' <=> Decided
      BY <2>1
    <3>6. Served(s)
      BY <3>1
    <3> HIDE DEF Decided, Leaving, Settled
    <3> QED BY <2>1, <3>1, <3>2, <3>3, <3>4, <3>5, <3>6
  <2> QED BY <2>6
<1>21. ASSUME NEW w \in Workers, GiveUp(w) PROVE ReadyInv'
  <2>1. /\ work[w].step \in {"apply", "commit"}
        /\ w = "http" => work[w].step = "apply"
        /\ work' = [work EXCEPT ![w].step = "fail", ![w].groups = None]
        /\ subs' = subs /\ exits' = exits /\ net' = net
        /\ installed' = installed /\ proposal' = proposal
    BY <1>21 DEF GiveUp, DeletionsEnd
  <2>2. work'[w].groups = None /\ \A v \in Workers : v # w => work'[v] = work[v]
    BY <2>1 DEF TypeOK, Local
  <2>3. \A s \in Subs, t \in Tx : Leaving(s, t) => Leaving(s, t)'
    BY <2>1, <2>2 DEF Workers
  <2>4. ASSUME NEW s \in Subs, Settled(s)' PROVE Served(s)'
    <3>1. Settled(s) /\ subs'[s] = subs[s]
      BY <2>1, <2>4
    <3>2. Decided => Serves(proposal.groups, s, subs[s].exit) \/ Leaving(s, proposal.tx)'
      BY <2>1, <2>3, <3>1
    <3>3. Serves(installed.config, s, subs[s].exit) \/ Leaving(s, installed.manifest.tx)'
      BY <2>1, <2>3, <3>1
    <3>4. \A v \in Workers : work'[v].groups # None /\ work'[v].sub # s =>
             Serves(work'[v].groups, s, subs[s].exit)
      BY <2>2, <3>1
    <3>5. Decided' <=> Decided
      BY <2>1
    <3>6. Served(s)
      BY <3>1
    <3> HIDE DEF Decided, Leaving, Settled
    <3> QED BY <2>1, <3>1, <3>2, <3>3, <3>4, <3>5, <3>6
  <2> QED BY <2>4
<1>22. ASSUME NEW m \in net, RemoteApplies(m) PROVE ReadyInv'
  BY <1>22 DEF RemoteApplies, Request, Send, NetInv, Gateway!Propose
<1>23. ASSUME NEW m \in net, RemoteRefuses(m) PROVE ReadyInv'
  BY <1>23 DEF RemoteRefuses, Request, Send
<1>24. ASSUME NEW m \in net, RemoteGetsStuck(m) PROVE ReadyInv'
  BY <1>24 DEF RemoteGetsStuck, Request, Send, NetInv, Gateway!Propose
<1>25. ASSUME NEW m \in net, RemoteCommits(m) PROVE ReadyInv'
  BY <1>25 DEF RemoteCommits, Request, Send, NetInv, Gateway!Accept, Gateway!Whole
<1>26. ASSUME NEW m \in net, RemoteTooLate(m) PROVE ReadyInv'
  BY <1>26 DEF RemoteTooLate, Request, Send
<1>27. CASE RemoteAbandons
  BY <1>27 DEF RemoteAbandons, Gateway!Abandon
<1>28. CASE GuardRound
  BY <1>28 DEF GuardRound
<1>29. CASE CheckBegins
  BY <1>29 DEF CheckBegins
<1>30. CASE CheckRecords
  <2>1. /\ subs' = subs /\ work' = work /\ net' = net
        /\ installed' = installed /\ proposal' = proposal
    BY <1>30 DEF CheckRecords
  <2> QED BY <1>a, <1>b, <2>1
<1>31. CASE TakeFails
  BY <1>31 DEF TakeFails
<1>32. ASSUME NEW w \in Workers, RecordFails(w) PROVE ReadyInv'
  <2>1. /\ w = "lane" /\ work' = [work EXCEPT ![w].step = "fail", ![w].groups = None]
        /\ subs' = subs /\ exits' = exits /\ net' = net
        /\ installed' = installed /\ proposal' = proposal
    BY <1>32 DEF RecordFails, DeletionsEnd, Workers
  <2>2. work'["lane"].groups = None /\ work'["http"] = work["http"]
    BY <2>1 DEF TypeOK, Local, Workers
  <2> QED BY <2>1, <2>2 DEF Workers
<1>33. ASSUME NEW w \in Workers, RecordFailureFails(w) PROVE ReadyInv'
  BY <1>33 DEF RecordFailureFails, Idle
<1>34. CASE Restart
  <2>1. /\ <<"http", work["http"].step>> \in RestartAt /\ work' = [w \in Workers |-> Idle]
        /\ subs' = subs /\ net' = net /\ installed' = installed /\ proposal' = proposal
    BY <1>34 DEF Restart, Workers
  <2>2. work["http"].step \notin {"commit", "record"}
    BY <2>1 DEF DeletionsEnd
  <2>3. \A w \in Workers : work'[w].groups = None
    BY <2>1 DEF Idle
  <2> QED BY <1>a, <1>b, <2>1, <2>2, <2>3
<1>35. CASE UNCHANGED vars
  BY <1>35 DEF vars, dbVars, gatewayVars, healthVars, sideVars
<1> QED
  BY <1>1, <1>2, <1>3, <1>4, <1>5, <1>6, <1>7, <1>8, <1>9, <1>10, <1>11, <1>12, <1>13, <1>14,
     <1>15, <1>16, <1>17, <1>18, <1>19, <1>20, <1>21, <1>22, <1>23, <1>24, <1>25, <1>26,
     <1>27, <1>28, <1>29, <1>30, <1>31, <1>32, <1>33, <1>34, <1>35
     DEF Next, Requests, Lane, Http, Shared, Remote, Health, Failures

-----------------------------------------------------------------------------
(* Which exits show APPLYING *)

\* A deletion that ended unrecorded had begun: no such job is taken or inserted again.
StrandedInv == \A t \in stranded : Begun(t)

\* Where the job of a worker goes, and which exits its version names.
ApplyingInv ==
    /\ ApplyingIsRunning
    /\ \A w \in Workers : work[w].groups # None => work[w].exit \in DOMAIN work[w].groups

\* No exit shows APPLYING at the start.
LEMMA ApplyingInit == Init => StrandedInv /\ ApplyingInv
BY SetsOK, NoneOK
   DEF Init, StrandedInv, ApplyingInv, ApplyingIsRunning, Running, Idle, Workers, JobRow

\* Only a deletion that cannot record its failure is stranded, and it is for good.
LEMMA StrandedIs ==
    ASSUME [Next]_vars
    PROVE  \/ stranded' = stranded
           \/ /\ \E w \in Workers : RecordFailureFails(w)
              /\ work["http"].step = "fail" /\ stranded' = stranded \cup {work["http"].tx}
<1> USE DEF sideVars
<1>1. CASE Requests
  BY <1>1 DEF Requests, Register, ConfirmChange, Activate, Rotate, DeleteLocally, BeginDelete,
              Enqueue, IspChecked
<1>2. CASE Lane \/ Http
  BY <1>2 DEF Lane, Take, RecordSuccess, RecordFailure, RecoverLane, Http, RecordDelete,
              DeleteConflicts, RecordDeleteFailure
<1>3. ASSUME NEW w \in Workers, Shared(w) PROVE stranded' = stranded
  BY <1>3 DEF Shared, Desired, NotReady, ApplyAnswered, CommitAnswered, Refused, GiveUp
<1>4. CASE Remote
  BY <1>4 DEF Remote, RemoteApplies, RemoteRefuses, RemoteGetsStuck, RemoteCommits, RemoteTooLate,
              RemoteAbandons, GuardRound
<1>5. CASE Health \/ TakeFails \/ Restart \/ UNCHANGED vars
  BY <1>5 DEF Health, CheckBegins, CheckRecords, TakeFails, Restart, vars
<1>6. ASSUME NEW w \in Workers, RecordFails(w) PROVE stranded' = stranded
  BY <1>6 DEF RecordFails
<1>7. ASSUME NEW w \in Workers, RecordFailureFails(w)
      PROVE  \/ stranded' = stranded
             \/ work["http"].step = "fail" /\ stranded' = stranded \cup {work["http"].tx}
  BY <1>7 DEF RecordFailureFails, Workers
<1> QED BY <1>1, <1>2, <1>3, <1>4, <1>5, <1>6, <1>7 DEF Next, Failures

LEMMA StrandedStep == TypeOK /\ JobInv /\ StrandedInv /\ [Next]_vars => StrandedInv'
<1> SUFFICES ASSUME TypeOK, JobInv, StrandedInv, [Next]_vars, NEW t \in stranded' PROVE Begun(t)'
  BY DEF StrandedInv
<1>1. t \in Tx /\ Begun(t)
  <2>1. CASE t \in stranded
    BY <2>1 DEF StrandedInv, TypeOK
  <2>2. CASE t \notin stranded
    <3>1. work["http"].step = "fail" /\ t = work["http"].tx
      BY <2>2, StrandedIs
    <3>2. t \in Tx /\ t # None
      BY <3>1, Shapes DEF Workers
    <3> QED BY <3>1, <3>2 DEF JobInv, Running, Begun, Workers
  <2> QED BY <2>1, <2>2
<1> QED BY <1>1, BegunStays

\* The exit whose job runs is the only one to be judged anew when it ends.
LEMMA ApplyingStep ==
    ASSUME TakesSucceed
    PROVE  TypeOK /\ JobInv /\ StrandedInv /\ ApplyingInv /\ [Next]_vars => ApplyingInv'
<1> SUFFICES ASSUME TypeOK, JobInv, StrandedInv, ApplyingInv, [Next]_vars PROVE ApplyingInv'
  OBVIOUS
<1> USE Shapes, OnlyOne DEF ApplyingInv, ApplyingIsRunning, Running, dbVars, gatewayVars, healthVars, sideVars
<1>a. ASSUME \A t \in Tx : ~Running(t) PROVE \A e \in Exits : exits[e].status # "APPLYING"
  BY <1>a
<1>b. NoActiveJob => \A t \in Tx : ~Running(t)
  BY DEF NoActiveJob, Active
<1>c. ASSUME NEW e \in Exits, Insert(e, "QUEUED") PROVE \A t \in Tx : ~Running(t)'
  <2>1. PICK t \in Tx : jobs' = [jobs EXCEPT ![t] = [exit |-> e, state |-> "QUEUED"]]
    BY <1>c DEF Insert
  <2>2. \A u \in Tx : ~Running(u)
    BY <1>b, <1>c DEF Insert
  <2> QED BY <2>1, <2>2 DEF TypeOK
<1>d. ASSUME NEW e \in Exits, Insert(e, "QUEUED"), exits' = exits, work' = work PROVE ApplyingInv'
  BY <1>a, <1>b, <1>c, <1>d DEF Insert
<1>e. ASSUME jobs' = jobs, exits' = exits, stranded' = stranded,
             \A v \in Workers : /\ work'[v].tx = work[v].tx
                                /\ work'[v].groups # None => work'[v] = work[v]
      PROVE  ApplyingInv'
  BY <1>e DEF Workers
<1>1. ASSUME NEW s \in Subs, NEW e \in Exits, Register(s, e) PROVE ApplyingInv'
  BY <1>1 DEF Register
<1>2. ASSUME NEW s \in Subs, NEW e \in Exits, ConfirmChange(s, e) PROVE ApplyingInv'
  <2>1. NoActiveJob /\ exits' = exits /\ work' = work /\ stranded' = stranded
    BY <1>2 DEF ConfirmChange
  <2>2. CASE jobs' = jobs
    BY <2>1, <2>2
  <2>3. CASE Insert(e, "QUEUED")
    BY <1>d, <2>1, <2>3
  <2> QED BY <1>2, <2>2, <2>3 DEF ConfirmChange
<1>3. ASSUME NEW s \in Subs, Activate(s) PROVE ApplyingInv'
  <2>1. subs[s].exit \in Exits
    BY <1>3 DEF Activate, TypeOK, SubRow
  <2> QED BY <1>3, <1>d, <2>1 DEF Activate
<1>4. ASSUME NEW s \in Subs, Rotate(s) PROVE ApplyingInv'
  BY <1>4 DEF Rotate
<1>5. ASSUME NEW s \in Subs, DeleteLocally(s) PROVE ApplyingInv'
  BY <1>5 DEF DeleteLocally
<1>6. ASSUME NEW s \in Subs, BeginDelete(s) PROVE ApplyingInv'
  <2>1. subs[s].exit \in Exits /\ Insert(subs[s].exit, "RUNNING") /\ exits' = exits
    BY <1>6 DEF BeginDelete, TypeOK, SubRow
  <2>2. PICK t \in Tx :
           /\ jobs[t] = None /\ jobs'[t] # None
           /\ work' = [work EXCEPT !["http"] =
                 [Idle EXCEPT !.step = "desired", !.tx = t, !.exit = subs[s].exit, !.sub = s,
                              !.token = subs[s].token]]
    BY <1>6 DEF BeginDelete
  <2>3. \A u \in Tx : ~Running(u)
    BY <1>b, <2>1 DEF Insert
  <2>4. PICK x \in Tx : jobs' = [jobs EXCEPT ![x] = [exit |-> subs[s].exit, state |-> "RUNNING"]]
    BY <2>1 DEF Insert
  <2>5. \A u \in Tx : Running(u)' => u = t
    BY <2>2, <2>3, <2>4 DEF TypeOK
  <2>6. /\ work'["http"].tx = t /\ work'["http"].groups = None
        /\ work'["lane"] = work["lane"]
    BY <2>2 DEF Idle, Workers
  <2> QED BY <1>a, <2>1, <2>3, <2>5, <2>6 DEF Workers
<1>7. ASSUME NEW e \in Exits, Enqueue(e) PROVE ApplyingInv'
  BY <1>7, <1>d DEF Enqueue
<1>8. ASSUME NEW e \in Exits, NEW result \in {"ok", "stale", "changed"}, IspChecked(e, result)
      PROVE  ApplyingInv'
  BY <1>8 DEF IspChecked
<1>9. CASE Take
  <2>1. PICK t \in Tx :
           /\ jobs[t] # None /\ jobs[t].state = "QUEUED"
           /\ jobs' = [jobs EXCEPT ![t].state = "RUNNING"]
           /\ exits' = [exits EXCEPT ![jobs[t].exit].status = "APPLYING"]
           /\ work' = [work EXCEPT !["lane"] =
                 [Idle EXCEPT !.step = "desired", !.tx = t, !.exit = jobs[t].exit]]
    BY <1>9 DEF Take
  <2>2. \A u \in Tx : ~Running(u)
    BY <2>1 DEF JobInv, Active
  <2>3. \A e \in Exits : exits[e].status # "APPLYING"
    BY <1>a, <2>2
  <2>4. jobs[t].exit \in Exits /\ exits[jobs[t].exit] \in ExitRow
    BY <2>1 DEF TypeOK, JobRow
  <2>5. \A e \in Exits : exits'[e].status = "APPLYING" <=> e = jobs[t].exit
    BY <2>1, <2>3, <2>4 DEF TypeOK, ExitRow
  <2>6. jobs'[t] # None /\ jobs'[t].state = "RUNNING" /\ jobs'[t].exit = jobs[t].exit
    BY <2>1, RowEnds DEF TypeOK
  <2>7. \A u \in Tx : Running(u)' => u = t
    BY <2>1, <2>2 DEF TypeOK
  <2>8. work["http"].tx = None
    BY <2>2 DEF JobInv, Workers
  <2>9. /\ work'["http"] = work["http"] /\ work'["lane"].groups = None
    BY <2>1 DEF Idle, Workers
  <2>10. t \notin stranded'
    BY <1>9, <2>1 DEF Take, StrandedInv, Begun
  <2> QED BY <2>5, <2>6, <2>7, <2>8, <2>9, <2>10, SetsOK DEF Workers
<1>10. CASE RecordSuccess
  <2> DEFINE t == work["lane"].tx
             groups == work["lane"].groups
  <2>1. /\ t # None /\ t \in Tx /\ groups # None /\ groups \in Groups
        /\ exits' = Verified(groups, TRUE) /\ Finish("lane", "SUCCEEDED")
    BY <1>10 DEF RecordSuccess, TypeOK, Local, Workers
  <2>2. Running(t) /\ jobs[t].exit = work["lane"].exit /\ work["http"].tx = None
    BY <2>1 DEF JobInv, Workers
  <2>3. \A u \in Tx : ~Running(u)'
    BY <2>1, <2>2, JobsHaveRows, NoneRuns DEF Finish
  <2>4. \A e \in Exits : exits[e].status = "APPLYING" => e \in DOMAIN groups
    BY <2>1, <2>2 DEF JobInv, Active, Workers
  <2>5. \A e \in Exits : exits'[e].status # "APPLYING"
    BY <2>1, <2>4 DEF Verified
  <2>6. \A w \in Workers : work'[w].groups = None
    BY <2>1 DEF Finish, Idle, Workers
  <2> QED BY <2>3, <2>5, <2>6
<1>11. CASE RecordFailure
  <2> DEFINE t == work["lane"].tx
  <2>1. t # None /\ t \in Tx /\ Finish("lane", "FAILED") /\ work["lane"].exit \in Exits
    BY <1>11 DEF RecordFailure, TypeOK, Local, Workers
  <2>2. Running(t) /\ jobs[t].exit = work["lane"].exit /\ work["http"].tx = None
    BY <2>1 DEF JobInv, Workers
  <2>3. \A u \in Tx : ~Running(u)'
    BY <2>1, <2>2, JobsHaveRows, NoneRuns DEF Finish
  <2>4. \A e \in Exits : exits[e].status = "APPLYING" => e = work["lane"].exit
    BY <2>1, <2>2 DEF JobInv, Active, Workers
  <2>5. \A e \in Exits : exits'[e].status # "APPLYING"
    BY <1>11, <2>1, <2>4 DEF RecordFailure, TypeOK, ExitRow
  <2>6. \A w \in Workers : work'[w].groups = None
    BY <2>1 DEF Finish, Idle, Workers
  <2> QED BY <2>3, <2>5, <2>6
<1>12. CASE RecoverLane
  <2>1. (\A u \in Tx : ~Running(u)') /\ \A e \in Exits : exits'[e].status # "APPLYING"
    <3>1. CASE \E t \in Tx : Running(t)
      <4>1. PICK t \in Tx : /\ Running(t) /\ jobs' = [jobs EXCEPT ![t].state = "FAILED"]
                            /\ exits' = [exits EXCEPT ![jobs[t].exit].status = "UNKNOWN"]
        BY <1>12, <3>1 DEF RecoverLane, RecoverJobs, Interrupted
      <4>2. \A e \in Exits : exits[e].status = "APPLYING" => e = jobs[t].exit
        BY <4>1 DEF JobInv, Active
      <4>3. jobs[t].exit \in Exits
        BY <4>1 DEF TypeOK, JobRow
      <4>4. \A e \in Exits : exits'[e].status # "APPLYING"
        BY <4>1, <4>2, <4>3 DEF TypeOK, ExitRow
      <4> QED BY <4>1, <4>4, JobsHaveRows, NoneRuns
    <3>2. CASE ~\E t \in Tx : Running(t)
      <4>1. jobs' = jobs /\ exits' = exits
        BY <1>12, <3>2 DEF RecoverLane, RecoverJobs
      <4> QED BY <1>a, <3>2, <4>1
    <3> QED BY <3>1, <3>2
  <2>2. work'["lane"].groups = None /\ work'["http"] = work["http"]
    BY <1>12 DEF RecoverLane, Idle, Workers
  <2> QED BY <2>1, <2>2 DEF Workers
<1>13. CASE RecordDelete
  <2> DEFINE t == work["http"].tx
             groups == work["http"].groups
  <2>1. /\ t # None /\ t \in Tx /\ exits' = Verified(groups, FALSE) /\ Finish("http", "SUCCEEDED")
    BY <1>13 DEF RecordDelete, TypeOK, Local, Workers
  <2>2. Running(t)
    BY <2>1 DEF JobInv, Workers
  <2>3. \A u \in Tx : ~Running(u)'
    BY <2>1, <2>2, JobsHaveRows, NoneRuns DEF Finish
  <2>4. \A e \in Exits : exits[e].status # "APPLYING"
    BY <2>1, <2>2 DEF JobInv, Active
  <2>5. \A e \in Exits : exits'[e].status # "APPLYING"
    BY <2>1, <2>4 DEF Verified
  <2>6. \A w \in Workers : work'[w].groups = None
    BY <2>1 DEF Finish, Idle, Workers
  <2> QED BY <2>3, <2>5, <2>6
<1>14. CASE DeleteConflicts
  <2>1. /\ jobs' = jobs /\ exits' = exits /\ stranded' = stranded
        /\ work' = [work EXCEPT !["http"].step = "fail", !["http"].groups = None]
    BY <1>14 DEF DeleteConflicts
  <2>2. /\ work'["http"].groups = None /\ work'["http"].tx = work["http"].tx
        /\ \A v \in Workers : v # "http" => work'[v] = work[v]
    BY <2>1 DEF TypeOK, Local, Workers
  <2> QED BY <1>e, <2>1, <2>2
<1>15. CASE RecordDeleteFailure
  <2> DEFINE t == work["http"].tx
  <2>1. t # None /\ t \in Tx /\ exits' = exits /\ Finish("http", "FAILED")
    BY <1>15 DEF RecordDeleteFailure, TypeOK, Local, Workers
  <2>2. Running(t)
    BY <2>1 DEF JobInv, Workers
  <2>3. \A u \in Tx : ~Running(u)'
    BY <2>1, <2>2, JobsHaveRows, NoneRuns DEF Finish
  <2>4. \A e \in Exits : exits[e].status # "APPLYING"
    BY <2>1, <2>2 DEF JobInv, Active
  <2>5. \A w \in Workers : work'[w].groups = None
    BY <2>1 DEF Finish, Idle, Workers
  <2> QED BY <2>1, <2>3, <2>4, <2>5
<1>16. ASSUME NEW w \in Workers, Desired(w) PROVE ApplyingInv'
  <2>1. PICK groups \in Groups :
           /\ work' = [work EXCEPT ![w].step = "apply", ![w].groups = groups]
           /\ \A e \in Exits : e \in DOMAIN groups <=> exits[e].applied \/ e = work[w].exit
    BY <1>16, DesiredIs
  <2>2. work[w].exit \in Exits /\ jobs' = jobs /\ exits' = exits /\ stranded' = stranded
    BY <1>16 DEF Desired, TypeOK, Local
  <2>3. /\ work'[w].groups = groups /\ work'[w].exit = work[w].exit
        /\ \A v \in Workers : v # w => work'[v] = work[v]
        /\ \A v \in Workers : work'[v].tx = work[v].tx
    BY <2>1 DEF TypeOK, Local
  <2> QED BY <2>1, <2>2, <2>3 DEF Workers
<1>17. ASSUME NEW w \in Workers, NotReady(w) PROVE ApplyingInv'
  BY <1>17 DEF NotReady
<1>18. ASSUME NEW w \in Workers, ApplyAnswered(w) PROVE ApplyingInv'
  BY <1>18 DEF ApplyAnswered, Answer
<1>19. ASSUME NEW w \in Workers, CommitAnswered(w) PROVE ApplyingInv'
  BY <1>19 DEF CommitAnswered, Answer
<1>20. ASSUME NEW w \in Workers, Refused(w) PROVE ApplyingInv'
  <2>1. /\ jobs' = jobs /\ exits' = exits /\ stranded' = stranded
        /\ work' = [work EXCEPT ![w].step = "fail", ![w].groups = None]
    BY <1>20 DEF Refused
  <2>2. /\ work'[w].groups = None /\ work'[w].tx = work[w].tx
        /\ \A v \in Workers : v # w => work'[v] = work[v]
    BY <2>1 DEF TypeOK, Local, Workers
  <2> QED BY <1>e, <2>1, <2>2
<1>21. ASSUME NEW w \in Workers, GiveUp(w) PROVE ApplyingInv'
  <2>1. /\ jobs' = jobs /\ exits' = exits /\ stranded' = stranded
        /\ work' = [work EXCEPT ![w].step = "fail", ![w].groups = None]
    BY <1>21 DEF GiveUp
  <2>2. /\ work'[w].groups = None /\ work'[w].tx = work[w].tx
        /\ \A v \in Workers : v # w => work'[v] = work[v]
    BY <2>1 DEF TypeOK, Local, Workers
  <2> QED BY <1>e, <2>1, <2>2
<1>22. ASSUME NEW m \in net, RemoteApplies(m) PROVE ApplyingInv'
  BY <1>22 DEF RemoteApplies, Request, Send
<1>23. ASSUME NEW m \in net, RemoteRefuses(m) PROVE ApplyingInv'
  BY <1>23 DEF RemoteRefuses, Request, Send
<1>24. ASSUME NEW m \in net, RemoteGetsStuck(m) PROVE ApplyingInv'
  BY <1>24 DEF RemoteGetsStuck, Request, Send
<1>25. ASSUME NEW m \in net, RemoteCommits(m) PROVE ApplyingInv'
  BY <1>25 DEF RemoteCommits, Request, Send
<1>26. ASSUME NEW m \in net, RemoteTooLate(m) PROVE ApplyingInv'
  BY <1>26 DEF RemoteTooLate, Request, Send
<1>27. CASE RemoteAbandons
  BY <1>27 DEF RemoteAbandons
<1>28. CASE GuardRound
  BY <1>28 DEF GuardRound
<1>29. CASE CheckBegins
  BY <1>29 DEF CheckBegins
<1>30. CASE CheckRecords
  <2>1. jobs' = jobs /\ work' = work
    BY <1>30 DEF CheckRecords
  <2>2. CASE \E t \in Tx : Running(t)
    BY <1>30, <2>1, <2>2 DEF CheckRecords
  <2>3. CASE ~\E t \in Tx : Running(t)
    BY <1>30, <1>a, <2>1, <2>3 DEF CheckRecords, Judge
  <2> QED BY <2>2, <2>3
<1>31. CASE TakeFails
  BY <1>31 DEF TakeFails, TakesSucceed
<1>32. ASSUME NEW w \in Workers, RecordFails(w) PROVE ApplyingInv'
  <2>1. /\ jobs' = jobs /\ exits' = exits /\ stranded' = stranded
        /\ work' = [work EXCEPT ![w].step = "fail", ![w].groups = None]
    BY <1>32 DEF RecordFails
  <2>2. /\ work'[w].groups = None /\ work'[w].tx = work[w].tx
        /\ \A v \in Workers : v # w => work'[v] = work[v]
    BY <2>1 DEF TypeOK, Local, Workers
  <2> QED BY <1>e, <2>1, <2>2
<1>33. ASSUME NEW w \in Workers, RecordFailureFails(w) PROVE ApplyingInv'
  <2>1. jobs' = jobs /\ exits' = exits
    BY <1>33 DEF RecordFailureFails
  <2>2. CASE w = "lane"
    <3>1. /\ work' = [work EXCEPT !["lane"] = [Idle EXCEPT !.step = "recover"]]
          /\ stranded' = stranded
      BY <1>33, <2>2 DEF RecordFailureFails
    <3>2. work'["lane"].groups = None /\ work'["http"] = work["http"]
      BY <3>1 DEF Idle, Workers
    <3> QED BY <2>1, <3>1, <3>2 DEF Workers
  <2>3. CASE w = "http"
    <3> DEFINE t == work["http"].tx
    <3>1. work' = [work EXCEPT !["http"] = Idle] /\ stranded' = stranded \cup {t}
      BY <1>33, <2>3 DEF RecordFailureFails
    <3>2. t \in Tx /\ t # None
      BY <1>33, <2>3 DEF RecordFailureFails, Workers
    <3>3. \A u \in Tx : Running(u) => u = t
      BY <3>2 DEF JobInv, Active, Workers
    <3>4. \A e \in Exits : exits[e].status # "APPLYING"
      BY <3>3
    <3>5. /\ work'["http"].groups = None /\ work'["lane"] = work["lane"]
      BY <3>1 DEF Idle, Workers
    <3> QED BY <2>1, <3>1, <3>3, <3>4, <3>5 DEF Workers
  <2> QED BY <2>2, <2>3 DEF Workers
<1>34. CASE Restart
  <2>1. (\A u \in Tx : ~Running(u)') /\ \A e \in Exits : exits'[e].status # "APPLYING"
    <3>1. CASE \E t \in Tx : Running(t)
      <4>1. PICK t \in Tx : /\ Running(t) /\ jobs' = [jobs EXCEPT ![t].state = "FAILED"]
                            /\ exits' = [exits EXCEPT ![jobs[t].exit].status = "UNKNOWN"]
        BY <1>34, <3>1 DEF Restart, RecoverJobs, Interrupted
      <4>2. \A e \in Exits : exits[e].status = "APPLYING" => e = jobs[t].exit
        BY <4>1 DEF JobInv, Active
      <4>3. jobs[t].exit \in Exits
        BY <4>1 DEF TypeOK, JobRow
      <4>4. \A e \in Exits : exits'[e].status # "APPLYING"
        BY <4>1, <4>2, <4>3 DEF TypeOK, ExitRow
      <4> QED BY <4>1, <4>4, JobsHaveRows, NoneRuns
    <3>2. CASE ~\E t \in Tx : Running(t)
      <4>1. jobs' = jobs /\ exits' = exits
        BY <1>34, <3>2 DEF Restart, RecoverJobs
      <4> QED BY <1>a, <3>2, <4>1
    <3> QED BY <3>1, <3>2
  <2>2. \A w \in Workers : work'[w].groups = None
    BY <1>34 DEF Restart, Idle
  <2> QED BY <2>1, <2>2
<1>35. CASE UNCHANGED vars
  BY <1>35 DEF vars, dbVars, gatewayVars, healthVars, sideVars
<1> QED
  BY <1>1, <1>2, <1>3, <1>4, <1>5, <1>6, <1>7, <1>8, <1>9, <1>10, <1>11, <1>12, <1>13, <1>14,
     <1>15, <1>16, <1>17, <1>18, <1>19, <1>20, <1>21, <1>22, <1>23, <1>24, <1>25, <1>26,
     <1>27, <1>28, <1>29, <1>30, <1>31, <1>32, <1>33, <1>34, <1>35
     DEF Next, Requests, Lane, Http, Shared, Remote, Health, Failures

-----------------------------------------------------------------------------
(* Theorems that need the hypotheses on failures *)

\* A client whose link is handed out as READY is configured on the gateway, by the exit it names,
\* unless it is being deleted: no later job, deletion of another client, rollback or late request
\* takes it away.
THEOREM ReadyClientsAreDeployed ==
    ASSUME TakesSucceed, DeletionsEnd
    PROVE  Spec /\ [][LinkKept]_vars => []ReadyIsDeployed
<1> DEFINE RInv == DeletionInv /\ KnownInv /\ ReadyInv
<1>1. Init => RInv
  BY ReadyInit
<1>2. IInv /\ RInv /\ [Next]_vars /\ [LinkKept]_vars => RInv'
  BY DeletionStep, KnownStep, ReadyStep DEF IInv
<1>3. ASSUME RInv PROVE ReadyIsDeployed
  <2> SUFFICES ASSUME NEW s \in Subs, Settled(s), ~Deleting(s)
               PROVE  Serves(installed.config, s, subs[s].exit)
    BY DEF ReadyIsDeployed, Settled
  <2>1. Served(s)
    BY <1>3 DEF ReadyInv
  <2> QED BY <2>1 DEF Served, Leaving, Deleting
<1> HIDE DEF RInv
<1>4. RInv => ReadyIsDeployed
  BY <1>3
<1> QED BY <1>1, <1>2, <1>4, IInvHolds, PTL DEF Spec

\* An exit shows APPLYING exactly while the lane's job for it runs, and not because of a deletion
\* that left its row RUNNING.
THEOREM ApplyingMeansRunning == ASSUME TakesSucceed PROVE Spec => []ApplyingIsRunning
<1>1. Init => StrandedInv /\ ApplyingInv
  BY ApplyingInit
<1>2. IInv /\ StrandedInv /\ ApplyingInv /\ [Next]_vars => (StrandedInv /\ ApplyingInv)'
  BY StrandedStep, ApplyingStep DEF IInv
<1>3. ApplyingInv => ApplyingIsRunning
  BY DEF ApplyingInv
<1> QED BY <1>1, <1>2, <1>3, IInvHolds, PTL DEF Spec

-----------------------------------------------------------------------------
(* What JobsFinish rests on: a job that runs has somebody to end it. *)

\* A job that is RUNNING, which keeps every other one out, is worked on by a thread that will end
\* its row, or the lane has yet to clean up, or it is a deletion that could not record its failure.
RunningHasWorker ==
    \A t \in Tx : Running(t) =>
        \/ \E w \in Workers : work[w].tx = t
        \/ work["lane"].step = "recover"
        \/ t \in stranded

\* A worker lets go of a job in the step that ends it; who cannot record the end leaves the rest
\* to the lane's recovery.
LEMMA WorkerStep == TypeOK /\ RowInv /\ RunningHasWorker /\ [Next]_vars => RunningHasWorker'
<1> SUFFICES ASSUME TypeOK, RowInv, RunningHasWorker, [Next]_vars PROVE RunningHasWorker'
  OBVIOUS
<1>0. stranded \subseteq stranded'
  BY StrandedIs
<1> USE <1>0 DEF RunningHasWorker
<1>a. ASSUME \A t \in Tx : Running(t)' => Running(t),
             \A v \in Workers : work'[v].tx = work[v].tx,
             work["lane"].step = "recover" => work'["lane"].step = "recover"
      PROVE  RunningHasWorker'
  BY <1>a
<1>b. NoActiveJob => \A t \in Tx : ~Running(t)
  BY DEF NoActiveJob, Active, Running
<1>d. ASSUME UNCHANGED <<jobs, work>> PROVE RunningHasWorker'
  BY <1>d DEF Running
<1>e. ASSUME NEW w \in Workers, work[w].tx # None, UNCHANGED jobs,
             work'[w].tx = work[w].tx, \A v \in Workers : v # w => work'[v] = work[v]
      PROVE  RunningHasWorker'
  <2>1. work[w].step # "recover"
    BY <1>e, Shapes
  <2> QED BY <1>a, <1>e, <2>1 DEF Running, Workers
<1>f. ASSUME NEW w \in Workers, NEW state \in {"SUCCEEDED", "FAILED"}, work[w].tx # None,
             Finish(w, state)
      PROVE  RunningHasWorker'
  <2>1. work[w].tx \in Tx /\ jobs[work[w].tx] # None
    BY <1>f, Shapes DEF RowInv
  <2>2. jobs'[work[w].tx].state = state /\ \A t \in Tx : t # work[w].tx => jobs'[t] = jobs[t]
    BY <1>f, <2>1, RowEnds DEF Finish, TypeOK
  <2>3. \A t \in Tx : Running(t)' => Running(t) /\ t # work[w].tx
    BY <2>2 DEF Running
  <2>4. \A v \in Workers : v # w => work'[v] = work[v]
    BY <1>f, Shapes DEF Finish
  <2>5. work[w].step # "recover"
    BY <1>f, Shapes
  <2>6. work["lane"].step = "recover" => work'["lane"].step = "recover"
    BY <2>4, <2>5 DEF Workers
  <2> QED BY <2>3, <2>4, <2>6
<1>1. ASSUME NEW s \in Subs, NEW e \in Exits, ConfirmChange(s, e) PROVE RunningHasWorker'
  BY <1>1, <1>d, Queued DEF ConfirmChange
<1>2. ASSUME NEW s \in Subs, Activate(s) PROVE RunningHasWorker'
  <2>1. subs[s].exit \in Exits
    BY <1>2 DEF Activate, TypeOK, SubRow
  <2> QED BY <1>2, <2>1, Queued DEF Activate
<1>3. ASSUME NEW e \in Exits, Enqueue(e) PROVE RunningHasWorker'
  BY <1>3, Queued DEF Enqueue
<1>4. ASSUME NEW s \in Subs, BeginDelete(s) PROVE RunningHasWorker'
  <2>1. PICK x \in Tx : jobs' = [jobs EXCEPT ![x] = [exit |-> subs[s].exit, state |-> "RUNNING"]]
    BY <1>4 DEF BeginDelete, Insert
  <2>2. PICK t \in Tx :
           /\ jobs[t] = None /\ jobs'[t] # None
           /\ work' = [work EXCEPT !["http"] =
                 [Idle EXCEPT !.step = "desired", !.tx = t, !.exit = subs[s].exit, !.sub = s,
                              !.token = subs[s].token]]
    BY <1>4 DEF BeginDelete
  <2>3. \A u \in Tx : Running(u)' => u = t
    BY <1>4, <1>b, <2>1, <2>2 DEF BeginDelete, Insert, TypeOK, Running
  <2>4. work'["http"].tx = t
    BY <2>2, Shapes DEF Idle, Workers
  <2> QED BY <2>3, <2>4 DEF Workers
<1>5. CASE Take
  <2>1. PICK t \in Tx :
           /\ jobs[t] # None /\ jobs[t].state = "QUEUED"
           /\ jobs' = [jobs EXCEPT ![t].state = "RUNNING"]
           /\ work' = [work EXCEPT !["lane"] =
                 [Idle EXCEPT !.step = "desired", !.tx = t, !.exit = jobs[t].exit]]
    BY <1>5 DEF Take
  <2>2. \A u \in Tx : Running(u)' => u = t
    BY <2>1 DEF RowInv, Active, Running, TypeOK
  <2>3. work'["lane"].tx = t
    BY <2>1, Shapes DEF Idle, Workers
  <2> QED BY <2>2, <2>3 DEF Workers
<1>6. CASE RecordSuccess \/ RecordFailure
  <2>1. work["lane"].tx # None
    BY <1>6, Shapes DEF RecordSuccess, RecordFailure, Workers
  <2>2. Finish("lane", "SUCCEEDED") \/ Finish("lane", "FAILED")
    BY <1>6 DEF RecordSuccess, RecordFailure
  <2> QED BY <1>f, <2>1, <2>2 DEF Workers
<1>7. CASE RecordDelete \/ RecordDeleteFailure
  <2>1. work["http"].tx # None
    BY <1>7, Shapes DEF RecordDelete, RecordDeleteFailure, Workers
  <2>2. Finish("http", "SUCCEEDED") \/ Finish("http", "FAILED")
    BY <1>7 DEF RecordDelete, RecordDeleteFailure
  <2> QED BY <1>f, <2>1, <2>2 DEF Workers
<1>8. CASE RecoverLane \/ Restart
  BY <1>8, Recovered DEF RecoverLane, Restart
<1>9. CASE DeleteConflicts
  <2>1. work["http"].tx # None /\ UNCHANGED jobs
    BY <1>9, Shapes DEF DeleteConflicts, dbVars, Workers
  <2>2. /\ work'["http"].tx = work["http"].tx
        /\ \A v \in Workers : v # "http" => work'[v] = work[v]
    BY <1>9 DEF DeleteConflicts, TypeOK, Local, Workers
  <2> QED BY <1>e, <2>1, <2>2 DEF Workers
<1>10. ASSUME NEW w \in Workers, Shared(w) \/ RecordFails(w) PROVE RunningHasWorker'
  <2>1. work[w].tx # None /\ UNCHANGED jobs
    BY <1>10, Shapes DEF Shared, Desired, NotReady, ApplyAnswered, CommitAnswered, Refused, GiveUp,
                         RecordFails, dbVars
  <2>2. \/ \E step \in Steps : work' = [work EXCEPT ![w].step = step]
        \/ \E step \in Steps, groups \in Groups \cup {None} :
              work' = [work EXCEPT ![w].step = step, ![w].groups = groups]
    <3>1. CASE Desired(w)
      BY <3>1, DesiredIs DEF Steps
    <3>2. CASE NotReady(w) \/ ApplyAnswered(w) \/ CommitAnswered(w)
      BY <3>2 DEF NotReady, ApplyAnswered, CommitAnswered, Steps
    <3>3. CASE Refused(w) \/ GiveUp(w) \/ RecordFails(w)
      BY <3>3 DEF Refused, GiveUp, RecordFails, Steps
    <3> QED BY <1>10, <3>1, <3>2, <3>3 DEF Shared
  <2>3. work'[w].tx = work[w].tx /\ \A v \in Workers : v # w => work'[v] = work[v]
    BY <2>2 DEF TypeOK, Local
  <2> QED BY <1>e, <2>1, <2>3
<1>11. ASSUME NEW w \in Workers, RecordFailureFails(w) PROVE RunningHasWorker'
  <2>1. CASE w = "lane"
    <3>1. work'["lane"].step = "recover"
      BY <1>11, <2>1, Shapes DEF RecordFailureFails, Idle, Workers
    <3> QED BY <3>1
  <2>2. CASE w = "http"
    <3>1. /\ UNCHANGED jobs /\ work["http"].tx \in stranded'
          /\ work' = [work EXCEPT !["http"] = Idle]
      BY <1>11, <2>2 DEF RecordFailureFails, dbVars
    <3>2. work'["lane"] = work["lane"]
      BY <3>1, Shapes DEF Workers
    <3>3. \A t \in Tx : Running(t)' <=> Running(t)
      BY <3>1 DEF Running
    <3> QED BY <3>1, <3>2, <3>3 DEF Workers
  <2> QED BY <2>1, <2>2 DEF Workers
<1>12. CASE TakeFails
  BY <1>12, Shapes DEF TakeFails, Workers
<1>13. CASE (\E s \in Subs, e \in Exits : Register(s, e)) \/ (\E s \in Subs : Rotate(s) \/ DeleteLocally(s))
            \/ (\E e \in Exits, result \in {"ok", "stale", "changed"} : IspChecked(e, result))
            \/ Remote \/ Health \/ UNCHANGED vars
  BY <1>13, <1>d
     DEF Register, Rotate, DeleteLocally, IspChecked, Remote, RemoteApplies, RemoteRefuses,
         RemoteGetsStuck, RemoteCommits, RemoteTooLate, RemoteAbandons, GuardRound, Health,
         CheckBegins, CheckRecords, dbVars, vars
<1> QED
  BY <1>1, <1>2, <1>3, <1>4, <1>5, <1>6, <1>7, <1>8, <1>9, <1>10, <1>11, <1>12, <1>13
     DEF Next, Requests, Lane, Http, Failures

\* No gateway is kept busy by a RUNNING row that nobody will end, but for the row of a deletion
\* whose failure could not be recorded.
THEOREM JobsHaveWorkers == Spec => []RunningHasWorker
<1>1. Init => RunningHasWorker
  BY SetsOK DEF Init, RunningHasWorker, Running
<1> QED BY <1>1, WorkerStep, RowAlways, PTL DEF Spec

=============================================================================
