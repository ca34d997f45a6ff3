-------------------------- MODULE IspIdentityProofs --------------------------
(***************************************************************************)
(* Proofs about IspIdentity, for any number of ISPs, exits, gateways,      *)
(* requests, addresses, secrets and faults, and any initial state the      *)
(* module allows.                                                          *)
(***************************************************************************)
EXTENDS IspIdentity, TLAPS

\* What is queued, checked or bound is there: delete() refuses it.
BoundInv ==
    /\ \A n \in DOMAIN queue : row[queue[n]] # None
    /\ lane # Free => row[lane.isp] # None
    /\ \A e \in Exits : exit[e] # None => row[IspOf[e]] # None
    /\ worker.step \in {"secrets", "apply", "success"} =>
           \A e \in DOMAIN worker.refs : e \in Exits /\ exit[e] # None

RowsInv == TypeOK /\ BoundInv

\* Nothing, or ISPs that have been checked and deployed.
LEMMA RowsInit == Init => RowsInv
<1> SUFFICES ASSUME Init PROVE RowsInv
  OBVIOUS
<1>1. PICK ip \in IPs, order \in [Isps -> Refs] :
         /\ row = [i \in Isps |-> IF i \in Ready THEN Checked(ip, order[i]) ELSE None]
         /\ remote = [e \in Exits |-> IF e \in Deployed THEN order[IspOf[e]] ELSE None]
  BY DEF Init
<1>2. /\ row \in [Isps -> IspRow \cup {None}]
      /\ \A i \in Ready : row[i] \in IspRow
  <2>1. \A i \in Isps : Checked(ip, order[i]) \in IspRow
    BY DEF Checked, IspRow, Statuses
  <2> QED BY <1>1, <2>1 DEF Ready
<1>3. remote \in [Exits -> Refs \cup {None}]
  BY <1>1, TopologyOK
<1>4. exit \in [Exits -> BOOLEAN \cup {None}] /\ exitjob \in [Gateways -> ExitJob \cup {None}]
  BY DEF Init
<1>5. puts \in 0..MaxSecrets /\ secrets \subseteq 1..puts
  BY DEF Init
<1>6. /\ queue \in Seq(Isps) /\ lane \in Lanes /\ worker \in Workers
      /\ request \in [Requests -> Pending]
  BY DEF Init, Lanes, Workers, Pending
<1>7. TypeOK
  BY <1>2, <1>3, <1>4, <1>5, <1>6, TopologyOK DEF TypeOK, Init
<1>8. \A e \in Exits : exit[e] # None => row[IspOf[e]] # None
  <2> SUFFICES ASSUME NEW e \in Exits, exit[e] # None PROVE row[IspOf[e]] # None
    OBVIOUS
  <2>1. e \in Deployed
    BY DEF Init
  <2>2. IspOf[e] \in Ready
    BY <2>1, TopologyOK DEF Ready
  <2> QED BY <1>2, <2>2, TopologyOK
<1>9. BoundInv
  <2>1. queue = <<>> /\ lane = Free /\ worker.step = "idle"
    BY DEF Init, Free
  <2> QED BY <1>8, <2>1 DEF BoundInv
<1> QED BY <1>7, <1>9 DEF RowsInv

\* A row is replaced by a row.
LEMMA RowReplaced ==
    ASSUME RowsInv, NEW i \in Isps, NEW r \in IspRow, row' = [row EXCEPT ![i] = r]
    PROVE  /\ row' \in [Isps -> IspRow \cup {None}]
           /\ \A j \in Isps : row[j] # None => row'[j] # None
BY TopologyOK DEF RowsInv, TypeOK

\* One lemma for each group of actions: the rows, and what the threads read of them, stay what
\* they are, and nothing that is used is deleted.
LEMMA RequestRows ==
    ASSUME RowsInv, NEW a \in Requests, RequestSteps(a) PROVE RowsInv'
<1> USE TopologyOK DEF
      RowsInv, TypeOK, BoundInv, ispVars, exitVars, Become, At, Put, Discard, Strike, Free,
      Pending, Refs, IspRow, Statuses, Bound, BusyIsp, Checking
<1>1. ASSUME NEW i \in Isps, NEW ip \in IPs \cup {None}, NEW expired \in BOOLEAN,
             Register(a, i, ip, expired)
      PROVE  RowsInv'
  BY <1>1 DEF Register
<1>2. CASE Insert(a) BY <1>2 DEF Insert
<1>3. CASE InsertFails(a) BY <1>3 DEF InsertFails
<1>4. ASSUME NEW i \in Isps, NEW expired \in BOOLEAN, BeginEdit(a, i, expired) PROVE RowsInv'
  BY <1>4 DEF BeginEdit
<1>5. ASSUME NEW ip \in IPs \cup {None}, ProbeNew(a, ip) PROVE RowsInv'
  BY <1>5 DEF ProbeNew
<1>6. ASSUME NEW ip \in IPs \cup {None}, RefuseNew(a, ip) PROVE RowsInv'
  BY <1>6 DEF RefuseNew
<1>7. CASE CommitEdit(a)
  <2> DEFINE q == request[a]
             pinned == row[q.isp].expected
             crossed == q.expected = None /\ pinned # None
             r == [ref |-> q.new, expected |-> IF pinned = None THEN q.ip ELSE pinned,
                   current |-> q.ip, status |-> "HEALTHY", expired |-> q.expired,
                   crossed |-> crossed]
  <2>1. /\ q.isp \in Isps /\ q.new \in Refs /\ q.old \in Refs /\ q.ip \in IPs
        /\ q.expired \in BOOLEAN /\ row[q.isp] \in IspRow
    BY <1>7 DEF CommitEdit, MayCommit
  <2>2. crossed \in BOOLEAN
    OBVIOUS
  <2>3. r \in IspRow
    <3> HIDE DEF crossed
    <3> QED BY <2>1, <2>2
  <2>4. row' = [row EXCEPT ![q.isp] = r]
    BY <1>7 DEF CommitEdit, Store
  <2> HIDE DEF r
  <2>5. /\ row' \in [Isps -> IspRow \cup {None}]
        /\ \A j \in Isps : row[j] # None => row'[j] # None
    BY <2>1, <2>3, <2>4
  <2> HIDE DEF q
  <2>6. exitjob' \in [Gateways -> ExitJob \cup {None}] /\ raced' \subseteq Exits
    BY <1>7, <2>1 DEF CommitEdit, QueueAffected, Affected, ExitJob, Race
  <2>7. request' \in [Requests -> Pending]
    <3>1. request' = [request EXCEPT ![a] = [step |-> "discard", ref |-> q.old]]
      BY <1>7 DEF CommitEdit, q
    <3> QED BY <2>1, <3>1
  <2>8. UNCHANGED <<secrets, puts, queue, lane, exit, failed, worker, remote, faults>>
    BY <1>7 DEF CommitEdit
  <2> HIDE DEF Pending, IspRow, Statuses, Refs
  <2>9. TypeOK'
    BY <2>5, <2>6, <2>7, <2>8
  <2>10. BoundInv'
    <3>1. \A n \in DOMAIN queue : queue[n] \in Isps
      OBVIOUS
    <3>2. lane # Free => lane.isp \in Isps
      BY DEF Lanes
    <3> QED BY <2>5, <2>8, <3>1, <3>2
  <2> QED BY <2>9, <2>10
<1>8. CASE CommitEditFails(a)
  <2>1. request[a].new \in Refs
    BY <1>8 DEF CommitEditFails
  <2>2. request' \in [Requests -> Pending]
    BY <1>8, <2>1 DEF CommitEditFails
  <2> QED BY <1>8, <2>2 DEF CommitEditFails
<1>9. CASE DiscardSecret(a) BY <1>9 DEF DiscardSecret
<1>10. ASSUME NEW i \in Isps, Delete(a, i) PROVE RowsInv'
  BY <1>10 DEF Delete
<1>11. ASSUME NEW e \in Exits, BeginBind(a, e) PROVE RowsInv'
  BY <1>11 DEF BeginBind
<1>12. CASE Bind(a) BY <1>12 DEF Bind
<1> QED
  BY <1>1, <1>2, <1>3, <1>4, <1>5, <1>6, <1>7, <1>8, <1>9, <1>10, <1>11, <1>12
     DEF RequestSteps, Measured

\* The same for the isp lane, which changes the row of the ISP it checks ...
LEMMA IspLaneRows ==
    ASSUME RowsInv, IspLane PROVE RowsInv'
<1> USE TopologyOK DEF RowsInv, ispVars, exitVars, Free
<1>1. CASE TakeCheck
  <2> DEFINE i == Head(queue)
  <2>1. queue \in Seq(Isps) /\ queue # <<>>
    BY <1>1 DEF TakeCheck, TypeOK
  <2>2. /\ i \in Isps /\ i = queue[1] /\ 1 \in DOMAIN queue
        /\ Tail(queue) \in Seq(Isps)
        /\ \A n \in DOMAIN Tail(queue) : n + 1 \in DOMAIN queue /\ Tail(queue)[n] = queue[n + 1]
    BY <2>1
  <2>3. row[i] \in IspRow
    BY <2>2 DEF TypeOK, BoundInv
  <2>4. row' = [row EXCEPT ![i] = [row[i] EXCEPT !.status = "CHECKING"]]
    BY <1>1 DEF TakeCheck
  <2>5. [row[i] EXCEPT !.status = "CHECKING"] \in IspRow
    BY <2>3 DEF IspRow, Statuses
  <2>6. /\ row' \in [Isps -> IspRow \cup {None}]
        /\ \A j \in Isps : row[j] # None => row'[j] # None
    BY <2>2, <2>4, <2>5, RowReplaced
  <2>7. lane' \in Lanes /\ lane'.isp = i
    BY <1>1, <2>2, <2>3 DEF TakeCheck, Lanes, IspRow
  <2>8. TypeOK'
    BY <1>1, <2>2, <2>6, <2>7 DEF TakeCheck, TypeOK
  <2>9. BoundInv'
    BY <1>1, <2>1, <2>2, <2>3, <2>6, <2>7 DEF TakeCheck, BoundInv, TypeOK
  <2> QED BY <2>8, <2>9
<1>2. ASSUME NEW ip \in IPs \cup {None}, ProbeIsp(ip) PROVE RowsInv'
  BY <1>2 DEF ProbeIsp, TypeOK, BoundInv, Lanes
<1>3. CASE RecordCheck
  <2>1. lane.isp \in Isps /\ lane.actual \in IPs \cup {None} /\ lane # Free
    BY <1>3 DEF RecordCheck, TypeOK, Lanes
  <2>2. row[lane.isp] \in IspRow
    BY <2>1 DEF TypeOK, BoundInv
  <2>3. PICK r \in IspRow : row' = [row EXCEPT ![lane.isp] = r]
    <3> DEFINE pin == row[lane.isp].expected
               expected == IF pin = None THEN lane.actual ELSE pin
               health == IF lane.actual # None /\ expected = lane.actual /\ ~row[lane.isp].expired
                         THEN "HEALTHY" ELSE "CRITICAL"
               r == [row[lane.isp] EXCEPT !.expected = expected, !.current = lane.actual,
                                          !.crossed = FALSE, !.status = health]
    <3>1. r \in IspRow
      BY <2>1, <2>2 DEF IspRow, Statuses
    <3>2. row' = [row EXCEPT ![lane.isp] = r]
      BY <1>3, <2>1, <2>2 DEF RecordCheck, Record, TypeOK
    <3> QED BY <3>1, <3>2
  <2>4. /\ row' \in [Isps -> IspRow \cup {None}]
        /\ \A j \in Isps : row[j] # None => row'[j] # None
    BY <2>1, <2>3, RowReplaced
  <2>5. TypeOK'
    BY <1>3, <2>4 DEF RecordCheck, TypeOK, Lanes
  <2>6. BoundInv'
    BY <1>3, <2>4 DEF RecordCheck, BoundInv, TypeOK
  <2> QED BY <2>5, <2>6
<1>4. CASE RecoverLane
  <2>1. lane.isp \in Isps /\ lane # Free
    BY <1>4 DEF RecoverLane, TypeOK, Lanes
  <2>2. row[lane.isp] \in IspRow
    BY <2>1 DEF TypeOK, BoundInv
  <2>3. row' = [row EXCEPT ![lane.isp] = [row[lane.isp] EXCEPT !.status = "UNKNOWN"]]
    BY <1>4, <2>1 DEF RecoverLane, RecoverIsp
  <2>4. [row[lane.isp] EXCEPT !.status = "UNKNOWN"] \in IspRow
    BY <2>2 DEF IspRow, Statuses
  <2>5. /\ row' \in [Isps -> IspRow \cup {None}]
        /\ \A j \in Isps : row[j] # None => row'[j] # None
    BY <2>1, <2>3, <2>4, RowReplaced
  <2>6. TypeOK'
    BY <1>4, <2>5 DEF RecoverLane, RecoverIsp, TypeOK, Lanes
  <2>7. BoundInv'
    BY <1>4, <2>5 DEF RecoverLane, RecoverIsp, BoundInv, TypeOK
  <2> QED BY <2>6, <2>7
<1> QED BY <1>1, <1>2, <1>3, <1>4 DEF IspLane, Measured

\* ... for the configuration lane, whose snapshot names exits that are there ...
LEMMA ConfigurationLaneRows ==
    ASSUME RowsInv, ConfigurationLane PROVE RowsInv'
<1> USE TopologyOK DEF RowsInv, ispVars, exitVars, WorkerOnly, Free
<1>1. ASSUME NEW g \in Gateways, TakeExit(g) PROVE RowsInv'
  BY <1>1 DEF TakeExit, TypeOK, BoundInv, Workers, ExitJob
<1>2. CASE ReadRows
  <2> DEFINE W == Wanted(worker.gateway)
             refs == [e \in W |-> row[IspOf[e]].ref]
  <2>1. W \subseteq Exits /\ \A e \in W : exit[e] # None
    BY DEF Wanted
  <2>2. \A e \in W : row[IspOf[e]] \in IspRow
    BY <2>1 DEF TypeOK, BoundInv
  <2>3. refs \in [W -> Refs]
    BY <2>2 DEF IspRow
  <2>4. refs \in Snapshots
    BY <2>1, <2>3 DEF Snapshots
  <2>5. worker' = [step |-> "secrets", gateway |-> worker.gateway, refs |-> refs]
    BY <1>2 DEF ReadRows
  <2>6. worker.gateway \in Gateways
    BY <1>2 DEF ReadRows, TypeOK, Workers
  <2>7. worker' \in Workers
    BY <2>4, <2>5, <2>6 DEF Workers
  <2>8. BoundInv'
    BY <1>2, <2>1, <2>5 DEF ReadRows, BoundInv
  <2> QED BY <1>2, <2>7, <2>8 DEF ReadRows, TypeOK
<1>3. CASE ReadSecrets
  BY <1>3 DEF ReadSecrets, TypeOK, BoundInv, Workers
<1>4. CASE WorkerFails
  BY <1>4 DEF WorkerFails, TypeOK, BoundInv, Workers
<1>5. CASE RecordSuccess
  <2>1. worker.gateway \in Gateways
    BY <1>5 DEF RecordSuccess, TypeOK, Workers
  <2>2. \A e \in DOMAIN worker.refs : e \in Exits /\ exit[e] # None
    BY <1>5 DEF RecordSuccess, BoundInv
  <2>3. TypeOK'
    BY <1>5, <2>1 DEF RecordSuccess, TypeOK, Workers
  <2>4. BoundInv'
    BY <1>5, <2>2 DEF RecordSuccess, BoundInv, TypeOK
  <2> QED BY <2>3, <2>4
<1>6. CASE RecordFailure
  BY <1>6 DEF RecordFailure, TypeOK, BoundInv, Workers
<1>7. ASSUME NEW answered \in BOOLEAN, ApplyRemote(answered) PROVE RowsInv'
  <2>1. worker.gateway \in Gateways /\ worker.refs \in Snapshots
    BY <1>7 DEF ApplyRemote, TypeOK, Workers
  <2>2. \A e \in DOMAIN worker.refs : worker.refs[e] \in Refs
    BY <2>1 DEF Snapshots
  <2>3. remote' \in [Exits -> Refs \cup {None}]
    BY <1>7, <2>2 DEF ApplyRemote, TypeOK
  <2>4. worker' \in Workers
    BY <1>7, <2>1 DEF ApplyRemote, TypeOK, Workers
  <2>5. BoundInv'
    BY <1>7 DEF ApplyRemote, BoundInv, TypeOK, Workers
  <2> QED BY <1>7, <2>3, <2>4, <2>5 DEF ApplyRemote, TypeOK
<1>8. CASE RecoverWorker
  BY <1>8 DEF RecoverWorker, RecoverExit, TypeOK, BoundInv, Workers
<1> QED
  BY <1>1, <1>2, <1>3, <1>4, <1>5, <1>6, <1>7, <1>8 DEF ConfigurationLane

\* ... and for new jobs, failures of the database and restarts.
LEMMA EnvironmentRows ==
    ASSUME RowsInv, Environment PROVE RowsInv'
<1> USE TopologyOK DEF RowsInv, ispVars, exitVars, Strike, WorkerOnly, Free
<1>1. ASSUME NEW i \in Isps, EnqueueCheck(i) PROVE RowsInv'
  BY <1>1 DEF EnqueueCheck, TypeOK, BoundInv
<1>2. ASSUME NEW e \in Exits, EnqueueExit(e) PROVE RowsInv'
  BY <1>2 DEF EnqueueExit, Busy, TypeOK, BoundInv, ExitJob
<1>3. CASE CheckDbFails
  <2>1. lane \in [step : {"record", "recover"}, isp : Isps, ref : Refs,
                  expected : IPs \cup {None}, actual : IPs \cup {None}]
    BY <1>3 DEF CheckDbFails, TypeOK, Lanes
  <2>2. lane' \in Lanes /\ lane'.isp = lane.isp
    BY <1>3, <2>1 DEF CheckDbFails, Lanes
  <2> QED BY <1>3, <2>1, <2>2 DEF CheckDbFails, TypeOK, BoundInv
<1>4. CASE WorkerDbFails
  <2>1. worker' \in Workers /\ worker'.step \in {"fail", "recover"}
    BY <1>4 DEF WorkerDbFails, TypeOK, Workers
  <2>2. TypeOK'
    BY <1>4, <2>1 DEF WorkerDbFails, TypeOK
  <2>3. BoundInv'
    BY <1>4, <2>1 DEF WorkerDbFails, BoundInv
  <2> QED BY <2>2, <2>3
<1>5. CASE Restart
  <2>1. /\ row' \in [Isps -> IspRow \cup {None}]
        /\ \A j \in Isps : row[j] # None => row'[j] # None
    <3>1. CASE lane = Free
      BY <1>5, <3>1 DEF Restart, RecoverIsp, TypeOK
    <3>2. CASE lane # Free
      <4>1. lane.isp \in Isps
        BY <3>2 DEF TypeOK, Lanes
      <4>2. row[lane.isp] \in IspRow
        BY <3>2, <4>1 DEF TypeOK, BoundInv
      <4>3. row' = [row EXCEPT ![lane.isp] = [row[lane.isp] EXCEPT !.status = "UNKNOWN"]]
        BY <1>5, <3>2 DEF Restart, RecoverIsp
      <4>4. [row[lane.isp] EXCEPT !.status = "UNKNOWN"] \in IspRow
        BY <4>2 DEF IspRow, Statuses
      <4> QED BY <4>1, <4>3, <4>4, RowReplaced
    <3> QED BY <3>1, <3>2
  <2>2. /\ exitjob' \in [Gateways -> ExitJob \cup {None}] /\ failed' \subseteq Gateways
        /\ worker' = Free
    <3>1. CASE worker = Free
      BY <1>5, <3>1 DEF Restart, RecoverExit, TypeOK
    <3>2. CASE worker # Free
      <4>1. worker.gateway \in Gateways
        BY <3>2 DEF TypeOK, Workers
      <4> QED BY <1>5, <3>2, <4>1 DEF Restart, RecoverExit, TypeOK
    <3> QED BY <3>1, <3>2
  <2>3. lane' = Free /\ request' \in [Requests -> Pending]
    BY <1>5 DEF Restart, RecoverIsp, Pending
  <2>4. TypeOK'
    BY <1>5, <2>1, <2>2, <2>3 DEF Restart, TypeOK, Lanes, Workers
  <2>5. BoundInv'
    BY <1>5, <2>1, <2>2, <2>3 DEF Restart, BoundInv, TypeOK
  <2> QED BY <2>4, <2>5
<1> QED BY <1>1, <1>2, <1>3, <1>4, <1>5 DEF Environment

\* Together: no step leaves what the rows and the jobs can be.
LEMMA RowsStep == RowsInv /\ [Next]_vars => RowsInv'
<1> SUFFICES ASSUME RowsInv, [Next]_vars PROVE RowsInv'
  OBVIOUS
<1>1. CASE UNCHANGED vars
  BY <1>1 DEF vars, ispVars, exitVars, RowsInv, TypeOK, BoundInv
<1> QED
  BY <1>1, RequestRows, IspLaneRows, ConfigurationLaneRows, EnvironmentRows DEF Next

-----------------------------------------------------------------------------

\* The secret a request has put, or has to remove, and that is its alone.
Held(q) ==
    CASE q.step = "insert"  -> {q.row.ref}
      [] q.step = "commit"  -> {q.new}
      [] q.step = "discard" -> {q.ref}
      [] OTHER -> {}

SecretInv ==
    /\ SecretsKept
    /\ \A i, j \in Isps : row[i] # None /\ row[j] # None /\ row[i].ref = row[j].ref => i = j
    /\ \A a \in Requests : \A r \in Held(request[a]) :
          r \in secrets /\ \A i \in Isps : row[i] # None => row[i].ref # r
    /\ \A a, b \in Requests : \A r \in Held(request[a]) : r \in Held(request[b]) => a = b

Editing(a) == request[a].step \in {"probe", "commit"}

\* What an edit has read is true of its row as long as the row has the connection it read; no
\* other request is about to give that connection to a row.
EditInv ==
    /\ \A a \in Requests : request[a].step = "insert" =>
          request[a].row.status = "NEW"
    /\ \A a \in Requests : Editing(a) =>
          /\ request[a].old \in 1..puts
          /\ \A b \in Requests : request[b].step \in {"insert", "commit"} =>
                request[a].old \notin Held(request[b])
          /\ LET r == row[request[a].isp]
             IN  r # None /\ r.ref = request[a].old /\ request[a].expected # None =>
                    r.expected = request[a].expected
          /\ request[a].step = "commit" =>
                request[a].ip # None /\ request[a].expected \in {None, request[a].ip}
    /\ HealthyIsExpected

IspInv == RowsInv /\ SecretInv /\ EditInv

\* Every row of the initial state was checked, with a secret of its own, and nobody edits.
LEMMA IspInit == Init => IspInv
<1> SUFFICES ASSUME Init PROVE IspInv
  OBVIOUS
<1>1. RowsInv
  BY RowsInit
<1>2. PICK ip \in IPs, order \in [Isps -> Refs] :
         /\ \A i \in Ready : order[i] \in 1..puts
         /\ \A i, j \in Ready : order[i] = order[j] => i = j
         /\ row = [i \in Isps |-> IF i \in Ready THEN Checked(ip, order[i]) ELSE None]
  BY DEF Init
<1>3. \A i \in Isps : row[i] # None =>
         i \in Ready /\ row[i].ref = order[i] /\ row[i].expected = ip /\ row[i].current = ip
  BY <1>2 DEF Checked
<1>4. \A a \in Requests : request[a].step = "idle"
  BY DEF Init, Free
<1>5. SecretInv
  BY <1>2, <1>3, <1>4 DEF SecretInv, SecretsKept, Held, Init
<1>6. EditInv
  BY <1>3, <1>4, TopologyOK DEF EditInv, Editing, HealthyIsExpected
<1> QED BY <1>1, <1>5, <1>6 DEF IspInv

\* What the isp lane, or a restart, does to a row: never its connection, never a known
\* identity.
RowChecked(i) ==
    /\ row[i] = None <=> row'[i] = None
    /\ row[i] # None =>
          /\ row'[i].ref = row[i].ref
          /\ row[i].expected # None => row'[i].expected = row[i].expected
          /\ \/ row'[i] = row[i]
             \/ row'[i].status # "HEALTHY"
             \/ row'[i].current # None /\ row'[i].current = row'[i].expected

\* A row that is written as a check writes it counts as checked, and so do the others.
LEMMA RowWritten ==
    ASSUME RowsInv, NEW i \in Isps, NEW r \in IspRow, row[i] # None,
           row' = [row EXCEPT ![i] = r],
           r.ref = row[i].ref,
           row[i].expected # None => r.expected = row[i].expected,
           r.status = "HEALTHY" => r.current # None /\ r.current = r.expected
    PROVE  \A j \in Isps : RowChecked(j)
<1> TAKE j \in Isps
<1>1. row \in [Isps -> IspRow \cup {None}]
  BY DEF RowsInv, TypeOK
<1>2. CASE j = i
  <2>1. row'[j] = r /\ row'[j] # None
    BY <1>1, <1>2, TopologyOK
  <2> QED BY <1>2, <2>1 DEF RowChecked
<1>3. CASE j # i
  <2>1. row'[j] = row[j]
    BY <1>1, <1>3
  <2> QED BY <2>1 DEF RowChecked
<1> QED BY <1>2, <1>3

\* A row of which only the status changes, to one that promises nothing.
LEMMA StatusWritten ==
    ASSUME RowsInv, NEW i \in Isps, row[i] # None, NEW s \in Statuses \ {"HEALTHY"},
           row' = [row EXCEPT ![i] = [row[i] EXCEPT !.status = s]]
    PROVE  \A j \in Isps : RowChecked(j)
<1> DEFINE r == [row[i] EXCEPT !.status = s]
<1>1. row[i] \in IspRow
  BY DEF RowsInv, TypeOK
<1>2. /\ r \in IspRow /\ r.ref = row[i].ref
      /\ r.expected = row[i].expected /\ r.status = s
  BY <1>1 DEF IspRow
<1>3. row' = [row EXCEPT ![i] = r]
  OBVIOUS
<1> HIDE DEF r
<1> QED BY <1>2, <1>3, RowWritten

\* The isp lane and a restart only check: no secret is touched, no request gets further.
LEMMA ChecksKeep ==
    ASSUME RowsInv, IspLane \/ Restart
    PROVE  /\ \A i \in Isps : RowChecked(i)
           /\ UNCHANGED <<secrets, puts>>
           /\ request' = request \/ request' = [a \in Requests |-> Free]
<1> USE TopologyOK
<1>0. \A i \in Isps : row[i] # None => row[i] \in IspRow
  BY DEF RowsInv, TypeOK
<1>1. lane # Free => lane.isp \in Isps /\ row[lane.isp] # None
  BY DEF RowsInv, TypeOK, BoundInv, Lanes
<1>2. UNCHANGED <<secrets, puts>> /\ (request' = request \/ request' = [a \in Requests |-> Free])
  BY DEF IspLane, TakeCheck, ProbeIsp, RecordCheck, RecoverLane, Restart
<1>3. ASSUME TakeCheck PROVE \A i \in Isps : RowChecked(i)
  <2>1. Head(queue) \in Isps /\ row[Head(queue)] # None
    <3>1. queue \in Seq(Isps) /\ queue # <<>>
      BY <1>3 DEF TakeCheck, RowsInv, TypeOK
    <3>2. Head(queue) = queue[1] /\ 1 \in DOMAIN queue
      BY <3>1
    <3> QED BY <3>1, <3>2 DEF RowsInv, BoundInv
  <2>2. row' = [row EXCEPT ![Head(queue)] = [row[Head(queue)] EXCEPT !.status = "CHECKING"]]
    BY <1>3 DEF TakeCheck
  <2> QED BY <2>1, <2>2, StatusWritten DEF Statuses
<1>4. ASSUME NEW ip \in IPs \cup {None}, ProbeIsp(ip) PROVE \A i \in Isps : RowChecked(i)
  BY <1>4 DEF ProbeIsp, RowChecked
<1>5. ASSUME RecordCheck PROVE \A i \in Isps : RowChecked(i)
  <2>1. lane.isp \in Isps /\ row[lane.isp] \in IspRow
    BY <1>0, <1>1, <1>5 DEF RecordCheck, Free
  <2> DEFINE pin == row[lane.isp].expected
             expected == IF pin = None THEN lane.actual ELSE pin
             health == IF lane.actual # None /\ expected = lane.actual /\ ~row[lane.isp].expired
                       THEN "HEALTHY" ELSE "CRITICAL"
             r == [row[lane.isp] EXCEPT !.expected = expected, !.current = lane.actual,
                                        !.crossed = FALSE, !.status = health]
  <2>2. row' = [row EXCEPT ![lane.isp] = r]
    BY <1>5, <2>1 DEF RecordCheck, Record, RowsInv, TypeOK
  <2>3. lane.actual \in IPs \cup {None}
    BY <1>5 DEF RecordCheck, RowsInv, TypeOK, Lanes, Free
  <2>4. expected \in IPs \cup {None} /\ health \in Statuses
    BY <2>1, <2>3 DEF IspRow, Statuses
  <2>5. /\ r \in IspRow /\ r.ref = row[lane.isp].ref
        /\ r.expected = expected /\ r.current = lane.actual /\ r.status = health
    <3> HIDE DEF expected, health
    <3> QED BY <2>1, <2>3, <2>4 DEF IspRow
  <2> HIDE DEF r
  <2> QED BY <2>1, <2>2, <2>5, TopologyOK, RowWritten
<1>6. ASSUME RecoverLane \/ Restart PROVE \A i \in Isps : RowChecked(i)
  <2>1. row' = row \/ (lane # Free
          /\ row' = [row EXCEPT ![lane.isp] = [row[lane.isp] EXCEPT !.status = "UNKNOWN"]])
    BY <1>6 DEF RecoverLane, Restart, RecoverIsp
  <2>2. CASE row' = row
    BY <2>2 DEF RowChecked
  <2>3. CASE lane # Free
             /\ row' = [row EXCEPT ![lane.isp] = [row[lane.isp] EXCEPT !.status = "UNKNOWN"]]
    <3>1. lane.isp \in Isps /\ row[lane.isp] # None
      BY <1>1, <2>3
    <3>2. "UNKNOWN" \in Statuses \ {"HEALTHY"}
      BY DEF Statuses
    <3> QED BY <2>3, <3>1, <3>2, StatusWritten
  <2> QED BY <2>1, <2>2, <2>3
<1> QED BY <1>2, <1>3, <1>4, <1>5, <1>6 DEF IspLane, Measured

\* Everything else that is not a request leaves the rows and the secrets alone.
LEMMA OthersKeep ==
    ASSUME ConfigurationLane \/ Environment \/ UNCHANGED vars, ~Restart
    PROVE  UNCHANGED <<row, secrets, puts, request>>
BY DEF ConfigurationLane, TakeExit, ReadRows, ReadSecrets, WorkerFails, RecordSuccess,
       RecordFailure, ApplyRemote, RecoverWorker, WorkerOnly, Environment, EnqueueCheck,
       EnqueueExit, CheckDbFails, WorkerDbFails, vars, ispVars

\* A new file has a name of its own; who removes a file is the only one that knows it.
LEMMA SecretStep == RowsInv /\ SecretInv /\ [Next]_vars => SecretInv'
<1> SUFFICES ASSUME RowsInv, SecretInv, [Next]_vars PROVE SecretInv'
  OBVIOUS
<1>r. /\ row \in [Isps -> IspRow \cup {None}] /\ request \in [Requests -> Pending]
      /\ secrets \subseteq 1..puts /\ puts \in 0..MaxSecrets
  BY DEF RowsInv, TypeOK
<1>1. ASSUME NEW a \in Requests, RequestSteps(a) PROVE SecretInv'
  <2>p. request[a] \in Pending
    BY <1>r
  <2>o. ASSUME NEW q, request' = [request EXCEPT ![a] = q]
        PROVE  request'[a] = q /\ \A b \in Requests : b # a => request'[b] = request[b]
    BY <1>r, <2>o
  <2> USE <1>r, <2>p, TopologyOK DEF SecretInv, SecretsKept, Become, At, Put, Discard
  <2>1. ASSUME NEW i \in Isps, NEW ip \in IPs \cup {None}, NEW expired \in BOOLEAN,
               Register(a, i, ip, expired)
        PROVE  SecretInv'
    <3>1. Held(request'[a]) = {puts + 1} /\ puts + 1 \notin secrets
      BY <2>1, <2>o DEF Register, Held
    <3>2. UNCHANGED row /\ secrets' = secrets \cup {puts + 1}
      BY <2>1 DEF Register, ispVars
    <3>3. \A b \in Requests : b # a => Held(request'[b]) = Held(request[b])
      BY <2>1, <2>o DEF Register
    <3>4. SecretsKept'
      BY <3>2
    <3>5. \A b \in Requests : \A r \in Held(request'[b]) :
             r \in secrets' /\ \A j \in Isps : row'[j] # None => row'[j].ref # r
      <4> SUFFICES ASSUME NEW b \in Requests, NEW r \in Held(request'[b])
                   PROVE  r \in secrets' /\ \A j \in Isps : row'[j] # None => row'[j].ref # r
        OBVIOUS
      <4>1. CASE b = a
        BY <3>1, <3>2, <4>1
      <4>2. CASE b # a
        BY <3>2, <3>3, <4>2
      <4> QED BY <4>1, <4>2
    <3>6. \A b, c \in Requests : \A r \in Held(request'[b]) : r \in Held(request'[c]) => b = c
      <4> SUFFICES ASSUME NEW b \in Requests, NEW c \in Requests,
                          NEW r \in Held(request'[b]), r \in Held(request'[c]), b # c
                   PROVE  FALSE
        OBVIOUS
      <4>1. \A d \in Requests : d # a => Held(request'[d]) \subseteq secrets
        BY <3>3
      <4>2. b # a /\ c # a
        BY <3>1, <4>1
      <4> QED BY <3>3, <4>2
    <3> QED BY <3>2, <3>4, <3>5, <3>6
  <2>2. CASE Insert(a)
    <3>1. Held(request[a]) = {request[a].row.ref} /\ Held(request'[a]) = {}
      BY <2>2, <2>o DEF Insert, Held, Free
    <3>2. request[a].isp \in Isps /\ request[a].row \in IspRow
      BY <2>2 DEF Insert, Pending, Free
    <3> QED BY <2>2, <2>o, <3>1, <3>2 DEF Insert
  <2>3. CASE InsertFails(a)
    <3>1. Held(request'[a]) = Held(request[a])
      BY <2>3, <2>o DEF InsertFails, Held
    <3> QED BY <2>3, <2>o, <3>1 DEF InsertFails, ispVars
  <2>4. ASSUME NEW i \in Isps, NEW expired \in BOOLEAN, BeginEdit(a, i, expired) PROVE SecretInv'
    <3>1. Held(request'[a]) = {}
      BY <2>4, <2>o DEF BeginEdit, Held
    <3> QED BY <2>4, <2>o, <3>1 DEF BeginEdit, ispVars
  <2>5. ASSUME NEW ip \in IPs \cup {None}, ProbeNew(a, ip) PROVE SecretInv'
    <3>1. Held(request'[a]) = {puts + 1} /\ puts + 1 \notin secrets
      BY <2>5, <2>o DEF ProbeNew, Held
    <3> QED BY <2>5, <2>o, <3>1 DEF ProbeNew, ispVars
  <2>6. ASSUME NEW ip \in IPs \cup {None}, RefuseNew(a, ip) PROVE SecretInv'
    <3>1. Held(request'[a]) = {}
      BY <2>6, <2>o DEF RefuseNew, Held, Free
    <3> QED BY <2>6, <2>o, <3>1 DEF RefuseNew, ispVars
  <2>7. CASE CommitEdit(a)
    <3> DEFINE q == request[a]
    <3>1. Held(request[a]) = {q.new} /\ Held(request'[a]) = {q.old}
      BY <2>7, <2>o DEF CommitEdit, Held
    <3>2. /\ q.isp \in Isps /\ row[q.isp] # None /\ row[q.isp].ref = q.old
          /\ q.new \in Refs
      BY <2>7 DEF CommitEdit, MayCommit, Pending, Free
    <3>3. /\ \A i \in Isps : i # q.isp => row'[i] = row[i]
          /\ row'[q.isp].ref = q.new
      BY <2>7, <3>2 DEF CommitEdit, Store
    <3> QED BY <2>7, <2>o, <3>1, <3>2, <3>3 DEF CommitEdit
  <2>8. CASE CommitEditFails(a)
    <3>1. Held(request'[a]) = Held(request[a])
      BY <2>8, <2>o DEF CommitEditFails, Held
    <3> QED BY <2>8, <2>o, <3>1 DEF CommitEditFails, ispVars
  <2>9. CASE DiscardSecret(a)
    <3>1. Held(request[a]) = {request[a].ref} /\ Held(request'[a]) = {}
      BY <2>9, <2>o DEF DiscardSecret, Held, Free
    <3> QED BY <2>9, <2>o, <3>1 DEF DiscardSecret, ispVars
  <2>10. ASSUME NEW i \in Isps, Delete(a, i) PROVE SecretInv'
    <3>1. Held(request'[a]) = {row[i].ref}
      BY <2>10, <2>o DEF Delete, Held
    <3> QED BY <2>10, <2>o, <3>1 DEF Delete
  <2>11. ASSUME NEW e \in Exits, BeginBind(a, e) PROVE SecretInv'
    <3>1. Held(request'[a]) = {}
      BY <2>11, <2>o DEF BeginBind, Held
    <3> QED BY <2>11, <2>o, <3>1 DEF BeginBind, ispVars
  <2>12. CASE Bind(a)
    <3>1. Held(request'[a]) = {}
      BY <2>12, <2>o DEF Bind, Held, Free
    <3> QED BY <2>12, <2>o, <3>1 DEF Bind, ispVars
  <2> HIDE DEF SecretInv, SecretsKept, Become, At, Put, Discard
  <2> QED
    BY <1>1, <2>1, <2>2, <2>3, <2>4, <2>5, <2>6, <2>7, <2>8, <2>9, <2>10, <2>11, <2>12
       DEF RequestSteps, Measured
<1>2. CASE IspLane \/ Restart
  <2>1. /\ \A i \in Isps : RowChecked(i)
        /\ UNCHANGED secrets
        /\ request' = request \/ request' = [a \in Requests |-> Free]
    BY <1>2, ChecksKeep
  <2>2. \A a \in Requests : Held(request'[a]) = Held(request[a]) \/ Held(request'[a]) = {}
    BY <2>1 DEF Held, Free
  <2>3. \A i \in Isps : row'[i] # None => row[i] # None /\ row'[i].ref = row[i].ref
    BY <2>1 DEF RowChecked
  <2> QED BY <2>1, <2>2, <2>3 DEF SecretInv, SecretsKept
<1>3. CASE (ConfigurationLane \/ Environment \/ UNCHANGED vars) /\ ~Restart
  BY <1>3, OthersKeep DEF SecretInv, SecretsKept, Held
<1> QED BY <1>1, <1>2, <1>3 DEF Next
\* What an edit has read stays true of its row while the row has that connection.
LEMMA EditStep == RowsInv /\ SecretInv /\ EditInv /\ [Next]_vars => EditInv'
<1> SUFFICES ASSUME RowsInv, SecretInv, EditInv, [Next]_vars PROVE EditInv'
  OBVIOUS
<1>r. /\ row \in [Isps -> IspRow \cup {None}] /\ request \in [Requests -> Pending]
      /\ secrets \subseteq 1..puts /\ puts \in 0..MaxSecrets
  BY DEF RowsInv, TypeOK
<1>1. ASSUME NEW a \in Requests, RequestSteps(a) PROVE EditInv'
  <2>p. request[a] \in Pending
    BY <1>r
  <2>o. ASSUME NEW q, request' = [request EXCEPT ![a] = q]
        PROVE  request'[a] = q /\ \A b \in Requests : b # a => request'[b] = request[b]
    BY <1>r, <2>o
  <2>h. \A b \in Requests : Held(request[b]) \subseteq secrets
    BY DEF SecretInv
  <2> USE <1>r, <2>p, <2>h, TopologyOK DEF EditInv, Editing, HealthyIsExpected, Become, At, Put
  <2>1. ASSUME NEW i \in Isps, NEW ip \in IPs \cup {None}, NEW expired \in BOOLEAN,
               Register(a, i, ip, expired)
        PROVE  EditInv'
    <3>1. Held(request'[a]) = {puts + 1} /\ request'[a].step = "insert"
      BY <2>1, <2>o DEF Register, Held
    <3>2. request'[a].row.status = "NEW"
      BY <2>1, <2>o DEF Register
    <3>3. UNCHANGED row /\ puts' = puts + 1 /\ puts \in Nat
          /\ \A b \in Requests : b # a => request'[b] = request[b]
      BY <2>1, <2>o DEF Register, ispVars
    <3>4. \A b, c \in Requests :
             /\ request'[b].step \in {"probe", "commit"}
             /\ request'[c].step \in {"insert", "commit"}
             => request'[b].old \in 1..puts' /\ request'[b].old \notin Held(request'[c])
      <4> SUFFICES ASSUME NEW b \in Requests, NEW c \in Requests,
                          request'[b].step \in {"probe", "commit"},
                          request'[c].step \in {"insert", "commit"}
                   PROVE  request'[b].old \in 1..puts' /\ request'[b].old \notin Held(request'[c])
        OBVIOUS
      <4>1. b # a /\ request'[b] = request[b] /\ request[b].old \in 1..puts
        BY <3>1, <3>3
      <4>2. CASE c = a
        BY <3>1, <3>3, <4>1, <4>2
      <4>3. CASE c # a
        BY <3>3, <4>1, <4>3
      <4> QED BY <4>2, <4>3
    <3>5. \A b \in Requests : request'[b].step \in {"probe", "commit"} => request'[b] = request[b]
      BY <3>1, <3>3
    <3> QED BY <3>1, <3>2, <3>3, <3>4, <3>5
  <2>2. CASE Insert(a)
    <3>1. Held(request[a]) = {request[a].row.ref} /\ Held(request'[a]) = {}
      BY <2>2, <2>o DEF Insert, Held, Free
    <3>2. request[a].isp \in Isps /\ request[a].row \in IspRow
      BY <2>2 DEF Insert, Pending, Free
    <3> QED BY <2>2, <2>o, <3>1, <3>2 DEF Insert, Free
  <2>3. CASE InsertFails(a)
    <3>1. Held(request'[a]) = Held(request[a])
      BY <2>3, <2>o DEF InsertFails, Held
    <3> QED BY <2>3, <2>o, <3>1 DEF InsertFails, ispVars
  <2>4. ASSUME NEW i \in Isps, NEW expired \in BOOLEAN, BeginEdit(a, i, expired) PROVE EditInv'
    <3>1. Held(request'[a]) = {}
      BY <2>4, <2>o DEF BeginEdit, Held
    <3>2. row[i].ref \in 1..puts /\ \A b \in Requests : row[i].ref \notin Held(request[b])
      BY <2>4 DEF BeginEdit, SecretInv
    <3> QED BY <2>4, <2>o, <3>1, <3>2 DEF BeginEdit, ispVars
  <2>5. ASSUME NEW ip \in IPs \cup {None}, ProbeNew(a, ip) PROVE EditInv'
    <3>1. /\ Held(request'[a]) = {puts + 1}
          /\ request'[a].step = "commit" /\ request'[a].ip = ip /\ ip # None
          /\ request'[a].expected = request[a].expected
          /\ request'[a].isp = request[a].isp /\ request'[a].old = request[a].old
          /\ request[a].step = "probe" /\ request[a].expected \in {None, ip}
      BY <2>5, <2>o DEF ProbeNew, Held
    <3>2. UNCHANGED row /\ puts' = puts + 1 /\ puts \in Nat
          /\ \A b \in Requests : b # a => request'[b] = request[b]
      BY <2>5, <2>o DEF ProbeNew, ispVars
    <3>3. \A b \in Requests : request'[b].step \in {"probe", "commit"} =>
             request[b].step \in {"probe", "commit"} /\ request'[b].old = request[b].old
             /\ request'[b].isp = request[b].isp /\ request[b].old \in 1..puts
      BY <3>1, <3>2
    <3>4. \A b, c \in Requests :
             /\ request'[b].step \in {"probe", "commit"}
             /\ request'[c].step \in {"insert", "commit"}
             => request'[b].old \notin Held(request'[c])
      <4> SUFFICES ASSUME NEW b \in Requests, NEW c \in Requests,
                          request'[b].step \in {"probe", "commit"},
                          request'[c].step \in {"insert", "commit"}
                   PROVE  request'[b].old \notin Held(request'[c])
        OBVIOUS
      <4>1. request'[b].old = request[b].old /\ request[b].old \in 1..puts
        BY <3>3
      <4>2. CASE c = a
        BY <3>1, <3>2, <4>1, <4>2
      <4>3. CASE c # a
        BY <3>2, <3>3, <4>1, <4>3
      <4> QED BY <4>2, <4>3
    <3>5. request[a].isp \in Isps
      BY <3>1 DEF Pending, Free
    <3>6. LET r == row[request[a].isp]
          IN  r # None /\ r.ref = request[a].old /\ request[a].expected # None =>
                 r.expected = request[a].expected
      BY <3>1, <3>5
    <3> QED BY <3>1, <3>2, <3>3, <3>4, <3>6
  <2>6. ASSUME NEW ip \in IPs \cup {None}, RefuseNew(a, ip) PROVE EditInv'
    BY <2>6, <2>o DEF RefuseNew, Free, ispVars
  <2>7. CASE CommitEdit(a)
    <3> DEFINE q == request[a]
    <3>1. Held(request[a]) = {q.new}
      BY <2>7 DEF CommitEdit, Held
    <3>2. /\ q.isp \in Isps /\ row[q.isp] # None /\ row[q.isp].ref = q.old
          /\ q.new \in Refs /\ q.ip \in IPs
      BY <2>7 DEF CommitEdit, MayCommit, Pending, Free
    <3>3. /\ \A i \in Isps : i # q.isp => row'[i] = row[i]
          /\ row'[q.isp].ref = q.new /\ row'[q.isp].current = q.ip
          /\ row'[q.isp].crossed = (q.expected = None /\ row[q.isp].expected # None)
          /\ row'[q.isp].expected = IF row[q.isp].expected = None THEN q.ip
                                    ELSE row[q.isp].expected
      BY <2>7, <3>2 DEF CommitEdit, Store
    <3>4. UNCHANGED puts /\ request'[a].step = "discard" /\ q.step = "commit"
          /\ \A b \in Requests : b # a => request'[b] = request[b]
      BY <2>7, <2>o DEF CommitEdit
    <3>5. \A b \in Requests : request'[b].step \in {"probe", "commit"} =>
             /\ b # a /\ request'[b] = request[b] /\ request[b].isp \in Isps
             /\ request[b].old # q.new
      <4> SUFFICES ASSUME NEW b \in Requests, request'[b].step \in {"probe", "commit"}
                   PROVE  /\ b # a /\ request'[b] = request[b] /\ request[b].isp \in Isps
                          /\ request[b].old # q.new
        OBVIOUS
      <4>1. b # a /\ request'[b] = request[b]
        BY <3>4
      <4>2. request[b].isp \in Isps
        BY <1>r, <4>1 DEF Pending, Free
      <4>3. request[b].old \notin Held(request[a])
        BY <3>4, <4>1
      <4> QED BY <3>1, <4>1, <4>2, <4>3
    <3>6. /\ q.ip # None /\ q.expected \in {None, q.ip}
          /\ q.expected # None => row[q.isp].expected = q.expected
      BY <3>2, <3>4
    <3>7. \A i \in Isps : row'[i] # None /\ row'[i].status = "HEALTHY" /\ ~row'[i].crossed =>
             row'[i].current # None /\ row'[i].current = row'[i].expected
      BY <3>2, <3>3, <3>6, TopologyOK
    <3>8. \A b \in Requests : request'[b].step \in {"probe", "commit"} =>
             LET r == row'[request'[b].isp]
             IN  r # None /\ r.ref = request'[b].old => r = row[request[b].isp]
      BY <3>2, <3>3, <3>5
    <3> QED BY <3>4, <3>5, <3>7, <3>8
  <2>8. CASE CommitEditFails(a)
    BY <2>8, <2>o DEF CommitEditFails, ispVars
  <2>9. CASE DiscardSecret(a)
    BY <2>9, <2>o DEF DiscardSecret, Free, ispVars
  <2>10. ASSUME NEW i \in Isps, Delete(a, i) PROVE EditInv'
    BY <2>10, <2>o DEF Delete
  <2>11. ASSUME NEW e \in Exits, BeginBind(a, e) PROVE EditInv'
    BY <2>11, <2>o DEF BeginBind, ispVars
  <2>12. CASE Bind(a)
    BY <2>12, <2>o DEF Bind, Free, ispVars
  <2> HIDE DEF EditInv, Editing, HealthyIsExpected, Become, At, Put
  <2> QED
    BY <1>1, <2>1, <2>2, <2>3, <2>4, <2>5, <2>6, <2>7, <2>8, <2>9, <2>10, <2>11, <2>12
       DEF RequestSteps, Measured
<1>2. CASE IspLane \/ Restart
  <2>1. /\ \A i \in Isps : RowChecked(i)
        /\ UNCHANGED puts
        /\ request' = request \/ request' = [a \in Requests |-> Free]
    BY <1>2, ChecksKeep
  <2>2. \A a \in Requests : request'[a] = request[a] \/ request'[a] = Free
    BY <2>1
  <2>3. \A i \in Isps : row'[i] # None =>
           /\ row[i] # None /\ row'[i].ref = row[i].ref
           /\ row[i].expected # None => row'[i].expected = row[i].expected
    BY <2>1 DEF RowChecked
  <2>4. \A i \in Isps : row'[i] # None /\ row'[i].status = "HEALTHY" /\ ~row'[i].crossed =>
           row'[i].current # None /\ row'[i].current = row'[i].expected
    BY <2>1, <2>3 DEF RowChecked, EditInv, HealthyIsExpected
  <2>5. \A a \in Requests : request[a].step \in {"probe", "commit"} => request[a].isp \in Isps
    BY <1>r DEF Pending, Free
  <2>6. \A a \in Requests : request'[a].step \in {"probe", "commit", "insert"} =>
           request'[a] = request[a]
    BY <2>2 DEF Free
  <2> QED BY <2>1, <2>3, <2>4, <2>5, <2>6 DEF EditInv, Editing, HealthyIsExpected
<1>3. CASE (ConfigurationLane \/ Environment \/ UNCHANGED vars) /\ ~Restart
  <2>1. UNCHANGED <<row, puts, request>>
    BY <1>3, OthersKeep
  <2> QED BY <2>1 DEF EditInv, Editing, HealthyIsExpected, Held
<1> QED BY <1>1, <1>2, <1>3 DEF Next

\* The inductive invariant ...
LEMMA IspStep == IspInv /\ [Next]_vars => IspInv'
BY RowsStep, SecretStep, EditStep DEF IspInv

\* ... and so it always holds.
LEMMA IspAlways == Spec => []IspInv
BY IspInit, IspStep, PTL DEF Spec

\* What the rows, the jobs, the snapshots of the lanes and of the requests, and the routes of the
\* gateways can be.
THEOREM Typed == Spec => []TypeOK
<1>1. IspInv => TypeOK
  BY DEF IspInv, RowsInv
<1> QED BY <1>1, IspAlways, PTL

\* The connection of every ISP can be used: no edit, refused, raced or interrupted, and no
\* deletion takes away the secret a row refers to.
THEOREM Kept == Spec => []SecretsKept
<1>1. IspInv => SecretsKept
  BY DEF IspInv, SecretInv
<1> QED BY <1>1, IspAlways, PTL

\* An ISP is HEALTHY only if it was last seen with its identity, whether that was typed, or
\* pinned by its first check or edit; what an edit may do that has read no identity and is stored
\* after a check pinned one is left out, until the next check.
THEOREM Expected == Spec => []HealthyIsExpected
<1>1. IspInv => HealthyIsExpected
  BY DEF IspInv, EditInv
<1> QED BY <1>1, IspAlways, PTL

\* No step of a request, of a lane or of a restart replaces an identity that is known.
THEOREM Pinned == Spec => IdentityPinned
<1>1. IspInv /\ [Next]_vars =>
        [\A i \in Isps : row[i] # None /\ row'[i] # None /\ row[i].expected # None =>
             row'[i].expected = row[i].expected]_row
  <2> SUFFICES ASSUME RowsInv, [Next]_vars, NEW i \in Isps, row[i] # None, row'[i] # None,
                      row[i].expected # None
               PROVE  row'[i].expected = row[i].expected
    BY DEF IspInv
  <2>1. row \in [Isps -> IspRow \cup {None}] /\ request \in [Requests -> Pending]
    BY DEF RowsInv, TypeOK
  <2>2. ASSUME NEW a \in Requests, RequestSteps(a) PROVE row'[i].expected = row[i].expected
    <3>1. CASE Insert(a)
      <4>1. request[a].isp # i
        BY <3>1 DEF Insert
      <4> QED BY <2>1, <3>1, <4>1 DEF Insert
    <3>2. CASE CommitEdit(a)
      <4>1. CASE request[a].isp = i
        BY <2>1, <3>2, <4>1 DEF CommitEdit, Store
      <4>2. CASE request[a].isp # i
        BY <2>1, <3>2, <4>2 DEF CommitEdit, Store
      <4> QED BY <4>1, <4>2
    <3>3. ASSUME NEW j \in Isps, Delete(a, j) PROVE row'[i].expected = row[i].expected
      BY <2>1, <3>3 DEF Delete
    <3>4. \/ Insert(a) \/ CommitEdit(a) \/ \E j \in Isps : Delete(a, j)
          \/ UNCHANGED row
      BY <2>2 DEF RequestSteps, Register, InsertFails, BeginEdit, ProbeNew, RefuseNew,
                 CommitEditFails, DiscardSecret, BeginBind, Bind, ispVars
    <3> QED BY <3>1, <3>2, <3>3, <3>4
  <2>3. CASE IspLane \/ Restart
    BY <2>3, ChecksKeep DEF RowChecked
  <2>4. CASE (ConfigurationLane \/ Environment \/ UNCHANGED vars) /\ ~Restart
    BY <2>4, OthersKeep
  <2> QED BY <2>2, <2>3, <2>4 DEF Next
<1> QED BY <1>1, IspAlways, PTL DEF Spec, IdentityPinned

-----------------------------------------------------------------------------
(* The routes follow the connections of the ISPs. *)

\* An exit is on the gateway its ISP was registered with: an edit queues a job for that gateway
\* only.
ExitsAtHome == \A e \in Exits : GatewayOf[e] = HomeOf[IspOf[e]]

Connection(e) == row[IspOf[e]].ref

Running(g) == exitjob[g] # None /\ exitjob[g].state = "RUNNING"

\* The lane works on a job that is RUNNING, and no other job is.
JobInv ==
    /\ worker # Free => Running(worker.gateway)
    /\ \A g \in Gateways : Running(g) => worker # Free /\ worker.gateway = g

\* What the lane carries to its gateway: the present connection of every exit that is applied
\* there, of any other exit one that may have been edited since, which is then noted.
CarriedInv ==
    worker.step \in {"secrets", "apply", "success"} =>
        \A e \in Exits :
            IF e \in DOMAIN worker.refs
            THEN /\ GatewayOf[e] = worker.gateway
                 /\ e \notin raced => worker.refs[e] = Connection(e)
                 /\ worker.step = "success" => remote[e] = worker.refs[e]
            ELSE GatewayOf[e] = worker.gateway => exit[e] # TRUE

RouteInv == JobInv /\ CarriedInv /\ RoutesFollow

\* Nobody works at first, and what is deployed has the connection of its row.
LEMMA RouteInit == Init => RouteInv
<1> SUFFICES ASSUME Init PROVE RouteInv
  OBVIOUS
<1>1. PICK order \in [Isps -> Refs] :
         /\ \E ip \in IPs :
               row = [i \in Isps |-> IF i \in Ready THEN Checked(ip, order[i]) ELSE None]
         /\ remote = [e \in Exits |-> IF e \in Deployed THEN order[IspOf[e]] ELSE None]
  BY DEF Init
<1>2. worker = Free /\ worker.step = "idle" /\ \A g \in Gateways : ~Running(g)
  BY DEF Init, Free, Running
<1>3. RoutesFollow
  <2> SUFFICES ASSUME NEW e \in Exits, exit[e] = TRUE PROVE remote[e] = Connection(e)
    BY DEF RoutesFollow, Connection
  <2>1. e \in Deployed
    <3> SUFFICES ASSUME e \notin Deployed PROVE FALSE
      OBVIOUS
    <3>1. exit[e] = None
      BY DEF Init
    <3> QED BY <3>1, TopologyOK
  <2>2. IspOf[e] \in Ready
    BY <2>1, TopologyOK DEF Ready
  <2>3. Connection(e) = order[IspOf[e]]
    BY <1>1, <2>2, TopologyOK DEF Connection, Checked
  <2> QED BY <1>1, <2>1, <2>3
<1> QED BY <1>2, <1>3 DEF RouteInv, JobInv, CarriedInv

\* Whoever leaves the configuration lane alone, and the connection of every ISP that is bound.
LEMMA RouteKept ==
    ASSUME RowsInv, RouteInv, UNCHANGED exitVars,
           \A e \in Exits : exit[e] # None => Connection(e)' = Connection(e)
    PROVE  RouteInv'
<1>1. JobInv'
  BY DEF RouteInv, JobInv, Running, exitVars
<1>2. CarriedInv'
  <2> SUFFICES ASSUME worker.step \in {"secrets", "apply", "success"}, NEW e \in Exits
               PROVE  IF e \in DOMAIN worker.refs
                      THEN /\ GatewayOf[e] = worker.gateway
                           /\ e \notin raced => worker.refs[e] = Connection(e)'
                           /\ worker.step = "success" => remote[e] = worker.refs[e]
                      ELSE GatewayOf[e] = worker.gateway => exit[e] # TRUE
    BY DEF CarriedInv, exitVars
  <2>1. e \in DOMAIN worker.refs => Connection(e)' = Connection(e)
    BY DEF RowsInv, BoundInv
  <2> QED BY <2>1 DEF RouteInv, CarriedInv
<1>3. RoutesFollow'
  <2> SUFFICES ASSUME NEW e \in Exits, exit[e] = TRUE, ~Busy(e), GatewayOf[e] \notin failed,
                      e \notin raced
               PROVE  remote[e] = Connection(e)'
    BY DEF RoutesFollow, Connection, Busy, exitVars
  <2>1. Connection(e)' = Connection(e)
    BY TopologyOK
  <2> QED BY <2>1 DEF RouteInv, RoutesFollow, Connection
<1> QED BY <1>1, <1>2, <1>3 DEF RouteInv

\* A request: an edit queues the exit it finds applied, or notes the one whose first job runs.
LEMMA RequestRoutes ==
    ASSUME ExitsAtHome, RowsInv, RouteInv, NEW a \in Requests, RequestSteps(a)
    PROVE  RouteInv'
<1> USE TopologyOK
<1>r. /\ row \in [Isps -> IspRow \cup {None}] /\ request[a] \in Pending
      /\ exit \in [Exits -> BOOLEAN \cup {None}] /\ exitjob \in [Gateways -> ExitJob \cup {None}]
  BY DEF RowsInv, TypeOK
<1>1. CASE UNCHANGED <<row, exitVars>>
  BY <1>1, RouteKept DEF Connection
<1>2. CASE Insert(a)
  <2>1. \A e \in Exits : exit[e] # None => IspOf[e] # request[a].isp
    BY <1>2 DEF Insert, RowsInv, BoundInv
  <2> QED BY <1>2, <1>r, <2>1, RouteKept DEF Insert, Connection
<1>3. ASSUME NEW i \in Isps, Delete(a, i) PROVE RouteInv'
  <2>1. \A e \in Exits : exit[e] # None => IspOf[e] # i
    BY <1>3 DEF Delete, Bound
  <2> QED BY <1>3, <1>r, <2>1, RouteKept DEF Delete, Connection
<1>4. CASE CommitEdit(a)
  <2> DEFINE i == request[a].isp
             g == HomeOf[i]
  <2>1. i \in Isps /\ g \in Gateways
    BY <1>4, <1>r DEF CommitEdit, At, Pending, Free
  <2>2. \A e \in Exits : IspOf[e] # i => Connection(e)' = Connection(e)
    BY <1>4, <1>r, <2>1 DEF CommitEdit, Store, Connection
  <2>3. UNCHANGED <<exit, failed, worker, remote>>
    BY <1>4 DEF CommitEdit
  <2>4. /\ Affected(i) = {} => exitjob' = exitjob
        /\ Affected(i) # {} =>
              /\ exitjob[g] = None
              /\ \E job \in ExitJob : job.state = "QUEUED" /\ exitjob' = [exitjob EXCEPT ![g] = job]
    <3>1. Affected(i) # {} =>
             [exit |-> CHOOSE e \in Affected(i) : TRUE, state |-> "QUEUED"] \in ExitJob
      BY DEF Affected, Bound, ExitJob
    <3> QED BY <1>4, <3>1 DEF CommitEdit, MayCommit, QueueAffected
  <2>5. \A h \in Gateways :
           /\ Running(h)' <=> Running(h)
           /\ exitjob[h] # None => exitjob'[h] = exitjob[h]
    <3>1. CASE Affected(i) = {}
      BY <2>4, <3>1 DEF Running
    <3>2. CASE Affected(i) # {}
      <4>1. PICK job \in ExitJob : job.state = "QUEUED" /\ exitjob' = [exitjob EXCEPT ![g] = job]
        BY <2>4, <3>2
      <4>2. \A h \in Gateways : exitjob'[h] = IF h = g THEN job ELSE exitjob[h]
        BY <1>r, <2>1, <4>1
      <4> QED BY <2>4, <3>2, <4>1, <4>2 DEF Running
    <3> QED BY <3>1, <3>2
  <2>6. JobInv'
    <3>1. worker # Free => worker.gateway \in Gateways
      BY DEF RowsInv, TypeOK, Workers
    <3> QED BY <2>3, <2>5, <3>1 DEF RouteInv, JobInv
  <2>7. \A e \in Exits : exit[e] = TRUE /\ IspOf[e] = i => e \in Affected(i) /\ GatewayOf[e] = g
    BY DEF Affected, Bound, ExitsAtHome
  <2>8. /\ raced \subseteq raced'
        /\ \A e \in Exits : IspOf[e] = i /\ exit[e] = FALSE /\ Running(GatewayOf[e]) => e \in raced'
    BY <1>4 DEF CommitEdit, Race, Bound, Busy, Running
  <2>9. CarriedInv'
    <3> SUFFICES ASSUME worker.step \in {"secrets", "apply", "success"}, NEW e \in Exits,
                        e \in DOMAIN worker.refs, e \notin raced'
                 PROVE  Connection(e)' = Connection(e)
      BY <2>3, <2>8 DEF RouteInv, CarriedInv
    <3>1. CASE IspOf[e] # i
      BY <2>2, <3>1
    <3>2. CASE IspOf[e] = i
      <4>1. Running(GatewayOf[e]) /\ exit[e] # None
        <5>1. exit[e] # None
          BY DEF RowsInv, BoundInv
        <5>2. worker # Free
          BY DEF Free
        <5>3. GatewayOf[e] = worker.gateway
          BY DEF RouteInv, CarriedInv
        <5> QED BY <5>1, <5>2, <5>3 DEF RouteInv, JobInv
      <4>2. exit[e] = TRUE
        BY <1>r, <2>8, <3>2, <4>1, Zenon
      <4>3. exitjob[GatewayOf[e]] = None
        BY <2>4, <2>7, <3>2, <4>2
      <4> QED BY <4>1, <4>3 DEF Running
    <3> QED BY <3>1, <3>2
  <2>10. RoutesFollow'
    <3> SUFFICES ASSUME NEW e \in Exits, exit[e] = TRUE, exitjob'[GatewayOf[e]] = None,
                        GatewayOf[e] \notin failed, e \notin raced'
                 PROVE  remote[e] = Connection(e)'
      BY <2>3 DEF RoutesFollow, Busy, Connection
    <3>1. IspOf[e] # i
      <4> SUFFICES ASSUME IspOf[e] = i PROVE FALSE
        OBVIOUS
      <4>1. Affected(i) # {} /\ GatewayOf[e] = g
        BY <2>7
      <4>2. exitjob'[g] # None
        BY <1>r, <2>1, <2>4, <4>1
      <4> QED BY <4>1, <4>2
    <3>2. exitjob[GatewayOf[e]] = None
      BY <2>5
    <3>3. remote[e] = Connection(e)
      BY <2>8, <3>2 DEF RouteInv, RoutesFollow, Busy, Connection
    <3> QED BY <2>2, <3>1, <3>3
  <2> QED BY <2>6, <2>9, <2>10 DEF RouteInv
<1>5. CASE Bind(a)
  <2> DEFINE f == request[a].exit
  <2>1. f \in Exits
    BY <1>5, <1>r DEF Bind, At, Pending, Free
  <2>2. UNCHANGED <<row, exitjob, failed, raced, worker, remote>>
    BY <1>5 DEF Bind, ispVars
  <2>3. \A e \in Exits : (exit'[e] = TRUE) => (exit[e] = TRUE)
    BY <1>5, <1>r, <2>1 DEF Bind
  <2>4. JobInv'
    BY <2>2 DEF RouteInv, JobInv, Running
  <2>5. CarriedInv'
    BY <2>2, <2>3 DEF RouteInv, CarriedInv, Connection
  <2>6. RoutesFollow'
    BY <2>2, <2>3 DEF RouteInv, RoutesFollow, Busy
  <2> QED BY <2>4, <2>5, <2>6 DEF RouteInv
<1> QED
  BY <1>1, <1>2, <1>3, <1>4, <1>5
     DEF RequestSteps, Register, InsertFails, BeginEdit, ProbeNew, RefuseNew, CommitEditFails,
         DiscardSecret, BeginBind, ispVars

\* A job that is given up, by the lane or by the recovery of one: its gateway is marked.
LEMMA RouteGivenUp ==
    ASSUME RowsInv, RouteInv, RecoverExit, UNCHANGED <<exit, raced, remote>>,
           \A e \in Exits : exit[e] # None => Connection(e)' = Connection(e)
    PROVE  RouteInv'
<1> USE TopologyOK
<1>1. CASE worker = Free
  <2>1. UNCHANGED exitVars
    BY <1>1 DEF RecoverExit, exitVars
  <2> QED BY <2>1, RouteKept
<1>2. CASE worker # Free
  <2> DEFINE g == worker.gateway
  <2>1. g \in Gateways /\ worker.gateway \in Gateways
    BY <1>2 DEF RowsInv, TypeOK, Workers
  <2>2. /\ worker' = Free /\ failed' = failed \cup {g}
        /\ \A h \in Gateways : exitjob'[h] = IF h = g THEN None ELSE exitjob[h]
    BY <1>2, <2>1 DEF RecoverExit, RowsInv, TypeOK
  <2>3. JobInv'
    BY <1>2, <2>2 DEF RouteInv, JobInv, Running
  <2>4. CarriedInv'
    BY <2>2 DEF CarriedInv, Free
  <2>5. RoutesFollow'
    <3> SUFFICES ASSUME NEW e \in Exits, exit[e] = TRUE, exitjob'[GatewayOf[e]] = None,
                        GatewayOf[e] \notin failed', e \notin raced
                 PROVE  remote[e] = Connection(e)'
      BY DEF RoutesFollow, Busy, Connection
    <3>1. Connection(e)' = Connection(e)
      OBVIOUS
    <3>2. exitjob[GatewayOf[e]] = None /\ GatewayOf[e] \notin failed
      BY <2>2
    <3> QED BY <3>1, <3>2 DEF RouteInv, RoutesFollow, Busy, Connection
  <2> QED BY <2>3, <2>4, <2>5 DEF RouteInv
<1> QED BY <1>1, <1>2

\* A job that begins carries what the rows say; one that fails leaves a mark on its gateway; one
\* that succeeds has put the present connection on every exit that is not noted.
LEMMA LaneRoutes ==
    ASSUME RowsInv, RouteInv, ConfigurationLane PROVE RouteInv'
<1> USE TopologyOK
<1>r. /\ exit \in [Exits -> BOOLEAN \cup {None}] /\ exitjob \in [Gateways -> ExitJob \cup {None}]
      /\ worker \in Workers
  BY DEF RowsInv, TypeOK
<1>w. worker # Free => worker.gateway \in Gateways /\ Running(worker.gateway)
  BY <1>r DEF Workers, RouteInv, JobInv
<1>f. Free.step = "idle"
  BY DEF Free
<1>1. ASSUME NEW g \in Gateways, TakeExit(g) PROVE RouteInv'
  <2>1. /\ worker = Free /\ worker' = [step |-> "rows", gateway |-> g]
        /\ UNCHANGED <<row, exit, failed, raced, remote>>
    BY <1>1 DEF TakeExit, ispVars
  <2>2. \A h \in Gateways : exitjob'[h] = IF h = g THEN [exitjob[g] EXCEPT !.state = "RUNNING"]
                                          ELSE exitjob[h]
    BY <1>1, <1>r DEF TakeExit
  <2>3. exitjob[g] \in ExitJob
    BY <1>1, <1>r DEF TakeExit
  <2>4. [exitjob[g] EXCEPT !.state = "RUNNING"] \in ExitJob
    BY <2>3 DEF ExitJob
  <2>5. exitjob'[g] # None /\ exitjob'[g].state = "RUNNING"
    BY <2>2, <2>3, <2>4 DEF ExitJob
  <2>6. JobInv'
    BY <2>1, <2>2, <2>5, <1>f DEF RouteInv, JobInv, Running
  <2>7. CarriedInv'
    BY <2>1 DEF CarriedInv
  <2>8. \A h \in Gateways : exitjob'[h] = None => exitjob[h] = None
    BY <2>2, <2>5
  <2>9. RoutesFollow'
    BY <2>1, <2>8 DEF RouteInv, RoutesFollow, Busy
  <2> QED BY <2>6, <2>7, <2>9 DEF RouteInv
<1>2. CASE ReadRows
  <2> DEFINE W == Wanted(worker.gateway)
             refs == [e \in W |-> row[IspOf[e]].ref]
  <2>1. /\ worker # Free
        /\ worker' = [step |-> "secrets", gateway |-> worker.gateway, refs |-> refs]
        /\ UNCHANGED <<row, exit, exitjob, failed, raced, remote>>
    BY <1>2, <1>f DEF ReadRows, WorkerOnly, ispVars
  <2>2. JobInv'
    BY <2>1, <1>f DEF RouteInv, JobInv, Running
  <2>3. \A e \in Exits : GatewayOf[e] = worker.gateway /\ exit[e] = TRUE => e \in W
    BY DEF Wanted
  <2>4. \A e \in W : e \in Exits /\ GatewayOf[e] = worker.gateway /\ refs[e] = Connection(e)
    BY DEF Wanted, Connection
  <2>5. CarriedInv'
    <3> HIDE DEF W
    <3>1. worker'.step = "secrets" /\ worker'.gateway = worker.gateway /\ worker'.refs = refs
      BY <2>1
    <3>2. DOMAIN worker'.refs = W
      BY <3>1
    <3>3. \A e \in Exits : Connection(e)' = Connection(e)
      BY <2>1 DEF Connection
    <3> HIDE DEF refs
    <3> QED BY <2>1, <2>3, <2>4, <3>1, <3>2, <3>3 DEF CarriedInv
  <2>6. RoutesFollow'
    BY <2>1 DEF RouteInv, RoutesFollow, Busy
  <2> QED BY <2>2, <2>5, <2>6 DEF RouteInv
<1>3. CASE ReadSecrets
  <2>1. /\ worker' = [worker EXCEPT !.step = "apply"] /\ worker.step = "secrets"
        /\ UNCHANGED <<row, exit, exitjob, failed, raced, remote>>
    BY <1>3 DEF ReadSecrets, WorkerOnly, ispVars
  <2>2. /\ worker # Free /\ worker' # Free /\ worker'.step = "apply"
        /\ worker'.gateway = worker.gateway /\ worker'.refs = worker.refs
    BY <2>1, <1>r, <1>f DEF Workers
  <2>3. JobInv'
    BY <2>1, <2>2 DEF RouteInv, JobInv, Running
  <2>4. CarriedInv'
    BY <2>1, <2>2 DEF RouteInv, CarriedInv, Connection
  <2>5. RoutesFollow'
    BY <2>1 DEF RouteInv, RoutesFollow, Busy
  <2> QED BY <2>3, <2>4, <2>5 DEF RouteInv
<1>4. CASE WorkerFails
  <2>1. /\ worker # Free /\ worker' = [step |-> "fail", gateway |-> worker.gateway]
        /\ UNCHANGED <<row, exit, exitjob, failed, raced, remote>>
    BY <1>4, <1>f DEF WorkerFails, WorkerOnly, ispVars
  <2>2. JobInv'
    BY <2>1, <1>f DEF RouteInv, JobInv, Running
  <2>3. CarriedInv'
    BY <2>1 DEF CarriedInv
  <2>4. RoutesFollow'
    BY <2>1 DEF RouteInv, RoutesFollow, Busy
  <2> QED BY <2>2, <2>3, <2>4 DEF RouteInv
<1>5. ASSUME NEW answered \in BOOLEAN, ApplyRemote(answered) PROVE RouteInv'
  <2> DEFINE next == IF answered THEN "success" ELSE "fail"
  <2>1. /\ worker' = [worker EXCEPT !.step = next] /\ worker.step = "apply"
        /\ remote' = [e \in Exits |-> IF e \in DOMAIN worker.refs THEN worker.refs[e]
                                      ELSE IF GatewayOf[e] = worker.gateway THEN None
                                      ELSE remote[e]]
        /\ UNCHANGED <<row, exit, exitjob, failed, raced>>
    BY <1>5 DEF ApplyRemote, ispVars
  <2>2. /\ worker # Free /\ worker' # Free /\ worker'.step = next
        /\ worker'.gateway = worker.gateway /\ worker'.refs = worker.refs
    BY <2>1, <1>r, <1>f DEF Workers
  <2>3. JobInv'
    BY <2>1, <2>2 DEF RouteInv, JobInv, Running
  <2>4. CarriedInv'
    BY <2>1, <2>2 DEF RouteInv, CarriedInv, Connection
  <2>5. \A e \in Exits : GatewayOf[e] # worker.gateway => remote'[e] = remote[e]
    BY <2>1 DEF RouteInv, CarriedInv
  <2>6. RoutesFollow'
    <3>1. \A e \in Exits : exitjob[GatewayOf[e]] = None => GatewayOf[e] # worker.gateway
      BY <2>2, <1>w DEF Running
    <3> QED BY <2>1, <2>5, <3>1 DEF RouteInv, RoutesFollow, Busy
  <2> QED BY <2>3, <2>4, <2>6 DEF RouteInv
<1>6. CASE RecordSuccess
  <2> DEFINE g == worker.gateway
  <2>1. /\ worker.step = "success" /\ worker' = Free
        /\ exitjob' = [exitjob EXCEPT ![g] = None] /\ failed' = failed \ {g}
        /\ exit' = [e \in Exits |-> IF e \in DOMAIN worker.refs THEN TRUE ELSE exit[e]]
        /\ raced' = {e \in raced : e \in DOMAIN worker.refs => Connection(e) # worker.refs[e]}
        /\ UNCHANGED <<row, remote>>
    BY <1>6 DEF RecordSuccess, ispVars, Connection
  <2>2. worker # Free /\ g \in Gateways
    BY <2>1, <1>f, <1>w
  <2>3. \A h \in Gateways : exitjob'[h] = IF h = g THEN None ELSE exitjob[h]
    BY <2>1, <2>2, <1>r
  <2>4. JobInv'
    BY <2>1, <2>2, <2>3 DEF RouteInv, JobInv, Running
  <2>5. CarriedInv'
    BY <2>1, <1>f DEF CarriedInv
  <2>6. RoutesFollow'
    <3> SUFFICES ASSUME NEW e \in Exits, exit'[e] = TRUE, exitjob'[GatewayOf[e]] = None,
                        GatewayOf[e] \notin failed', e \notin raced'
                 PROVE  remote[e] = Connection(e)
      BY <2>1 DEF RoutesFollow, Busy, Connection
    <3>1. CASE e \in DOMAIN worker.refs
      <4>1. remote[e] = worker.refs[e]
        BY <2>1, <3>1 DEF RouteInv, CarriedInv
      <4>2. e \in raced => Connection(e) = worker.refs[e]
        BY <2>1, <3>1
      <4>3. e \notin raced => Connection(e) = worker.refs[e]
        BY <2>1, <3>1 DEF RouteInv, CarriedInv
      <4> QED BY <4>1, <4>2, <4>3
    <3>2. CASE e \notin DOMAIN worker.refs
      <4>1. exit[e] = TRUE /\ e \notin raced
        BY <2>1, <3>2
      <4>2. GatewayOf[e] # g
        BY <2>1, <3>2, <4>1 DEF RouteInv, CarriedInv
      <4>3. exitjob[GatewayOf[e]] = None /\ GatewayOf[e] \notin failed
        BY <2>1, <2>3, <4>2
      <4> QED BY <4>1, <4>3 DEF RouteInv, RoutesFollow, Busy, Connection
    <3> QED BY <3>1, <3>2
  <2> QED BY <2>4, <2>5, <2>6 DEF RouteInv
<1>7. CASE RecordFailure \/ RecoverWorker
  <2>1. RecoverExit /\ UNCHANGED <<row, exit, raced, remote>>
    BY <1>7, <1>f DEF RecordFailure, RecoverWorker, RecoverExit, ispVars
  <2> QED BY <2>1, RouteGivenUp DEF Connection
<1> QED
  BY <1>1, <1>2, <1>3, <1>4, <1>5, <1>6, <1>7 DEF ConfigurationLane

\* The isp lane, new jobs, failures of the database and restarts.
LEMMA EnvironmentRoutes ==
    ASSUME RowsInv, RouteInv, IspLane \/ Environment PROVE RouteInv'
<1> USE TopologyOK
<1>r. /\ exitjob \in [Gateways -> ExitJob \cup {None}] /\ worker \in Workers
      /\ \A e \in Exits : exit[e] # None => row[IspOf[e]] # None
  BY DEF RowsInv, TypeOK, BoundInv
<1>1. CASE IspLane \/ Restart
  <2>1. \A e \in Exits : exit[e] # None => Connection(e)' = Connection(e)
    BY <1>1, <1>r, ChecksKeep DEF RowChecked, Connection
  <2>2. CASE IspLane
    <3>1. UNCHANGED exitVars
      BY <2>2 DEF IspLane, TakeCheck, ProbeIsp, RecordCheck, RecoverLane
    <3> QED BY <2>1, <3>1, RouteKept
  <2>3. CASE Restart
    <3>1. RecoverExit /\ UNCHANGED <<exit, raced, remote>>
      BY <2>3 DEF Restart
    <3> QED BY <2>1, <3>1, RouteGivenUp
  <2> QED BY <1>1, <2>2, <2>3
<1>2. CASE CheckDbFails \/ \E i \in Isps : EnqueueCheck(i)
  <2>1. UNCHANGED <<row, exitVars>>
    BY <1>2 DEF CheckDbFails, EnqueueCheck
  <2> QED BY <2>1, RouteKept DEF Connection
<1>3. ASSUME NEW f \in Exits, EnqueueExit(f) PROVE RouteInv'
  <2> DEFINE g == GatewayOf[f]
             job == [exit |-> f, state |-> "QUEUED"]
  <2>1. /\ exitjob[g] = None /\ exitjob' = [exitjob EXCEPT ![g] = job]
        /\ UNCHANGED <<row, exit, failed, raced, worker, remote>>
    BY <1>3 DEF EnqueueExit, Busy, ispVars
  <2>2. g \in Gateways /\ job \in ExitJob
    BY DEF ExitJob
  <2>3. \A h \in Gateways : exitjob'[h] = IF h = g THEN job ELSE exitjob[h]
    BY <1>r, <2>1, <2>2
  <2>4. \A h \in Gateways : (Running(h)' <=> Running(h)) /\ (exitjob'[h] = None => exitjob[h] = None)
    BY <2>1, <2>2, <2>3 DEF Running
  <2>5. JobInv'
    <3>1. worker # Free => worker.gateway \in Gateways
      BY <1>r DEF Workers
    <3> QED BY <2>1, <2>4, <3>1 DEF RouteInv, JobInv
  <2>6. CarriedInv'
    BY <2>1 DEF RouteInv, CarriedInv, Connection
  <2>7. RoutesFollow'
    BY <2>1, <2>4 DEF RouteInv, RoutesFollow, Busy
  <2> QED BY <2>5, <2>6, <2>7 DEF RouteInv
<1>4. CASE WorkerDbFails
  <2>1. /\ worker.step \in {"success", "fail"}
        /\ worker' = [worker EXCEPT !.step = IF @ = "success" THEN "fail" ELSE "recover"]
        /\ UNCHANGED <<row, exit, exitjob, failed, raced, remote>>
    BY <1>4 DEF WorkerDbFails, WorkerOnly, ispVars
  <2>2. /\ worker # Free /\ worker' # Free /\ worker'.gateway = worker.gateway
        /\ worker'.step \in {"fail", "recover"}
    BY <1>r, <2>1 DEF Workers, Free
  <2>3. JobInv'
    BY <2>1, <2>2 DEF RouteInv, JobInv, Running
  <2>4. CarriedInv'
    BY <2>2 DEF CarriedInv
  <2>5. RoutesFollow'
    BY <2>1 DEF RouteInv, RoutesFollow, Busy
  <2> QED BY <2>3, <2>4, <2>5 DEF RouteInv
<1> QED BY <1>1, <1>2, <1>3, <1>4 DEF Environment

\* "Exits bound to the ISP are deployed again": an applied exit of a gateway that is idle, and
\* whose last job did not fail, uses the present connection of its ISP, unless that connection
\* was edited while the exit was applied for the first time.
THEOREM Followed ==
    ASSUME ExitsAtHome PROVE Spec => []RoutesFollow
<1>1. Init => RouteInv
  BY RouteInit
<1>2. IspInv /\ RouteInv /\ [Next]_vars => RouteInv'
  <2> SUFFICES ASSUME RowsInv, RouteInv, [Next]_vars PROVE RouteInv'
    BY DEF IspInv
  <2>1. CASE UNCHANGED vars
    BY <2>1, RouteKept DEF vars, ispVars, Connection
  <2> QED
    BY <2>1, RequestRoutes, LaneRoutes, EnvironmentRoutes DEF Next
<1>3. RouteInv => RoutesFollow
  BY DEF RouteInv
<1> QED BY <1>1, <1>2, <1>3, IspAlways, PTL DEF Spec

-----------------------------------------------------------------------------
(* What ChecksFinish rests on: an ISP is shown CHECKING by its own check only. *)

ShownChecking(i) == row[i] # None /\ row[i].status = "CHECKING"

\* An ISP is shown CHECKING only while the lane checks it, or has yet to give its check up: no
\* failure, restart, edit or deletion leaves the status behind. (The converse does not hold: an
\* edit that began before the check was queued may be committed during it.)
CheckingIsChecked == \A i \in Isps : ShownChecking(i) => Checking(i)

\* The lane writes another status in the step in which it lets go of the ISP.
LEMMA CheckingStep == RowsInv /\ EditInv /\ CheckingIsChecked /\ [Next]_vars => CheckingIsChecked'
<1> SUFFICES ASSUME RowsInv, EditInv, CheckingIsChecked, [Next]_vars PROVE CheckingIsChecked'
  OBVIOUS
<1> USE DEF CheckingIsChecked, ShownChecking, Checking
<1>0. row \in [Isps -> IspRow \cup {None}] /\ None \notin IspRow
  BY TopologyOK DEF RowsInv, TypeOK
<1>a. ASSUME UNCHANGED lane, \A i \in Isps : ShownChecking(i)' => ShownChecking(i)
      PROVE  CheckingIsChecked'
  BY <1>a
<1>b. ASSUME NEW r, r.status # "CHECKING", lane # Free, row' = [row EXCEPT ![lane.isp] = r]
      PROVE  \A i \in Isps : ~ShownChecking(i)'
  <2> SUFFICES ASSUME NEW i \in Isps, ShownChecking(i)' PROVE FALSE
    OBVIOUS
  <2>1. CASE i = lane.isp
    BY <1>0, <1>b, <2>1
  <2>2. CASE i # lane.isp
    BY <1>0, <1>b, <2>2
  <2> QED BY <2>1, <2>2
<1>c. ASSUME RecoverIsp PROVE \A i \in Isps : ~ShownChecking(i)'
  <2>1. CASE lane = Free
    BY <1>c, <2>1 DEF RecoverIsp
  <2>2. CASE lane # Free
    <3> DEFINE r == [row[lane.isp] EXCEPT !.status = "UNKNOWN"]
    <3>1. row' = [row EXCEPT ![lane.isp] = r]
      BY <1>c, <2>2 DEF RecoverIsp
    <3>2. row[lane.isp] \in IspRow
      BY <2>2 DEF RowsInv, TypeOK, BoundInv, Lanes
    <3>3. r.status = "UNKNOWN"
      BY <3>2 DEF IspRow
    <3> HIDE DEF r
    <3> QED BY <1>b, <2>2, <3>1, <3>3
  <2> QED BY <2>1, <2>2
<1>1. ASSUME NEW a \in Requests, RequestSteps(a) PROVE CheckingIsChecked'
  <2>0. UNCHANGED lane
    BY <1>1 DEF RequestSteps, Register, Insert, InsertFails, BeginEdit, ProbeNew, RefuseNew,
                CommitEdit, CommitEditFails, DiscardSecret, Delete, BeginBind, Bind, ispVars
  <2>1. CASE Insert(a)
    <3>1. request[a].row.status = "NEW"
      BY <2>1 DEF Insert, EditInv, At
    <3> QED BY <1>0, <1>a, <2>0, <2>1, <3>1 DEF Insert
  <2>2. CASE CommitEdit(a)
    <3>1. ASSUME NEW i \in Isps PROVE ShownChecking(i)' => ShownChecking(i)
      <4>1. CASE request[a].isp = i
        BY <1>0, <2>2, <4>1 DEF CommitEdit, Store
      <4>2. CASE request[a].isp # i
        BY <1>0, <2>2, <4>2 DEF CommitEdit, Store
      <4> QED BY <4>1, <4>2
    <3> QED BY <1>a, <2>0, <3>1
  <2>3. ASSUME NEW j \in Isps, Delete(a, j) PROVE CheckingIsChecked'
    BY <1>0, <1>a, <2>0, <2>3 DEF Delete
  <2>4. \/ Insert(a) \/ CommitEdit(a) \/ \E j \in Isps : Delete(a, j)
        \/ UNCHANGED row
    BY <1>1 DEF RequestSteps, Register, InsertFails, BeginEdit, ProbeNew, RefuseNew,
               CommitEditFails, DiscardSecret, BeginBind, Bind, ispVars
  <2> QED BY <1>a, <2>0, <2>1, <2>2, <2>3, <2>4
<1>2. CASE TakeCheck
  <2>1. Head(queue) \in Isps /\ lane = Free /\ lane' # Free /\ lane'.isp = Head(queue)
    BY <1>2 DEF TakeCheck, RowsInv, TypeOK, Free
  <2>2. \A i \in Isps : i # Head(queue) => row'[i] = row[i]
    BY <1>0, <1>2 DEF TakeCheck
  <2> QED BY <2>1, <2>2
<1>3. CASE RecordCheck
  <2> DEFINE expected == IF row[lane.isp].expected = None THEN lane.actual ELSE row[lane.isp].expected
             health == IF lane.actual # None /\ expected = lane.actual /\ ~row[lane.isp].expired
                       THEN "HEALTHY" ELSE "CRITICAL"
             r == [row[lane.isp] EXCEPT !.expected = expected, !.current = lane.actual,
                                        !.crossed = FALSE, !.status = health]
  <2>1. lane # Free /\ lane.isp \in Isps /\ row[lane.isp] \in IspRow
    BY <1>3 DEF RecordCheck, RowsInv, TypeOK, BoundInv, Lanes, Free
  <2>2. row' = [row EXCEPT ![lane.isp] = r]
    BY <1>0, <1>3, <2>1 DEF RecordCheck, Record
  <2>3. r.status = health /\ health # "CHECKING"
    BY <2>1 DEF IspRow
  <2> HIDE DEF r, health
  <2> QED BY <1>b, <2>1, <2>2, <2>3
<1>4. CASE RecoverLane \/ Restart
  BY <1>4, <1>c DEF RecoverLane, Restart
<1>5. ASSUME NEW ip \in IPs \cup {None}, ProbeIsp(ip) PROVE CheckingIsChecked'
  BY <1>5 DEF ProbeIsp, Free
<1>6. CASE CheckDbFails
  BY <1>6 DEF CheckDbFails, RowsInv, TypeOK, Lanes, Free
<1>7. CASE (ConfigurationLane \/ Environment \/ UNCHANGED vars) /\ ~Restart /\ ~CheckDbFails
  <2>1. UNCHANGED <<row, lane>>
    BY <1>7 DEF ConfigurationLane, TakeExit, ReadRows, ReadSecrets, WorkerFails, RecordSuccess,
                RecordFailure, ApplyRemote, RecoverWorker, WorkerOnly, Environment, EnqueueCheck,
                EnqueueExit, WorkerDbFails, vars, ispVars
  <2> QED BY <1>a, <2>1
<1> QED BY <1>1, <1>2, <1>3, <1>4, <1>5, <1>6, <1>7 DEF Next, IspLane, Measured

\* No ISP is left CHECKING by a check that is over: done, interrupted by a restart, or failed.
THEOREM CheckingEnds == Spec => []CheckingIsChecked
<1>1. Init => CheckingIsChecked
  <2> SUFFICES ASSUME Init, NEW i \in Isps, ShownChecking(i) PROVE FALSE
    BY DEF CheckingIsChecked
  <2>1. PICK ip \in IPs, order \in [Isps -> Refs] :
           row = [j \in Isps |-> IF j \in Ready THEN Checked(ip, order[j]) ELSE None]
    BY DEF Init
  <2> QED BY <2>1 DEF Checked, ShownChecking
<1>2. IspInv /\ CheckingIsChecked /\ [Next]_vars => CheckingIsChecked'
  BY CheckingStep DEF IspInv
<1> QED BY <1>1, <1>2, IspAlways, PTL DEF Spec

=============================================================================
