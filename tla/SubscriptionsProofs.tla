------------------------- MODULE SubscriptionsProofs -------------------------
(***************************************************************************)
(* Proofs about Subscriptions, for any number of exits, gateways, groups,  *)
(* administrators and tokens.                                              *)
(***************************************************************************)
EXTENDS Subscriptions, TLAPS

\* The window ServedIsVerified leaves out: the health lane takes the grace of the guard for an
\* observation of a direct exit.
GraceIsForIsps == SoftFails \cap Direct = {}

\* The clients of a gateway, as the database has them.
ClientsAt(gw) ==
    [g \in Groups |->
        IF groups[g] # None /\ groups[g].client /\ groups[g].exit \in At(gw)
        THEN [exit |-> groups[g].exit, ai |-> groups[g].ai] ELSE None]

\* What a job has read is still true of the database: every edit of a client waits for it.
JobInv ==
    \A gw \in Gateways :
        /\ job[gw] # None => job[gw].exit \in At(gw)
        /\ job[gw] # None /\ job[gw].step \in {"running", "applied"} => job[gw].clients = ClientsAt(gw)
        /\ job[gw] # None /\ job[gw].step = "applied" =>
              routes[gw] = job[gw].clients /\ job[gw].enabled \subseteq seen

\* A confirmation is the last page about its group, which stays on its gateway.
PageInv ==
    \A t \in Tokens : confirmations[t] # None =>
        /\ page[confirmations[t].group] = confirmations[t]
        /\ GatewayOf[confirmations[t].old] = GatewayOf[confirmations[t].new]

ReadyInv == \A g \in Groups : groups[g] # None /\ groups[g].state = "READY" => groups[g].client

\* What counts as fresh was observed in the last two minutes.
SeenInv ==
    /\ \A e \in Exits \ Watched : e \in seen
    /\ \A e \in Exits : evidence[e] = "ok" => e \in seen
    /\ \A gw \in Gateways :
          /\ report[gw] \subseteq seen
          /\ \A e \in At(gw) : guard[gw].fresh /\ guard[gw].rows[e] = "ok" => e \in seen
          /\ \A e \in At(gw) \cap Direct : guard[gw].rows[e] # "grace"

GroupsInv == TypeOK /\ JobInv /\ PageInv /\ ReadyInv /\ ReadyIsRouted /\ AiIsAtHome

\* Nothing is registered; every address was just observed.
LEMMA GroupsInit == Init => GroupsInv /\ SeenInv
<1> SUFFICES ASSUME Init PROVE GroupsInv /\ SeenInv
  OBVIOUS
<1>1. TypeOK
  BY ExitsOK DEF Init, TypeOK, At, Gateways
<1>2. JobInv /\ PageInv /\ ReadyInv /\ ReadyIsRouted /\ AiIsAtHome
  BY DEF Init, JobInv, PageInv, ReadyInv, ReadyIsRouted, AiIsAtHome
<1>3. SeenInv
  BY DEF Init, SeenInv, At
<1> QED BY <1>1, <1>2, <1>3 DEF GroupsInv

\* An exit is on the gateway it is bound to.
LEMMA Places == \A e \in Exits : GatewayOf[e] \in Gateways /\ \A gw : e \in At(gw) <=> GatewayOf[e] = gw
BY ExitsOK DEF Gateways, At

\* Which groups may be READY, and where their exits are.
RowsInv == JobInv /\ ReadyInv /\ ReadyIsRouted /\ AiIsAtHome

\* A job for this row, where no job is active.
JobFor(r) == /\ job[GatewayOf[r.exit]] = None
             /\ job' = [job EXCEPT ![GatewayOf[r.exit]] = [exit |-> r.exit, step |-> "queued"]]

\* A row is edited on its gateway: as a client only without a job, and READY only unchanged.
LEMMA RowEdited ==
    ASSUME TypeOK, RowsInv, NEW g \in Groups, NEW r \in Group, groups[g] # None,
           groups' = [groups EXCEPT ![g] = r], UNCHANGED <<routes, seen>>,
           GatewayOf[r.exit] = Home(g),
           UNCHANGED job \/ JobFor(r),
           r.client => job[Home(g)] = None,
           groups[g].client => r.client,
           r.state = "READY" => /\ groups[g].state = "READY" /\ r.client
                                /\ r.exit = groups[g].exit /\ r.ai = groups[g].ai,
           r.ai # None => GatewayOf[r.ai] = Home(g)
    PROVE  RowsInv' /\ groups' \in [Groups -> Group \cup {None}] /\ job' \in [Gateways -> Job \cup {None}]
<1>1. groups \in [Groups -> Group \cup {None}] /\ job \in [Gateways -> Job \cup {None}]
  BY DEF TypeOK
<1>2. groups[g] \in Group /\ r.exit \in Exits /\ groups[g].exit \in Exits
  BY <1>1 DEF Group
<1>3. /\ groups' \in [Groups -> Group \cup {None}] /\ groups'[g] = r /\ r # None
      /\ \A h \in Groups : h # g => groups'[h] = groups[h]
  BY <1>1, ExitsOK
<1>4. /\ job' \in [Gateways -> Job \cup {None}]
      /\ \A gw \in Gateways : \/ job'[gw] = job[gw]
                              \/ /\ job'[gw].step = "queued" /\ job'[gw].exit \in At(gw)
  <2>1. CASE UNCHANGED job
    BY <1>1, <2>1
  <2>2. CASE JobFor(r)
    <3>1. [exit |-> r.exit, step |-> "queued"] \in Job
      BY <1>2 DEF Job
    <3> QED BY <1>1, <1>2, <2>2, <3>1, Places DEF JobFor
  <2> QED BY <2>1, <2>2
<1>5. ASSUME NEW gw \in Gateways, job[gw] # None PROVE ClientsAt(gw)' = ClientsAt(gw)
  <2>1. CASE gw = Home(g)
    <3>1. ~r.client /\ ~groups[g].client
      BY <1>5, <2>1
    <3> QED BY <1>3, <3>1 DEF ClientsAt
  <2>2. CASE gw # Home(g)
    <3>1. r.exit \notin At(gw) /\ groups[g].exit \notin At(gw)
      BY <1>2, <2>2, Places DEF Home
    <3> QED BY <1>3, <3>1 DEF ClientsAt
  <2> QED BY <2>1, <2>2
<1>6. JobInv'
  <2> SUFFICES ASSUME NEW gw \in Gateways
               PROVE  (/\ job[gw] # None => job[gw].exit \in At(gw)
                       /\ job[gw] # None /\ job[gw].step \in {"running", "applied"} =>
                             job[gw].clients = ClientsAt(gw)
                       /\ job[gw] # None /\ job[gw].step = "applied" =>
                             routes[gw] = job[gw].clients /\ job[gw].enabled \subseteq seen)'
    BY DEF JobInv
  <2>1. CASE job'[gw] = job[gw]
    BY <1>5, <2>1 DEF RowsInv, JobInv
  <2>2. CASE job'[gw].step = "queued" /\ job'[gw].exit \in At(gw)
    BY <2>2
  <2> QED BY <1>4, <2>1, <2>2
<1>7. ReadyInv'
  BY <1>3 DEF RowsInv, ReadyInv
<1>8. ReadyIsRouted'
  BY <1>3 DEF RowsInv, ReadyIsRouted, Home
<1>9. AiIsAtHome'
  BY <1>3 DEF RowsInv, AiIsAtHome, Home
<1> QED BY <1>3, <1>4, <1>6, <1>7, <1>8, <1>9 DEF RowsInv

\* queue() edits the row on behalf of which it is called.
LEMMA QueueEdits ==
    ASSUME TypeOK, RowsInv, NEW g \in Groups, NEW r \in Group, groups[g] # None, Queue(g, r),
           UNCHANGED <<routes, seen>>, GatewayOf[r.exit] = Home(g), r.client,
           r.state = "READY" => /\ groups[g].state = "READY"
                                /\ r.exit = groups[g].exit /\ r.ai = groups[g].ai,
           r.ai # None => GatewayOf[r.ai] = Home(g)
    PROVE  RowsInv' /\ groups' \in [Groups -> Group \cup {None}] /\ job' \in [Gateways -> Job \cup {None}]
<1> DEFINE q == [r EXCEPT !.state = IF r.state = "READY" /\ r.deployed = r.exit
                                   THEN "READY" ELSE "PENDING"]
<1>1. /\ q \in Group /\ q.exit = r.exit /\ q.ai = r.ai /\ q.client = r.client
      /\ q.state = "READY" => r.state = "READY"
  BY DEF Group
<1>2. groups' = [groups EXCEPT ![g] = q] /\ JobFor(r)
  BY DEF Queue, JobFor
<1>3. JobFor(q) /\ job[Home(g)] = None
  BY <1>1, <1>2 DEF JobFor
<1> HIDE DEF q
<1> QED BY <1>1, <1>2, <1>3, RowEdited

\* A request of the administrator edits one row, or shows a page about it.
LEMMA RequestStep ==
    ASSUME GroupsInv, NEW g \in Groups,
           \/ \E e \in Exits, ai \in Exits \cup {None} : Register(g, e, ai)
           \/ Activate(g) \/ Delete(g)
           \/ \E ai \in Exits \cup {None} : Update(g, ai)
           \/ \E t \in Tokens, actor \in Actors :
                 Confirm(g, t, actor) \/ \E e \in Exits : Prepare(g, t, e, actor)
    PROVE  GroupsInv'
<1>t. /\ groups \in [Groups -> Group \cup {None}] /\ page \in [Groups -> Change \cup {None}]
      /\ confirmations \in [Tokens -> Change \cup {None}]
      /\ job \in [Gateways -> Job \cup {None}]
  BY DEF GroupsInv, TypeOK
<1>r. TypeOK /\ RowsInv
  BY DEF GroupsInv, RowsInv
<1>g. groups[g] # None => /\ groups[g] \in Group /\ groups[g].exit \in Exits
                          /\ Home(g) = GatewayOf[groups[g].exit] /\ Home(g) \in Gateways
                          /\ groups[g].ai # None => GatewayOf[groups[g].ai] = Home(g)
  BY <1>t, Places DEF Group, Home, GroupsInv, AiIsAtHome
<1>n. \A r \in Group : r # None
  BY ExitsOK
<1>1. ASSUME NEW e \in Exits, NEW ai \in Exits \cup {None}, Register(g, e, ai) PROVE GroupsInv'
  <2> DEFINE r == [exit |-> e, ai |-> ai, client |-> FALSE, deployed |-> None, state |-> "PENDING"]
  <2>1. r \in Group
    BY DEF Group
  <2>2. /\ groups'[g] = r /\ r # None /\ groups[g] = None
        /\ \A h \in Groups : h # g => groups'[h] = groups[h]
        /\ groups' \in [Groups -> Group \cup {None}]
        /\ UNCHANGED <<confirmations, job, routes, checkVars, page>>
    BY <1>1, <1>t, <1>n, <2>1 DEF Register
  <2>3. \A gw \in Gateways : ClientsAt(gw)' = ClientsAt(gw)
    BY <2>2 DEF ClientsAt
  <2>4. TypeOK' /\ JobInv' /\ PageInv' /\ ReadyInv' /\ ReadyIsRouted'
    <3>1. TypeOK'
      BY <2>2 DEF GroupsInv, TypeOK, checkVars
    <3>2. JobInv'
      BY <2>2, <2>3 DEF GroupsInv, JobInv, checkVars
    <3>3. PageInv'
      BY <2>2 DEF GroupsInv, PageInv
    <3>4. r.state # "READY"
      OBVIOUS
    <3> HIDE DEF r
    <3>5. ReadyInv' /\ ReadyIsRouted'
      BY <2>2, <3>4 DEF GroupsInv, ReadyInv, ReadyIsRouted, Home
    <3> QED BY <3>1, <3>2, <3>3, <3>5
  <2>5. AiIsAtHome'
    BY <1>1, <2>2, ExitsOK DEF Register, AiChoice, GroupsInv, AiIsAtHome, Home
  <2> QED BY <2>4, <2>5 DEF GroupsInv
<1>2. CASE Activate(g)
  <2> DEFINE r == [groups[g] EXCEPT !.client = TRUE]
  <2>1. /\ r \in Group /\ r.exit = groups[g].exit /\ r.ai = groups[g].ai /\ r.client
        /\ r.state = groups[g].state
    BY <1>2, <1>g DEF Activate, Group
  <2>2. Queue(g, r) /\ UNCHANGED <<confirmations, routes, checkVars, page>> /\ groups[g] # None
    BY <1>2 DEF Activate
  <2> HIDE DEF r
  <2>3. RowsInv' /\ groups' \in [Groups -> Group \cup {None}] /\ job' \in [Gateways -> Job \cup {None}]
    BY <1>r, <1>g, <2>1, <2>2, QueueEdits DEF checkVars
  <2> QED BY <2>2, <2>3 DEF GroupsInv, RowsInv, TypeOK, PageInv, checkVars
<1>3. CASE Delete(g)
  <2>1. /\ groups'[g] = None /\ groups' \in [Groups -> Group \cup {None}]
        /\ \A h \in Groups : h # g => groups'[h] = groups[h]
        /\ groups[g] # None /\ job[Home(g)] = None
        /\ UNCHANGED <<job, routes, checkVars>>
    BY <1>3, <1>t DEF Delete
  <2>2. ASSUME NEW gw \in Gateways, job[gw] # None PROVE ClientsAt(gw)' = ClientsAt(gw)
    <3>1. groups[g].exit \notin At(gw)
      BY <1>g, <2>1, <2>2, Places
    <3> QED BY <2>1, <3>1 DEF ClientsAt
  <2>3. JobInv'
    BY <2>1, <2>2 DEF GroupsInv, JobInv, checkVars
  <2>4. /\ confirmations' \in [Tokens -> Change \cup {None}] /\ page' \in [Groups -> Change \cup {None}]
        /\ \A t \in Tokens : confirmations'[t] # None =>
              confirmations'[t] = confirmations[t] /\ confirmations[t].group # g
        /\ \A h \in Groups : h # g => page'[h] = page[h]
    BY <1>3, <1>t DEF Delete
  <2>5. PageInv'
    BY <1>t, <2>4 DEF GroupsInv, PageInv, Change
  <2>6. ReadyInv' /\ ReadyIsRouted' /\ AiIsAtHome'
    BY <2>1 DEF GroupsInv, ReadyInv, ReadyIsRouted, AiIsAtHome, Home
  <2>7. TypeOK'
    BY <2>1, <2>4 DEF GroupsInv, TypeOK, checkVars
  <2> QED BY <2>3, <2>5, <2>6, <2>7 DEF GroupsInv
<1>4. ASSUME NEW ai \in Exits \cup {None}, Update(g, ai) PROVE GroupsInv'
  <2> DEFINE r == [groups[g] EXCEPT !.ai = ai, !.state = "PENDING"]
  <2>1. /\ r \in Group /\ r.exit = groups[g].exit /\ r.ai = ai /\ r.client = groups[g].client
        /\ r.state = "PENDING" /\ groups[g] # None
    BY <1>4, <1>g DEF Update, Group
  <2>2. ai # None => GatewayOf[ai] = Home(g)
    BY <1>4, <1>g DEF Update, AiChoice
  <2>3. IF r.client THEN Queue(g, r) ELSE groups' = [groups EXCEPT ![g] = r] /\ UNCHANGED job
    BY <1>4, <2>1 DEF Update
  <2>4. UNCHANGED <<confirmations, routes, checkVars, page>>
    BY <1>4 DEF Update
  <2> HIDE DEF r
  <2>5. RowsInv' /\ groups' \in [Groups -> Group \cup {None}] /\ job' \in [Gateways -> Job \cup {None}]
    <3>1. CASE r.client
      BY <1>r, <1>g, <2>1, <2>2, <2>3, <2>4, <3>1, QueueEdits DEF checkVars
    <3>2. CASE ~r.client
      BY <1>r, <1>g, <2>1, <2>2, <2>3, <2>4, <3>2, RowEdited DEF checkVars
    <3> QED BY <3>1, <3>2
  <2> QED BY <2>4, <2>5 DEF GroupsInv, RowsInv, TypeOK, PageInv, checkVars
<1>5. ASSUME NEW t \in Tokens, NEW actor \in Actors, Confirm(g, t, actor) PROVE GroupsInv'
  <2> DEFINE new == confirmations[t].new
             r == [groups[g] EXCEPT !.exit = new, !.state = "PENDING"]
  <2>1. /\ confirmations[t] \in Change /\ confirmations[t].old = groups[g].exit /\ groups[g] # None
        /\ new \in Exits
    BY <1>5, <1>t DEF Confirm, Change
  <2>2. GatewayOf[new] = Home(g)
    BY <1>5, <1>g, <2>1 DEF Confirm, GroupsInv, PageInv
  <2>3. /\ r \in Group /\ r.exit = new /\ r.ai = groups[g].ai /\ r.client = groups[g].client
        /\ r.state = "PENDING"
    BY <1>g, <2>1 DEF Group
  <2>4. IF r.client THEN Queue(g, r) ELSE groups' = [groups EXCEPT ![g] = r] /\ UNCHANGED job
    BY <1>5, <2>3 DEF Confirm
  <2>5. UNCHANGED <<routes, checkVars>>
    BY <1>5 DEF Confirm
  <2>6. /\ confirmations' \in [Tokens -> Change \cup {None}] /\ page' \in [Groups -> Change \cup {None}]
        /\ \A u \in Tokens : confirmations'[u] # None =>
              confirmations'[u] = confirmations[u] /\ confirmations[u].group # g
        /\ \A h \in Groups : h # g => page'[h] = page[h]
    BY <1>5, <1>t DEF Confirm
  <2>7. PageInv'
    BY <1>t, <2>6 DEF GroupsInv, PageInv, Change
  <2> HIDE DEF new, r
  <2>8. RowsInv' /\ groups' \in [Groups -> Group \cup {None}] /\ job' \in [Gateways -> Job \cup {None}]
    <3>1. CASE r.client
      BY <1>r, <1>g, <2>1, <2>2, <2>3, <2>4, <2>5, <3>1, QueueEdits DEF checkVars
    <3>2. CASE ~r.client
      BY <1>r, <1>g, <2>1, <2>2, <2>3, <2>4, <2>5, <3>2, RowEdited DEF checkVars
    <3> QED BY <3>1, <3>2
  <2> QED BY <2>5, <2>6, <2>7, <2>8 DEF GroupsInv, RowsInv, TypeOK, checkVars
<1>6. ASSUME NEW t \in Tokens, NEW actor \in Actors, NEW e \in Exits, Prepare(g, t, e, actor)
      PROVE  GroupsInv'
  <2> DEFINE c == Shown(g, e, actor)
  <2>1. c \in Change /\ c.group = g /\ c # None /\ GatewayOf[c.old] = GatewayOf[c.new]
    <3>1. c \in Change
      BY <1>6, <1>g DEF Prepare, Shown, Change
    <3>2. c.group = g /\ GatewayOf[c.old] = GatewayOf[c.new]
      BY <1>6, <1>g DEF Prepare, Shown
    <3> QED BY <3>1, <3>2, ExitsOK
  <2> HIDE DEF c
  <2>2. /\ page' \in [Groups -> Change \cup {None}] /\ page'[g] = c
        /\ \A h \in Groups : h # g => page'[h] = page[h]
    BY <1>6, <1>t, <2>1 DEF Prepare, c
  <2>3. /\ confirmations' \in [Tokens -> Change \cup {None}]
        /\ \A u \in Tokens : confirmations'[u] # None =>
              \/ confirmations'[u] = c
              \/ confirmations'[u] = confirmations[u] /\ confirmations[u].group # g
    BY <1>6, <1>t, <2>1 DEF Prepare, c
  <2>4. PageInv'
    BY <1>t, <2>1, <2>2, <2>3 DEF GroupsInv, PageInv, Change
  <2>5. UNCHANGED <<groups, job, routes, checkVars>>
    BY <1>6 DEF Prepare
  <2> QED
    BY <2>2, <2>3, <2>4, <2>5 DEF GroupsInv, TypeOK, JobInv, ClientsAt, ReadyInv, ReadyIsRouted, Home,
       AiIsAtHome, checkVars
<1> QED BY <1>1, <1>2, <1>3, <1>4, <1>5, <1>6

\* What the end of a job of gateway gw does to a row: its connection stays, and it becomes READY
\* only as the gateway has it.
JobEnds(g, gw) ==
    /\ groups'[g] = None <=> groups[g] = None
    /\ groups[g] # None =>
          /\ groups'[g].exit = groups[g].exit /\ groups'[g].ai = groups[g].ai
          /\ groups'[g].client = groups[g].client
          /\ groups'[g].state = "READY" =>
                \/ groups[g].state = "READY"
                \/ groups[g].client /\ Home(g) = gw /\ routes[gw] = ClientsAt(gw)

\* What a worker does for a gateway: the snapshot, the installation, and how the job ends.
LEMMA WorkStep ==
    ASSUME GroupsInv, NEW gw \in Gateways,
           \/ Take(gw) \/ Apply(gw) \/ Succeed(gw) \/ Interrupted(gw)
           \/ \E working \in BOOLEAN : Fail(gw, working)
    PROVE  GroupsInv'
<1>t. /\ groups \in [Groups -> Group \cup {None}] /\ job \in [Gateways -> Job \cup {None}]
      /\ routes \in [Gateways -> [Groups -> Route \cup {None}]]
      /\ job[gw] # None => job[gw] \in Job /\ job[gw].exit \in At(gw) /\ job[gw].exit \in Exits
  BY DEF GroupsInv, TypeOK, JobInv, At
<1>w. job[gw] # None /\ job[gw].step \in {"running", "applied"} =>
         /\ job[gw].enabled \subseteq Exits /\ job[gw].clients \in [Groups -> Route \cup {None}]
         /\ job[gw].clients = ClientsAt(gw)
  BY <1>t DEF Job, GroupsInv, JobInv
<1>n. (\A r \in Group : r # None) /\ (\A j \in Job : j # None) /\ (\A r \in Route : r # None)
  BY ExitsOK
<1>c. ClientsAt(gw) \in [Groups -> Route \cup {None}]
  BY <1>t DEF ClientsAt, Group, Route
<1>1. CASE Take(gw)
  <2> DEFINE j == [exit |-> job[gw].exit, step |-> "running",
                   enabled |-> {e \in At(gw) : evidence[e] # "changed"}, clients |-> ClientsAt(gw)]
  <2>1. j \in Job
    BY <1>1, <1>t, <1>c DEF Take, Job, At
  <2>2. job' = [job EXCEPT ![gw] = j]
    BY <1>1 DEF Take, ClientsAt
  <2>3. UNCHANGED <<groups, confirmations, routes, checkVars, page>> /\ job[gw] # None
    BY <1>1 DEF Take
  <2>4. \A g2 \in Gateways : ClientsAt(g2)' = ClientsAt(g2)
    BY <2>3 DEF ClientsAt
  <2>5. j.exit \in At(gw) /\ j.step = "running" /\ j.clients = ClientsAt(gw)
    BY <1>t, <2>3
  <2> HIDE DEF j
  <2>6. JobInv'
    BY <1>t, <2>2, <2>3, <2>4, <2>5 DEF GroupsInv, JobInv, checkVars
  <2>7. TypeOK'
    BY <1>t, <2>1, <2>2, <2>3 DEF GroupsInv, TypeOK, checkVars
  <2> QED
    BY <2>3, <2>6, <2>7 DEF GroupsInv, PageInv, ReadyInv, ReadyIsRouted, Home, AiIsAtHome
<1>2. CASE Apply(gw)
  <2> DEFINE j == [job[gw] EXCEPT !.step = "applied"]
  <2>1. job[gw] # None /\ job[gw].step = "running"
        /\ UNCHANGED <<groups, confirmations, evidence, unknown, guard, report, page>>
        /\ routes' = [routes EXCEPT ![gw] = ClientsAt(gw)] /\ seen' = seen \cup job[gw].enabled
        /\ job' = [job EXCEPT ![gw] = j]
    BY <1>2, <1>w DEF Apply
  <2>2. job[gw] \in [exit : Exits, step : {"running", "applied"}, enabled : SUBSET Exits,
                    clients : [Groups -> Route \cup {None}]]
    BY <1>t, <2>1 DEF Job
  <2>3. /\ j \in Job /\ j.step = "applied" /\ j.exit = job[gw].exit /\ j.clients = ClientsAt(gw)
        /\ j.enabled = job[gw].enabled
    BY <1>w, <2>1, <2>2 DEF Job
  <2>4. \A g2 \in Gateways : ClientsAt(g2)' = ClientsAt(g2)
    BY <2>1 DEF ClientsAt
  <2> HIDE DEF j
  <2>5. TypeOK'
    BY <1>t, <1>w, <1>c, <2>1, <2>3 DEF GroupsInv, TypeOK
  <2>6. JobInv'
    BY <1>t, <2>1, <2>3, <2>4 DEF GroupsInv, JobInv
  <2>7. ReadyIsRouted'
    <3> SUFFICES ASSUME NEW g \in Groups, groups[g] # None, groups[g].state = "READY"
                 PROVE  routes'[Home(g)][g] = [exit |-> groups[g].exit, ai |-> groups[g].ai]
      BY <2>1 DEF ReadyIsRouted, Home
    <3>1. groups[g].exit \in Exits /\ groups[g].client /\ Home(g) \in Gateways
          /\ groups[g].exit \in At(Home(g))
      BY <1>t, Places DEF Group, Home, GroupsInv, ReadyInv
    <3>2. CASE Home(g) = gw
      BY <1>t, <2>1, <3>1, <3>2 DEF ClientsAt
    <3>3. CASE Home(g) # gw
      BY <1>t, <2>1, <3>1, <3>3 DEF GroupsInv, ReadyIsRouted
    <3> QED BY <3>2, <3>3
  <2> QED BY <2>1, <2>5, <2>6, <2>7 DEF GroupsInv, PageInv, ReadyInv, AiIsAtHome, Home
<1>3. ASSUME job' = [job EXCEPT ![gw] = None], UNCHANGED <<confirmations, routes, guard, report, seen, page>>,
             evidence' \in [Exits -> {"ok", "stale", "failed", "changed"}], unknown' \subseteq Direct,
             groups' \in [Groups -> Group \cup {None}],
             \A g \in Groups : JobEnds(g, gw)
      PROVE  GroupsInv'
  <2>1. \A g2 \in Gateways : ClientsAt(g2)' = ClientsAt(g2)
    BY <1>3 DEF JobEnds, ClientsAt
  <2>2. TypeOK'
    BY <1>3, <1>t DEF GroupsInv, TypeOK
  <2>3. JobInv'
    BY <1>3, <1>t, <2>1 DEF GroupsInv, JobInv
  <2>4. ReadyInv' /\ AiIsAtHome' /\ PageInv'
    BY <1>3 DEF JobEnds, GroupsInv, ReadyInv, AiIsAtHome, Home, PageInv
  <2>5. ReadyIsRouted'
    <3> SUFFICES ASSUME NEW g \in Groups, groups[g] # None, groups'[g].state = "READY"
                 PROVE  routes[Home(g)][g] = [exit |-> groups[g].exit, ai |-> groups[g].ai]
      BY <1>3 DEF JobEnds, ReadyIsRouted, Home
    <3>1. CASE groups[g].state = "READY"
      BY <3>1 DEF GroupsInv, ReadyIsRouted
    <3>2. CASE groups[g].client /\ Home(g) = gw /\ routes[gw] = ClientsAt(gw)
      <4>1. groups[g].exit \in At(gw)
        BY <1>t, <3>2, Places DEF Group, Home
      <4> QED BY <3>2, <4>1 DEF ClientsAt
    <3> QED BY <1>3, <3>1, <3>2 DEF JobEnds
  <2> QED BY <2>2, <2>3, <2>4, <2>5 DEF GroupsInv
<1>4. CASE Succeed(gw)
  <2>1. /\ job[gw] # None /\ job[gw].clients = ClientsAt(gw) /\ routes[gw] = ClientsAt(gw)
    BY <1>4, <1>w DEF Succeed, GroupsInv, JobInv
  <2>2. \A g \in Groups :
          \/ groups'[g] = groups[g]
          \/ /\ groups[g] # None /\ ClientsAt(gw)[g] # None
             /\ groups'[g] = [groups[g] EXCEPT !.deployed = groups[g].exit,
                    !.state = IF groups[g].exit \in job[gw].enabled THEN "READY" ELSE "PENDING"]
    BY <1>4, <2>1 DEF Succeed
  <2>3. ASSUME NEW g \in Groups, ClientsAt(gw)[g] # None PROVE groups[g].client /\ Home(g) = gw
    BY <2>3, Places DEF ClientsAt, Home, At
  <2>4. ASSUME NEW g \in Groups, groups[g] # None
        PROVE  /\ [groups[g] EXCEPT !.deployed = groups[g].exit,
                    !.state = IF groups[g].exit \in job[gw].enabled THEN "READY" ELSE "PENDING"] \in Group
               /\ groups[g] \in Group
    BY <1>t, <2>4 DEF Group
  <2>5. groups' \in [Groups -> Group \cup {None}]
    <3>1. DOMAIN groups' = Groups /\ groups' = [g \in Groups |-> groups'[g]]
      BY <1>4 DEF Succeed
    <3> QED BY <1>t, <2>2, <2>4, <3>1
  <2>6. \A g \in Groups : JobEnds(g, gw)
    <3> SUFFICES ASSUME NEW g \in Groups PROVE JobEnds(g, gw)
      OBVIOUS
    <3> USE DEF JobEnds
    <3>1. CASE groups'[g] = groups[g]
      BY <3>1
    <3>2. CASE /\ groups[g] # None /\ ClientsAt(gw)[g] # None
               /\ groups'[g] = [groups[g] EXCEPT !.deployed = groups[g].exit,
                    !.state = IF groups[g].exit \in job[gw].enabled THEN "READY" ELSE "PENDING"]
      <4>1. groups'[g] \in Group /\ groups[g] \in Group
        BY <2>4, <3>2
      <4>2. /\ groups'[g].exit = groups[g].exit /\ groups'[g].ai = groups[g].ai
            /\ groups'[g].client = groups[g].client
        BY <3>2, <4>1 DEF Group
      <4> QED BY <1>n, <2>1, <2>3, <3>2, <4>1, <4>2
    <3> QED BY <2>2, <3>1, <3>2
  <2>7. /\ job' = [job EXCEPT ![gw] = None]
        /\ UNCHANGED <<confirmations, routes, guard, report, seen, page>>
        /\ evidence' \in [Exits -> {"ok", "stale", "failed", "changed"}] /\ unknown' \subseteq Direct
    BY <1>4 DEF Succeed, GroupsInv, TypeOK
  <2> QED BY <1>3, <2>5, <2>6, <2>7
<1>5. ASSUME NEW working \in BOOLEAN, Fail(gw, working) PROVE GroupsInv'
  <2>1. \A g \in Groups :
          \/ groups'[g] = groups[g]
          \/ groups[g] # None /\ groups'[g] = [groups[g] EXCEPT !.state = "PENDING"]
    BY <1>5 DEF Fail
  <2>2. ASSUME NEW g \in Groups, groups[g] # None
        PROVE  LET r == [groups[g] EXCEPT !.state = "PENDING"]
               IN  /\ r \in Group /\ r # None /\ r.exit = groups[g].exit /\ r.ai = groups[g].ai
                   /\ r.client = groups[g].client /\ r.state = "PENDING"
    <3>1. groups[g] \in Group
      BY <1>t, <2>2
    <3>2. [groups[g] EXCEPT !.state = "PENDING"] \in Group
      BY <3>1 DEF Group
    <3> QED BY <1>n, <3>1, <3>2 DEF Group
  <2>3. groups' \in [Groups -> Group \cup {None}]
    <3>1. groups' = [g \in Groups |-> groups'[g]]
      BY <1>5 DEF Fail
    <3> QED BY <1>t, <2>1, <2>2, <3>1
  <2>4. /\ job' = [job EXCEPT ![gw] = None]
        /\ UNCHANGED <<confirmations, routes, guard, report, seen, page, evidence>>
        /\ unknown' \subseteq Direct
    BY <1>5 DEF Fail, GroupsInv, TypeOK
  <2>5. evidence' \in [Exits -> {"ok", "stale", "failed", "changed"}]
    BY <2>4 DEF GroupsInv, TypeOK
  <2>6. \A g \in Groups : JobEnds(g, gw)
    BY <2>1, <2>2 DEF JobEnds
  <2> QED BY <1>3, <2>3, <2>4, <2>5, <2>6
<1>6. CASE Interrupted(gw)
  <2>1. /\ job' = [job EXCEPT ![gw] = None]
        /\ UNCHANGED <<groups, confirmations, routes, evidence, guard, report, page, seen>>
        /\ unknown' \subseteq Direct
    BY <1>6 DEF Interrupted, GroupsInv, TypeOK
  <2>2. evidence' \in [Exits -> {"ok", "stale", "failed", "changed"}]
    BY <2>1 DEF GroupsInv, TypeOK
  <2>3. \A g \in Groups : JobEnds(g, gw)
    BY <2>1 DEF JobEnds
  <2> QED BY <1>3, <1>t, <2>1, <2>2, <2>3
<1> QED BY <1>1, <1>2, <1>4, <1>5, <1>6

\* Checks and time change what is known of the exits, and no row, job or route.
Checks ==
    \/ \E gw \in Gateways :
          \/ Health(gw)
          \/ \E ok \in SUBSET At(gw) : \E soft \in SUBSET ((SoftFails \cap At(gw)) \ ok) :
                Round(gw, ok, soft)
    \/ \E e \in Exits, result \in {"ok", "failed", "changed"} : IspCheck(e, result)
    \/ Tick

\* They keep the inductive invariant ...
LEMMA CheckStep == ASSUME GroupsInv, Checks PROVE GroupsInv'
<1>t. /\ evidence \in [Exits -> {"ok", "stale", "failed", "changed"}] /\ unknown \subseteq Direct
      /\ report \in [Gateways -> SUBSET Exits] /\ seen \subseteq Exits
      /\ confirmations \in [Tokens -> Change \cup {None}] /\ page \in [Groups -> Change \cup {None}]
  BY DEF GroupsInv, TypeOK
<1>1. UNCHANGED <<groups, job, routes>>
  BY DEF Checks, Health, Round, IspCheck, Tick, dbVars
<1>2. ASSUME NEW gw \in Gateways, Health(gw) PROVE GroupsInv'
  <2>1. /\ evidence' \in [Exits -> {"ok", "stale", "failed", "changed"}] /\ unknown' \subseteq Direct
        /\ report' \in [Gateways -> SUBSET Exits]
    BY <1>2, <1>t DEF Health, At
  <2>2. UNCHANGED <<groups, confirmations, job, routes, guard, page, seen>>
    BY <1>2 DEF Health, dbVars
  <2> QED
    BY <2>1, <2>2 DEF GroupsInv, TypeOK, JobInv, ClientsAt, PageInv, ReadyInv, ReadyIsRouted, AiIsAtHome,
       Home
<1>3. ASSUME NEW gw \in Gateways, NEW ok \in SUBSET At(gw), NEW soft, Round(gw, ok, soft)
      PROVE  GroupsInv'
  <2>1. DOMAIN guard' = Gateways /\ \A g2 \in Gateways :
           guard'[g2] \in [fresh : BOOLEAN, rows : [At(g2) -> {"ok", "grace", "closed"}]]
    BY <1>3 DEF Round, GroupsInv, TypeOK
  <2>2. seen \subseteq seen' /\ seen' \subseteq Exits
    BY <1>3, <1>t DEF Round, At
  <2>3. UNCHANGED <<groups, confirmations, job, routes, evidence, unknown, report, page>>
    BY <1>3 DEF Round, dbVars
  <2>4. JobInv'
    BY <2>2, <2>3 DEF GroupsInv, JobInv, ClientsAt
  <2> QED
    BY <2>1, <2>2, <2>3, <2>4 DEF GroupsInv, TypeOK, PageInv, ReadyInv, ReadyIsRouted, AiIsAtHome, Home
<1>4. ASSUME NEW e \in Exits, NEW result \in {"ok", "failed", "changed"}, IspCheck(e, result)
      PROVE  GroupsInv'
  <2>1. /\ evidence' \in [Exits -> {"ok", "stale", "failed", "changed"}]
        /\ seen \subseteq seen' /\ seen' \subseteq Exits
    BY <1>4, <1>t DEF IspCheck
  <2>2. UNCHANGED <<groups, confirmations, job, routes, unknown, guard, report, page>>
    BY <1>4 DEF IspCheck, dbVars
  <2>3. JobInv'
    BY <2>1, <2>2 DEF GroupsInv, JobInv, ClientsAt
  <2> QED
    BY <2>1, <2>2, <2>3 DEF GroupsInv, TypeOK, PageInv, ReadyInv, ReadyIsRouted, AiIsAtHome, Home
<1>5. CASE Tick
  <2>1. ASSUME NEW c \in Change
        PROVE  LET d == [c EXCEPT !.fresh = FALSE]
               IN  /\ d \in Change /\ d # None /\ d.group = c.group /\ d.old = c.old /\ d.new = c.new
    <3>1. [c EXCEPT !.fresh = FALSE] \in Change
      BY DEF Change
    <3> QED BY <3>1, ExitsOK DEF Change
  <2>2. /\ confirmations' = [t \in Tokens |-> IF confirmations[t] = None THEN None
                                             ELSE [confirmations[t] EXCEPT !.fresh = FALSE]]
        /\ page' = [g \in Groups |-> IF page[g] = None THEN None ELSE [page[g] EXCEPT !.fresh = FALSE]]
    BY <1>5, <1>t DEF Tick, Old
  <2>3. confirmations' \in [Tokens -> Change \cup {None}] /\ page' \in [Groups -> Change \cup {None}]
    BY <1>t, <2>1, <2>2
  <2>4. PageInv'
    <3> SUFFICES ASSUME NEW t \in Tokens, confirmations'[t] # None
                 PROVE  /\ page'[confirmations'[t].group] = confirmations'[t]
                        /\ GatewayOf[confirmations'[t].old] = GatewayOf[confirmations'[t].new]
      BY DEF PageInv
    <3>1. /\ confirmations[t] \in Change /\ confirmations[t].group \in Groups
          /\ confirmations'[t] = [confirmations[t] EXCEPT !.fresh = FALSE]
      BY <1>t, <2>2 DEF Change
    <3>2. page[confirmations[t].group] = confirmations[t] /\ confirmations[t] # None
          /\ GatewayOf[confirmations[t].old] = GatewayOf[confirmations[t].new]
      BY <3>1, ExitsOK DEF GroupsInv, PageInv
    <3>3. page'[confirmations[t].group] = [confirmations[t] EXCEPT !.fresh = FALSE]
      BY <2>2, <3>1, <3>2
    <3> QED BY <2>1, <3>1, <3>2, <3>3
  <2>5. JobInv'
    BY <1>1, <1>5 DEF Tick, GroupsInv, JobInv, ClientsAt
  <2>6. DOMAIN guard' = Gateways /\ \A gw \in Gateways :
           guard'[gw] \in [fresh : BOOLEAN, rows : [At(gw) -> {"ok", "grace", "closed"}]]
    BY <1>5 DEF Tick, GroupsInv, TypeOK
  <2>7. /\ evidence' \in [Exits -> {"ok", "stale", "failed", "changed"}] /\ unknown' \subseteq Direct
        /\ report' \in [Gateways -> SUBSET Exits] /\ seen' \subseteq Exits
    BY <1>5, <1>t DEF Tick
  <2>8. TypeOK'
    BY <1>1, <2>3, <2>6, <2>7 DEF GroupsInv, TypeOK
  <2> QED
    BY <1>1, <2>4, <2>5, <2>8 DEF GroupsInv, ReadyInv, ReadyIsRouted, AiIsAtHome, Home
<1> QED BY <1>2, <1>3, <1>4, <1>5 DEF Checks

\* ... as does every other step.
LEMMA GroupsStep == GroupsInv /\ [Next]_vars => GroupsInv'
<1> SUFFICES ASSUME GroupsInv, [Next]_vars PROVE GroupsInv'
  OBVIOUS
<1>1. CASE UNCHANGED vars
  BY <1>1 DEF vars, dbVars, checkVars, GroupsInv, TypeOK, JobInv, ClientsAt, PageInv, ReadyInv,
     ReadyIsRouted, AiIsAtHome, Home
<1>2. CASE Next
  BY <1>2, RequestStep, WorkStep, CheckStep DEF Next, Checks
<1> QED BY <1>1, <1>2

\* Only the watched exits' evidence gets old, and all of it at once; while the guard's grace is
\* for ISPs, whatever is taken for an observation is one.
LEMMA SeenStep ==
    ASSUME GraceIsForIsps PROVE GroupsInv /\ SeenInv /\ [Next]_vars => SeenInv'
<1> SUFFICES ASSUME GroupsInv, SeenInv, [Next]_vars PROVE SeenInv'
  OBVIOUS
<1>t. /\ evidence \in [Exits -> {"ok", "stale", "failed", "changed"}]
      /\ report \in [Gateways -> SUBSET Exits]
  BY DEF GroupsInv, TypeOK
<1>1. ASSUME UNCHANGED checkVars PROVE SeenInv'
  BY <1>1 DEF checkVars, SeenInv
<1>2. ASSUME NEW gw \in Gateways, Apply(gw) PROVE SeenInv'
  <2>1. seen \subseteq seen' /\ UNCHANGED <<evidence, guard, report>>
    BY <1>2 DEF Apply
  <2> QED BY <2>1 DEF SeenInv
<1>3. ASSUME NEW gw \in Gateways, Succeed(gw) PROVE SeenInv'
  <2>1. job[gw].enabled \subseteq seen
    BY <1>3 DEF Succeed, GroupsInv, JobInv
  <2>2. UNCHANGED <<guard, report, seen>>
        /\ \A e \in Exits : evidence'[e] = "ok" => evidence[e] = "ok" \/ e \in job[gw].enabled
    BY <1>3 DEF Succeed
  <2> QED BY <2>1, <2>2 DEF SeenInv
<1>4. ASSUME NEW gw \in Gateways, NEW working \in BOOLEAN, Fail(gw, working) PROVE SeenInv'
  BY <1>4 DEF Fail, SeenInv
<1>5. ASSUME NEW gw \in Gateways, Interrupted(gw) PROVE SeenInv'
  BY <1>5 DEF Interrupted, SeenInv
<1>6. ASSUME NEW gw \in Gateways, Health(gw) PROVE SeenInv'
  <2>1. UNCHANGED <<guard, seen>>
    BY <1>6 DEF Health
  <2>2. \A e \in At(gw) : guard[gw].rows[e] \in {"ok", "grace", "closed"}
    BY DEF GroupsInv, TypeOK
  <2>3. \A g2 \in Gateways : report'[g2] \subseteq seen
    BY <1>6, <1>t DEF Health, SeenInv
  <2>4. \A e \in Exits : evidence'[e] = "ok" => e \in seen
    BY <1>6, <1>t, <2>2 DEF Health, SeenInv
  <2> QED BY <2>1, <2>3, <2>4 DEF SeenInv
<1>7. ASSUME NEW gw \in Gateways, NEW ok \in SUBSET At(gw),
             NEW soft \in SUBSET ((SoftFails \cap At(gw)) \ ok), Round(gw, ok, soft)
      PROVE  SeenInv'
  <2>1. /\ seen' = seen \cup ok /\ UNCHANGED <<evidence, report>>
        /\ \A g2 \in Gateways : g2 # gw => guard'[g2] = guard[g2]
    BY <1>7 DEF Round, GroupsInv, TypeOK
  <2>2. \A e \in At(gw) : /\ guard'[gw].rows[e] = "ok" => e \in ok
                          /\ guard'[gw].rows[e] = "grace" => e \in SoftFails
    BY <1>7 DEF Round, GroupsInv, TypeOK
  <2>3. /\ \A e \in Exits \ Watched : e \in seen'
        /\ \A e \in Exits : evidence'[e] = "ok" => e \in seen'
        /\ \A g2 \in Gateways : report'[g2] \subseteq seen'
    BY <2>1 DEF SeenInv
  <2>4. ASSUME NEW g2 \in Gateways, NEW e \in At(g2)
        PROVE  /\ guard'[g2].fresh /\ guard'[g2].rows[e] = "ok" => e \in seen'
               /\ e \in Direct => guard'[g2].rows[e] # "grace"
    <3>1. CASE g2 = gw
      BY <2>1, <2>2, <3>1 DEF GraceIsForIsps
    <3>2. CASE g2 # gw
      BY <2>1, <3>2 DEF SeenInv
    <3> QED BY <3>1, <3>2
  <2> QED BY <2>3, <2>4 DEF SeenInv
<1>8. ASSUME NEW e \in Exits, NEW result \in {"ok", "failed", "changed"}, IspCheck(e, result)
      PROVE  SeenInv'
  BY <1>8, <1>t DEF IspCheck, SeenInv
<1>9. CASE Tick
  <2>1. /\ seen' = Exits \ Watched
        /\ \A e \in Exits : evidence'[e] = "ok" => e \notin Watched
        /\ \A gw \in Gateways : /\ report'[gw] = {} /\ ~guard'[gw].fresh
                                /\ guard'[gw].rows = guard[gw].rows
    BY <1>9, <1>t DEF Tick, GroupsInv, TypeOK
  <2> QED BY <2>1 DEF SeenInv
<1>10. CASE UNCHANGED vars
  BY <1>1, <1>10 DEF vars
<1>11. ASSUME NEW g \in Groups,
           \/ \E e \in Exits, ai \in Exits \cup {None} : Register(g, e, ai)
           \/ Activate(g) \/ Delete(g)
           \/ \E ai \in Exits \cup {None} : Update(g, ai)
           \/ \E t \in Tokens, actor \in Actors :
                 Confirm(g, t, actor) \/ \E e \in Exits : Prepare(g, t, e, actor)
       PROVE SeenInv'
  BY <1>1, <1>11 DEF Register, Activate, Delete, Update, Confirm, Prepare
<1>12. ASSUME NEW gw \in Gateways, Take(gw) PROVE SeenInv'
  BY <1>1, <1>12 DEF Take
<1> QED
  BY <1>2, <1>3, <1>4, <1>5, <1>6, <1>7, <1>8, <1>9, <1>10, <1>11, <1>12 DEF Next

\* The inductive invariant always holds.
LEMMA GroupsAlways == Spec => []GroupsInv
<1>1. Init => GroupsInv
  BY GroupsInit
<1> QED BY <1>1, GroupsStep, PTL DEF Spec

\* What the rows, the confirmations, the jobs, the routes and the reports can be.
THEOREM GroupsTyped == Spec => []TypeOK
<1>1. GroupsInv => TypeOK
  BY DEF GroupsInv
<1> QED BY <1>1, GroupsAlways, PTL

\* READY is said of a group only while its gateway has both of its exits as the row has them.
THEOREM Routed == Spec => []ReadyIsRouted
<1>1. GroupsInv => ReadyIsRouted
  BY DEF GroupsInv
<1> QED BY <1>1, GroupsAlways, PTL

\* The AI exit stays on the gateway of the main exit.
THEOREM AtHome == Spec => []AiIsAtHome
<1>1. GroupsInv => AiIsAtHome
  BY DEF GroupsInv
<1> QED BY <1>1, GroupsAlways, PTL

\* A link is answered only while its client is routed through the exit it names, whose address
\* was observed in the last two minutes, as long as the guard is never lenient to a direct exit.
THEOREM Verified == ASSUME GraceIsForIsps PROVE Spec => []ServedIsVerified
<1>1. GroupsInv /\ SeenInv => ServedIsVerified
  <2> SUFFICES ASSUME GroupsInv, SeenInv, NEW g \in Groups, groups[g] # None, Served(g)
               PROVE  /\ groups[g].exit \in seen
                      /\ routes[Home(g)][g] # None /\ routes[Home(g)][g].exit = groups[g].exit
    BY DEF ServedIsVerified
  <2>1. groups[g] \in Group /\ groups[g].exit \in Exits /\ Home(g) \in Gateways
    BY Places DEF GroupsInv, TypeOK, Group, Home
  <2>2. groups[g].exit \in seen
    BY <2>1 DEF Served, SeenInv
  <2>3. routes[Home(g)][g] = [exit |-> groups[g].exit, ai |-> groups[g].ai]
    BY DEF Served, GroupsInv, ReadyIsRouted
  <2>4. [exit |-> groups[g].exit, ai |-> groups[g].ai] \in Route
    BY <2>1 DEF Group, Route
  <2> QED BY <2>2, <2>3, <2>4, ExitsOK
<1>2. Init => GroupsInv /\ SeenInv
  BY GroupsInit
<1>3. GroupsInv /\ SeenInv /\ [Next]_vars => (GroupsInv /\ SeenInv)'
  BY GroupsStep, SeenStep
<1> QED BY <1>1, <1>2, <1>3, PTL DEF Spec

\* A group changes its exit only as the last page about it showed it to the same actor, once
\* and in time.
THEOREM AsShown == Spec => ConfirmedAsShown
<1>1. GroupsInv /\ [Next]_vars =>
        [\A g \in Groups :
          /\ \A t \in Tokens, actor \in Actors : Confirm(g, t, actor) =>
                /\ page[g] # None /\ page[g].fresh /\ page[g].actor = actor
                /\ page[g].old = groups[g].exit /\ page[g].new = groups'[g].exit
          /\ groups[g] # None /\ groups'[g] # None /\ groups'[g].exit # groups[g].exit =>
                \E t \in Tokens, actor \in Actors : Confirm(g, t, actor)]_vars
  <2> SUFFICES ASSUME GroupsInv, Next, NEW g \in Groups
               PROVE  /\ \A t \in Tokens, actor \in Actors : Confirm(g, t, actor) =>
                            /\ page[g] # None /\ page[g].fresh /\ page[g].actor = actor
                            /\ page[g].old = groups[g].exit /\ page[g].new = groups'[g].exit
                      /\ groups[g] # None /\ groups'[g] # None /\ groups'[g].exit # groups[g].exit =>
                            \E t \in Tokens, actor \in Actors : Confirm(g, t, actor)
    OBVIOUS
  <2>t. groups \in [Groups -> Group \cup {None}]
    BY DEF GroupsInv, TypeOK
  <2>1. ASSUME NEW t \in Tokens, NEW actor \in Actors, Confirm(g, t, actor)
        PROVE  /\ page[g] # None /\ page[g].fresh /\ page[g].actor = actor
               /\ page[g].old = groups[g].exit /\ page[g].new = groups'[g].exit
    <3>1. page[g] = confirmations[t] /\ confirmations[t] # None
      BY <2>1 DEF Confirm, GroupsInv, PageInv
    <3>2. groups[g] \in Group
      BY <2>1, <2>t DEF Confirm
    <3>3. groups'[g].exit = confirmations[t].new
      BY <2>1, <2>t, <3>2 DEF Confirm, Queue, Group
    <3> QED BY <2>1, <3>1, <3>3 DEF Confirm
  <2>2. ASSUME groups[g] # None, groups'[g] # None, groups'[g].exit # groups[g].exit
        PROVE  \E t \in Tokens, actor \in Actors : Confirm(g, t, actor)
    <3>1. groups[g] \in Group
      BY <2>2, <2>t
    <3>2. ASSUME NEW h \in Groups, h # g,
                 \/ \E e \in Exits, ai \in Exits \cup {None} : Register(h, e, ai)
                 \/ Activate(h) \/ Delete(h)
                 \/ \E ai \in Exits \cup {None} : Update(h, ai)
                 \/ \E t \in Tokens, actor \in Actors :
                       Confirm(h, t, actor) \/ \E e \in Exits : Prepare(h, t, e, actor)
          PROVE  groups'[g] = groups[g]
      BY <2>t, <3>2 DEF Register, Activate, Delete, Update, Confirm, Queue, Prepare
    <3>3. ~Activate(g) /\ ~Delete(g) /\ ~(\E e \in Exits, ai \in Exits \cup {None} : Register(g, e, ai))
      BY <2>2, <2>t, <3>1 DEF Activate, Delete, Register, Queue, Group
    <3>4. ~(\E ai \in Exits \cup {None} : Update(g, ai))
      BY <2>2, <2>t, <3>1 DEF Update, Queue, Group
    <3>5. ~(\E gw \in Gateways : Take(gw) \/ Apply(gw) \/ Interrupted(gw) \/ Health(gw))
      BY <2>2 DEF Take, Apply, Interrupted, Health, dbVars
    <3>6. ~(\E gw \in Gateways : Succeed(gw) \/ \E working \in BOOLEAN : Fail(gw, working))
      <4>1. ASSUME NEW gw \in Gateways, Succeed(gw) PROVE FALSE
        <5>1. groups'[g] = groups[g]
              \/ \E state \in {"READY", "PENDING"} :
                    groups'[g] = [groups[g] EXCEPT !.deployed = groups[g].exit, !.state = state]
          BY <4>1 DEF Succeed
        <5> QED BY <2>2, <3>1, <5>1 DEF Group
      <4>2. ASSUME NEW gw \in Gateways, NEW working \in BOOLEAN, Fail(gw, working) PROVE FALSE
        <5>1. groups'[g] = groups[g] \/ groups'[g] = [groups[g] EXCEPT !.state = "PENDING"]
          BY <4>2 DEF Fail
        <5> QED BY <2>2, <3>1, <5>1 DEF Group
      <4> QED BY <4>1, <4>2
    <3>7. ~Checks
      BY <2>2 DEF Checks, Health, Round, IspCheck, Tick, dbVars
    <3>8. ~(\E t \in Tokens, actor \in Actors, e \in Exits : Prepare(g, t, e, actor))
      BY <2>2 DEF Prepare
    <3> QED
      BY <2>2, <3>2, <3>3, <3>4, <3>5, <3>6, <3>7, <3>8 DEF Next, Checks
  <2> QED BY <2>1, <2>2
<1> QED BY <1>1, GroupsAlways, PTL DEF Spec, ConfirmedAsShown
=============================================================================
