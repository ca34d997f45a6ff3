---------------------------- MODULE Subscriptions ----------------------------
(***************************************************************************)
(* The life of a subscription group: services/groups.py and                *)
(* services/subscriptions.py.  Its exit changes after a confirmation, its  *)
(* AI exit with an edit; each change is brought to the gateway by a job;   *)
(* its link is answered while the route is installed and was verified in   *)
(* the last two minutes, by a test of the ISP or by the gateway's guard.   *)
(*                                                                         *)
(* ExitJobs takes the jobs apart (lost answers, late commands, restarts,   *)
(* deletions, exits not applied yet); here a job is a snapshot, the        *)
(* gateway's taking it over, and a success or failure recorded after it.   *)
(*                                                                         *)
(* Time is one step, Tick, after which everything observed before is older *)
(* than two minutes and everything shown before older than five: what is   *)
(* fresh carries a flag.                                                   *)
(*                                                                         *)
(* Simplifications: every exit is applied and has its frozen address; a    *)
(* change of name or devices is left out, as are the texts of the link.    *)
(***************************************************************************)
EXTENDS Naturals, FiniteSets

CONSTANTS
    Exits, Direct,   \* the exit groups; those that use the gateway's own address
    GatewayOf,       \* where each one is
    FirstExits,      \* those a group is registered with (a bound)
    Groups,          \* subscription groups
    Actors,          \* names an administrator had when they looked at a page
    Tokens, None,
    SoftFails,       \* exits whose probe by the guard may end without an answer
    Watched          \* exits whose checks vary; the others are tested, and well, all the time

Gateways == {GatewayOf[e] : e \in Exits}

At(gw) == {e \in Exits : GatewayOf[e] = gw}

\* A row of subscription_groups, one of group_confirmations, the route of a client and a job.
Group == [exit : Exits, ai : Exits \cup {None}, client : BOOLEAN,
          deployed : Exits \cup {None}, state : {"PENDING", "READY"}]
Change == [group : Groups, old : Exits, new : Exits, actor : Actors, fresh : BOOLEAN]
Route == [exit : Exits, ai : Exits \cup {None}]
Job == [exit : Exits, step : {"queued"}]
       \cup [exit : Exits, step : {"running", "applied"}, enabled : SUBSET Exits,
             clients : [Groups -> Route \cup {None}]]

ASSUME ExitsOK ==
    /\ Direct \subseteq Exits /\ DOMAIN GatewayOf = Exits /\ SoftFails \subseteq Watched
    /\ Watched \subseteq Exits /\ FirstExits \subseteq Exits
    /\ None \notin Exits \cup Groups \cup Tokens \cup Group \cup Change \cup Route \cup Job

VARIABLES
    groups,         \* subscription_groups, None where there is no row
    confirmations,  \* group_confirmations, by token
    job,            \* the active row of exit_jobs of each gateway, or None
    routes,         \* what each gateway has installed: a client's exit and AI exit
    evidence,       \* isp_exits, and exit_groups for a direct exit: the last check
    unknown,        \* direct exits whose last job was interrupted: status UNKNOWN
    guard,          \* guard.json of each gateway
    report,         \* gateways.health_json: the routes it says are verified
    page,           \* history: the last page about each group, gone when its exit changes
    seen            \* history: exits whose address was observed in the last two minutes

dbVars == <<groups, confirmations, job>>
checkVars == <<evidence, unknown, guard, report, seen>>
vars == <<dbVars, routes, checkVars, page>>

Home(g) == GatewayOf[groups[g].exit]

TypeOK ==
    /\ groups \in [Groups -> Group \cup {None}]
    /\ confirmations \in [Tokens -> Change \cup {None}]
    /\ job \in [Gateways -> Job \cup {None}]
    /\ routes \in [Gateways -> [Groups -> Route \cup {None}]]
    /\ evidence \in [Exits -> {"ok", "stale", "failed", "changed"}] /\ unknown \subseteq Direct
    /\ DOMAIN guard = Gateways
    /\ \A gw \in Gateways :
          guard[gw] \in [fresh : BOOLEAN, rows : [At(gw) -> {"ok", "grace", "closed"}]]
    /\ report \in [Gateways -> SUBSET Exits]
    /\ page \in [Groups -> Change \cup {None}]
    /\ seen \subseteq Exits

\* evidence is "ok" (HEALTHY and the expected address, in the last two minutes), "stale" (before
\* that), "failed" (not HEALTHY) or "changed" (another address was seen).
Init ==
    /\ groups = [g \in Groups |-> None] /\ confirmations = [t \in Tokens |-> None]
    /\ job = [gw \in Gateways |-> None]
    /\ routes = [gw \in Gateways |-> [g \in Groups |-> None]]
    /\ evidence = [e \in Exits |-> "ok"] /\ unknown = {}
    /\ guard = [gw \in Gateways |-> [fresh |-> FALSE, rows |-> [e \in At(gw) |-> "closed"]]]
    /\ report = [gw \in Gateways |-> {}]
    /\ page = [g \in Groups |-> None] /\ seen = Exits

-----------------------------------------------------------------------------
(* What requests ask before they write *)

\* The status of a direct exit is APPLYING or UNKNOWN, neither available nor answered.
Unsettled(e) ==
    LET j == job[GatewayOf[e]]
    IN  e \in unknown \/ (e \in Direct /\ j # None /\ j.exit = e /\ j.step # "queued")

\* available_exit(): a direct exit's last status has no age here.
Available(e) ==
    /\ ~Unsettled(e)
    /\ \/ evidence[e] = "ok"
       \/ e \in Direct /\ evidence[e] = "stale"

\* ai_selection(): None, or an available exit of the same gateway.
AiChoice(exit) == {None} \cup {e \in Exits : Available(e) /\ GatewayOf[e] = GatewayOf[exit]}

\* subscriptions.queue(), on behalf of row r.
Queue(g, r) ==
    /\ job[GatewayOf[r.exit]] = None
    /\ job' = [job EXCEPT ![GatewayOf[r.exit]] = [exit |-> r.exit, step |-> "queued"]]
    /\ groups' = [groups EXCEPT ![g] =
          [r EXCEPT !.state = IF @ = "READY" /\ r.deployed = r.exit THEN "READY" ELSE "PENDING"]]

-----------------------------------------------------------------------------
(* Requests of the administrator *)

\* groups.register()
Register(g, exit, ai) ==
    /\ groups[g] = None
    /\ exit \in FirstExits /\ Available(exit) /\ ai \in AiChoice(exit)
    /\ groups' = [groups EXCEPT ![g] = [exit |-> exit, ai |-> ai, client |-> FALSE,
                                        deployed |-> None, state |-> "PENDING"]]
    /\ UNCHANGED <<confirmations, job, routes, checkVars, page>>

\* subscriptions.activate(): credentials once, and a job.
Activate(g) ==
    /\ groups[g] # None
    /\ Available(groups[g].exit) /\ groups[g].ai \in AiChoice(groups[g].exit)
    /\ Queue(g, [groups[g] EXCEPT !.client = TRUE])
    /\ UNCHANGED <<confirmations, routes, checkVars, page>>

\* Mutation: a group that has credentials gets its job, and its state stays.
UpdateQuietly(g, ai) ==
    /\ groups[g] # None /\ ai # groups[g].ai
    /\ Available(groups[g].exit) /\ ai \in AiChoice(groups[g].exit)
    /\ IF groups[g].client
       THEN Queue(g, [groups[g] EXCEPT !.ai = ai])
       ELSE groups' = [groups EXCEPT ![g].ai = ai] /\ UNCHANGED job
    /\ UNCHANGED <<confirmations, routes, checkVars, page>>

\* groups.update() with another AI exit.
Update(g, ai) ==
    /\ groups[g] # None /\ ai # groups[g].ai
    /\ Available(groups[g].exit) /\ ai \in AiChoice(groups[g].exit)
    /\ LET edited == [groups[g] EXCEPT !.ai = ai, !.state = "PENDING"]
       IN  IF groups[g].client
           THEN Queue(g, edited)
           ELSE groups' = [groups EXCEPT ![g] = edited] /\ UNCHANGED job
    /\ UNCHANGED <<confirmations, routes, checkVars, page>>

\* The page about group g with its new exit, and what it says.
Shown(g, new, actor) ==
    [group |-> g, old |-> groups[g].exit, new |-> new, actor |-> actor, fresh |-> TRUE]

\* Mutation: earlier confirmations of the group are left.
PrepareBeside(g, t, new, actor) ==
    /\ groups[g] # None /\ confirmations[t] = None
    /\ Available(new) /\ new # groups[g].exit /\ GatewayOf[new] = Home(g)
    /\ confirmations' = [confirmations EXCEPT ![t] = Shown(g, new, actor)]
    /\ page' = [page EXCEPT ![g] = Shown(g, new, actor)]
    /\ UNCHANGED <<groups, job, routes, checkVars>>

\* Mutation: any gateway will do.
PrepareAnywhere(g, t, new, actor) ==
    /\ groups[g] # None /\ confirmations[t] = None
    /\ Available(new) /\ new # groups[g].exit
    /\ confirmations' = [confirmations EXCEPT ![t] = Shown(g, new, actor)]
    /\ page' = [page EXCEPT ![g] = Shown(g, new, actor)]
    /\ UNCHANGED <<groups, job, routes, checkVars>>

\* prepare_change(): the page that shows the old and the new exit, and a new token, which is
\* then the only one of its group.
Prepare(g, t, new, actor) ==
    /\ groups[g] # None /\ confirmations[t] = None
    /\ Available(new) /\ new # groups[g].exit /\ GatewayOf[new] = Home(g)
    /\ confirmations' = [u \in Tokens |->
          IF u = t THEN Shown(g, new, actor)
          ELSE IF confirmations[u] # None /\ confirmations[u].fresh
                  /\ confirmations[u].group # g
               THEN confirmations[u] ELSE None]
    /\ page' = [page EXCEPT ![g] = Shown(g, new, actor)]
    /\ UNCHANGED <<groups, job, routes, checkVars>>

\* confirm_change(): by the actor the page was for, while nothing is being applied.
Confirm(g, t, actor) ==
    /\ confirmations[t] # None /\ groups[g] # None
    /\ LET change == confirmations[t]
           moved  == [groups[g] EXCEPT !.exit = change.new, !.state = "PENDING"]
       IN  /\ change.group = g /\ change.actor = actor /\ change.fresh
           /\ change.old = groups[g].exit
           /\ Available(change.new) /\ job[GatewayOf[change.new]] = None
           /\ IF groups[g].client
              THEN Queue(g, moved)
              ELSE groups' = [groups EXCEPT ![g] = moved] /\ UNCHANGED job
    /\ confirmations' = [u \in Tokens |->
          IF confirmations[u] # None /\ confirmations[u].group = g THEN None
          ELSE confirmations[u]]
    /\ page' = [page EXCEPT ![g] = None]
    /\ UNCHANGED <<routes, checkVars>>

\* groups.delete() of a group that was never deployed.
Delete(g) ==
    /\ groups[g] # None /\ job[Home(g)] = None
    /\ ~(groups[g].client /\ groups[g].deployed # None)
    /\ groups' = [groups EXCEPT ![g] = None]
    /\ confirmations' = [u \in Tokens |->
          IF confirmations[u] # None /\ confirmations[u].group = g THEN None
          ELSE confirmations[u]]
    /\ page' = [page EXCEPT ![g] = None]
    /\ UNCHANGED <<job, routes, checkVars>>

-----------------------------------------------------------------------------
(* A job, as in ExitJobs with every exit applied *)

\* run_next() and desired(): the clients of the whole gateway; the target has to be ready,
\* another exit is disabled only when its address changed.
Take(gw) ==
    /\ job[gw] # None /\ job[gw].step = "queued"
    /\ job' = [job EXCEPT ![gw] =
          [exit |-> job[gw].exit, step |-> "running",
           enabled |-> {e \in At(gw) : evidence[e] # "changed"},
           clients |-> [g \in Groups |->
               IF groups[g] # None /\ groups[g].client /\ groups[g].exit \in At(gw)
               THEN [exit |-> groups[g].exit, ai |-> groups[g].ai] ELSE None]]]
    /\ job[gw].exit \in Direct \/ evidence[job[gw].exit] \in {"ok", "stale"}
    /\ UNCHANGED <<groups, confirmations, routes, checkVars, page>>

\* The gateway verified every enabled exit and was told to keep the version.
Apply(gw) ==
    /\ job[gw] # None /\ job[gw].step = "running"
    /\ routes' = [routes EXCEPT ![gw] = job[gw].clients]
    /\ seen' = seen \cup job[gw].enabled
    /\ job' = [job EXCEPT ![gw].step = "applied"]
    /\ UNCHANGED <<groups, confirmations, evidence, unknown, guard, report, page>>

\* Success is recorded: for a client that is still bound to the exit it was sent with; a
\* direct exit has a new observation.
Succeed(gw) ==
    /\ job[gw] # None /\ job[gw].step = "applied"
    /\ LET Sent(g) == /\ groups[g] # None /\ job[gw].clients[g] # None
                      /\ groups[g].exit = job[gw].clients[g].exit
       IN  groups' = [g \in Groups |->
              IF Sent(g)
              THEN [groups[g] EXCEPT !.deployed = groups[g].exit,
                       !.state = IF groups[g].exit \in job[gw].enabled THEN "READY" ELSE "PENDING"]
              ELSE groups[g]]
    /\ evidence' = [e \in Exits |->
          IF e \in Direct \cap job[gw].enabled THEN "ok" ELSE evidence[e]]
    /\ unknown' = unknown \ At(gw)
    /\ job' = [job EXCEPT ![gw] = None]
    /\ UNCHANGED <<confirmations, routes, guard, report, seen, page>>

\* Failure, before the gateway acted or after: the groups of an exit that was not known to work
\* lose READY, and a direct exit that did is HEALTHY again.
Fail(gw, working) ==
    /\ job[gw] # None
    /\ job[gw].exit \in Direct => working = (evidence[job[gw].exit] \in {"ok", "stale"})
    /\ groups' = [g \in Groups |->
          IF ~working /\ groups[g] # None /\ groups[g].exit = job[gw].exit
          THEN [groups[g] EXCEPT !.state = "PENDING"] ELSE groups[g]]
    /\ unknown' = unknown \ {job[gw].exit}
    /\ job' = [job EXCEPT ![gw] = None]
    /\ UNCHANGED <<confirmations, routes, evidence, guard, report, seen, page>>

\* recover(), after a restart of the worker: a direct exit's status is UNKNOWN.
Interrupted(gw) ==
    /\ job[gw] # None /\ job[gw].step # "queued"
    /\ unknown' = unknown \cup ({job[gw].exit} \cap Direct)
    /\ job' = [job EXCEPT ![gw] = None]
    /\ UNCHANGED <<groups, confirmations, routes, evidence, guard, report, page, seen>>

-----------------------------------------------------------------------------
(* Checks, and time *)

\* isps.run_next()
IspCheck(e, result) ==
    /\ e \in Watched \ Direct
    /\ evidence' = [evidence EXCEPT ![e] = result]
    /\ seen' = IF result = "ok" THEN seen \cup {e} ELSE seen
    /\ UNCHANGED <<dbVars, routes, unknown, guard, report, page>>

\* A round of the guard, which reports an old result while it is lenient.
Round(gw, ok, soft) ==
    /\ At(gw) \cap Watched # {}
    /\ guard' = [guard EXCEPT ![gw] =
          [fresh |-> TRUE,
           rows |-> [e \in At(gw) |->
               IF e \in ok THEN "ok"
               ELSE IF e \in soft /\ guard[gw].rows[e] # "closed" THEN "grace" ELSE "closed"]]]
    /\ seen' = seen \cup ok
    /\ UNCHANGED <<dbVars, routes, evidence, unknown, report, page>>

\* The health lane: record_health().
Health(gw) ==
    LET rows == guard[gw].rows
        good == \A e \in At(gw) : rows[e] # "closed"
        judged == ~(job[gw] # None /\ job[gw].step # "queued")
    IN  /\ At(gw) \cap Watched # {}
        /\ report' = [report EXCEPT ![gw] =
              IF good /\ guard[gw].fresh THEN {e \in At(gw) : rows[e] = "ok"} ELSE {}]
        /\ evidence' = [e \in Exits |->
              IF ~judged \/ e \notin Direct \cap At(gw) THEN evidence[e]
              ELSE IF good /\ guard[gw].fresh THEN "ok" ELSE "failed"]
        /\ unknown' = IF judged THEN unknown \ At(gw) ELSE unknown
        /\ UNCHANGED <<dbVars, routes, guard, page, seen>>

Old(changes) ==
    [x \in DOMAIN changes |->
        IF changes[x] = None THEN None ELSE [changes[x] EXCEPT !.fresh = FALSE]]

\* Two minutes pass. A verified job is recorded sooner: the confirmation has 30 seconds.
Tick ==
    /\ \A gw \in Gateways : job[gw] # None => job[gw].step # "applied"
    /\ confirmations' = Old(confirmations)
    /\ page' = Old(page)
    /\ evidence' = [e \in Exits |->
          IF e \in Watched /\ evidence[e] = "ok" THEN "stale" ELSE evidence[e]]
    /\ guard' = [gw \in Gateways |-> [guard[gw] EXCEPT !.fresh = FALSE]]
    /\ report' = [gw \in Gateways |-> {}]
    /\ seen' = Exits \ Watched
    /\ UNCHANGED <<groups, job, routes, unknown>>

Next ==
    \/ \E g \in Groups :
          \/ \E e \in Exits, ai \in Exits \cup {None} : Register(g, e, ai)
          \/ Activate(g) \/ Delete(g)
          \/ \E ai \in Exits \cup {None} : Update(g, ai)
          \/ \E t \in Tokens, actor \in Actors :
                \/ Confirm(g, t, actor)
                \/ \E e \in Exits : Prepare(g, t, e, actor)
    \/ \E gw \in Gateways :
          \/ Take(gw) \/ Apply(gw) \/ Succeed(gw) \/ Interrupted(gw)
          \/ \E working \in BOOLEAN : Fail(gw, working)
          \/ Health(gw)
          \/ \E ok \in SUBSET At(gw) : \E soft \in SUBSET ((SoftFails \cap At(gw)) \ ok) :
                Round(gw, ok, soft)
    \/ \E e \in Exits, result \in {"ok", "failed", "changed"} : IspCheck(e, result)
    \/ Tick

Spec == Init /\ [][Next]_vars

-----------------------------------------------------------------------------
(* Properties *)

\* Mutation: a test of any age will do.
ServedAtAnyAge(g) ==
    LET row == groups[g]
    IN  /\ row.client /\ row.state = "READY" /\ row.exit = row.deployed
        /\ evidence[row.exit] # "changed"
        /\ \/ evidence[row.exit] \in {"ok", "stale"} /\ ~Unsettled(row.exit)
           \/ row.exit \in report[Home(g)]

\* subscriptions._record(): the link is answered.
Served(g) ==
    LET row == groups[g]
    IN  /\ row.client /\ row.state = "READY" /\ row.exit = row.deployed
        /\ evidence[row.exit] # "changed"
        /\ \/ evidence[row.exit] = "ok" /\ ~Unsettled(row.exit)
           \/ row.exit \in report[Home(g)]

\* A link is answered only while the gateway routes its client through the exit it names, and
\* the address of that exit was observed in the last two minutes (subscriptions.py:187).
ServedIsVerified ==
    \A g \in Groups : groups[g] # None /\ Served(g) =>
        /\ groups[g].exit \in seen
        /\ routes[Home(g)][g] # None /\ routes[Home(g)][g].exit = groups[g].exit

\* READY is said of a group only while its gateway has both of its exits as the row has them,
\* after any edits, changes, failures and renewed applications (groups.py:207).
ReadyIsRouted ==
    \A g \in Groups : groups[g] # None /\ groups[g].state = "READY" =>
        routes[Home(g)][g] = [exit |-> groups[g].exit, ai |-> groups[g].ai]

\* The AI exit stays on the gateway of the main exit, however the two are chosen; a gateway
\* refuses a configuration with any other (configuration.py:123).
AiIsAtHome ==
    \A g \in Groups : groups[g] # None /\ groups[g].ai # None =>
        GatewayOf[groups[g].ai] = Home(g)

\* A group changes its exit only as the last page about it showed it to the same actor, from
\* the old exit to the new one, in the last five minutes and once (groups.py:494).
ConfirmedAsShown ==
    [][\A g \in Groups :
          /\ \A t \in Tokens, actor \in Actors : Confirm(g, t, actor) =>
                /\ page[g] # None /\ page[g].fresh /\ page[g].actor = actor
                /\ page[g].old = groups[g].exit /\ page[g].new = groups'[g].exit
          /\ groups[g] # None /\ groups'[g] # None /\ groups'[g].exit # groups[g].exit =>
                \E t \in Tokens, actor \in Actors : Confirm(g, t, actor)]_vars

=============================================================================
