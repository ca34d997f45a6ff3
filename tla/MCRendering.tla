----------------------------- MODULE MCRendering -----------------------------
(* An instance of Rendering for TLC: lists of up to three groups, both ends of the *)
(* identifiers, every way a list can be refused.                                   *)
EXTENDS Rendering

CONSTANTS s1, s2, p1, p2, d1, d2, d3

\* Two providers that share a name; a host of neither.
MCNames == [p \in Providers |-> IF p = p1 THEN {d1, d2} ELSE {d2}]

Client(id, ai, providers) == [id |-> id, ai |-> ai, providers |-> providers, complete |-> TRUE]

Group(id, enabled, direct, server, clients) ==
    [id |-> id, enabled |-> enabled, direct |-> direct, server |-> server, expires |-> FALSE,
     clients |-> clients, complete |-> TRUE]

Ends == {1, 1000}

AnyClient == {Client(id, ai, ps) : id \in Ends, ai \in {Nothing, 1, 2, 1000},
                                   ps \in {{}, {p1}, {p1, p2}}}

UpTo(n, S) == UNION {[1..k -> S] : k \in 0..n}

Served(id, n) ==
    {Group(id, enabled, direct, server, clients) :
        enabled \in BOOLEAN, direct \in BOOLEAN, server \in Servers, clients \in UpTo(n, AnyClient)}

\* One client each, in two groups; two clients in one group beside an empty one.
Pairs == {<<g, h>> : g \in Served(1, 1), h \in Served(1000, 1)}
Crowded == {<<g, h>> : g \in {x \in Served(1000, 2) : x.server = s1},
                       h \in {x \in Served(1, 0) : x.server = s2}}

Plain == Group(1, TRUE, FALSE, s1, <<Client(1, Nothing, {})>>)
Faulty ==
    {<<[Plain EXCEPT !.complete = FALSE]>>, <<[Plain EXCEPT !.id = 0]>>,
     <<[Plain EXCEPT !.id = 1001]>>, <<Plain, Plain>>,
     <<[Plain EXCEPT !.direct = TRUE, !.expires = TRUE]>>, <<[Plain EXCEPT !.expires = TRUE]>>,
     <<[Plain EXCEPT !.clients = <<Client(1001, Nothing, {})>>]>>,
     <<[Plain EXCEPT !.clients = [@ EXCEPT ![1].complete = FALSE]]>>,
     <<[Plain EXCEPT !.clients = <<Client(1, Nothing, {}), Client(2, Nothing, {}), Client(3, Nothing, {})>>]>>,
     <<Plain, [Plain EXCEPT !.id = 2, !.clients = <<Client(2, Nothing, {}), Client(3, Nothing, {})>>]>>,
     <<Plain, [Plain EXCEPT !.id = 2, !.clients = <<>>], [Plain EXCEPT !.id = 3, !.clients = <<>>]>>,
     <<>>}

MCInputs == Pairs \cup Crowded \cup Faulty
=============================================================================
