------------------------------ MODULE Rendering ------------------------------
(***************************************************************************)
(* From exit groups to the files of a gateway: validate() and render() in  *)
(* gateways/configuration.py, and the paths of gateways/ingress.py.  They  *)
(* are pure functions; the operators below follow their loops, and         *)
(* Promised is written independently, from what a group means.             *)
(*                                                                         *)
(* External, from how the code uses them: sing-box takes the first rule    *)
(* that matches, knows the name of a destination when the client gave it   *)
(* or after a "sniff" rule, and nft takes the first rule with a verdict.   *)
(*                                                                         *)
(* Simplifications: a field that is missing, of another type or of another *)
(* form is one flag of its group or client; an address with its port is    *)
(* one server; the names of a provider are a set of hosts.                 *)
(***************************************************************************)
EXTENDS Integers, FiniteSets, SequencesExt

CONSTANTS
    Servers, Providers, Nothing,
    Hosts,        \* names of destinations
    NamesOf,      \* AI_DOMAINS: the hosts of each provider
    Inputs,       \* the lists of groups that are rendered
    GroupLimit,   \* 20: groups of a gateway
    ClientLimit   \* 20: clients of a group and of a gateway

\* The entries of a request, before validate() has seen them.
ClientEntries == [id : Int, ai : Int \cup {Nothing}, providers : SUBSET Providers,
                  complete : BOOLEAN]

GroupEntries == [id : Int, enabled : BOOLEAN, direct : BOOLEAN, server : Servers, expires : BOOLEAN,
                 clients : Seq(ClientEntries), complete : BOOLEAN]

\* Nothing stands for a field that is null, and for an address without a name.
ASSUME RenderingOK ==
    /\ NamesOf \in [Providers -> SUBSET Hosts]
    /\ Inputs \subseteq Seq(GroupEntries)
    /\ Nothing \notin Int /\ Nothing \notin Hosts

VARIABLES groups, step, rules, outbounds, firewall

renderVars == <<groups, step, rules, outbounds, firewall>>

-----------------------------------------------------------------------------
(* validate() *)

Identifiers == 1..1000

Ids(list) == {list[i].id : i \in DOMAIN list}
ClientsIn(list) == FlattenSeq([i \in DOMAIN list |-> list[i].clients])
NoRepeats(list) == Cardinality(Ids(list)) = Len(list)

ClientOK(c) ==
    /\ c.complete /\ c.id \in Identifiers
    /\ IF c.ai = Nothing THEN c.providers = {} ELSE c.ai \in Identifiers /\ c.providers # {}

GroupOK(g) ==
    /\ g.complete /\ g.id \in Identifiers
    /\ Len(g.clients) <= ClientLimit
    /\ \A i \in DOMAIN g.clients : ClientOK(g.clients[i])
    /\ g.direct => ~g.expires

Valid(list) ==
    /\ Len(list) <= GroupLimit /\ NoRepeats(list)
    /\ \A i \in DOMAIN list : GroupOK(list[i])
    /\ NoRepeats(ClientsIn(list)) /\ Len(ClientsIn(list)) <= ClientLimit
    /\ \A i \in DOMAIN ClientsIn(list) : ClientsIn(list)[i].ai \in Ids(list) \cup {Nothing}

-----------------------------------------------------------------------------
(* render(): the core *)

Tag(kind, id) == [kind |-> kind, id |-> id]
Health == Tag("health", 0)

Port(tag) ==
    CASE tag.kind = "health" -> 10810
      [] tag.kind = "exit"   -> 12000 + tag.id
      [] tag.kind = "tls"    -> 13000 + tag.id
      [] tag.kind = "phone"  -> 20000 + tag.id

ClientTags(c) == {Tag("phone", c.id), Tag("tls", c.id)}

Inbounds(list) ==
    {Health} \cup {Tag("exit", list[i].id) : i \in DOMAIN list}
             \cup (UNION {ClientTags(ClientsIn(list)[i]) : i \in DOMAIN ClientsIn(list)})

\* An ISP is reached at its server; the gateway's own address by the mark of its exit.
Packet(kind, to) == [kind |-> kind, to |-> to]
Nowhere == Packet("reject", Nothing)

Outbound(g) == IF g.direct THEN Packet("mark", 32000 + g.id) ELSE Packet("isp", g.server)
Outbounds(list) ==
    LET enabled == {g \in ToSet(list) : g.enabled}
    IN  [id \in {g.id : g \in enabled} |-> Outbound(CHOOSE g \in enabled : g.id = id)]

Anything == Hosts \cup {Nothing}
RouteTo(tags, hosts, id) == [tags |-> tags, hosts |-> hosts, action |-> "route", outbound |-> id]
Act(tags, hosts, action) == [tags |-> tags, hosts |-> hosts, action |-> action, outbound |-> Nothing]

AiHosts(c) == UNION {NamesOf[p] : p \in c.providers}

\* Mutation: nothing is said of an AI exit that is disabled.
AiRulesOpen(list, g, c) ==
    <<Act(ClientTags(c), Anything, "sniff")>>
    \o (IF c.ai \in DOMAIN Outbounds(list)
        THEN <<RouteTo(ClientTags(c), AiHosts(c), c.ai)>> ELSE <<>>)
    \o <<RouteTo(ClientTags(c), Anything, g.id)>>

\* A client with an AI exit: its names go there or nowhere, everything else to its own exit.
AiRules(list, g, c) ==
    <<Act(ClientTags(c), Anything, "sniff"),
      IF c.ai \in DOMAIN Outbounds(list)
      THEN RouteTo(ClientTags(c), AiHosts(c), c.ai)
      ELSE Act(ClientTags(c), AiHosts(c), "reject"),
      RouteTo(ClientTags(c), Anything, g.id)>>

\* Clients with an AI exit come first, one by one; the others share the rule of the exit.
GroupRules(list, g) ==
    LET own(c) == IF c.ai = Nothing THEN <<>> ELSE AiRules(list, g, c)
        plain == {Tag("exit", g.id)}
                 \cup UNION {ClientTags(c) : c \in {d \in ToSet(g.clients) : d.ai = Nothing}}
        all   == plain \cup UNION {ClientTags(c) : c \in ToSet(g.clients)}
    IN  IF g.enabled
        THEN FlattenSeq([i \in DOMAIN g.clients |-> own(g.clients[i])])
             \o <<RouteTo(plain, Anything, g.id)>>
        ELSE <<Act(all, Anything, "reject")>>

Rules(list) ==
    <<Act({Health}, Anything, "reject")>>
    \o FlattenSeq([i \in DOMAIN list |-> GroupRules(list, list[i])])
    \o <<Act(Inbounds(list), Anything, "reject")>>

-----------------------------------------------------------------------------
(* render(): the firewall *)

\* Mutation: servers of disabled exits are allowed too.
FirewallOfAll(list) ==
    [private |-> {Port(t) : t \in {u \in Inbounds(list) : u.kind \in {"health", "exit"}}},
     phones  |-> {Port(t) : t \in {u \in Inbounds(list) : u.kind = "phone"}},
     allowed |-> {Outbound(list[i]) : i \in DOMAIN list}]

Firewall(list) ==
    [private |-> {Port(t) : t \in {u \in Inbounds(list) : u.kind \in {"health", "exit"}}},
     phones  |-> {Port(t) : t \in {u \in Inbounds(list) : u.kind = "phone"}},
     allowed |-> {Outbound(g) : g \in {h \in ToSet(list) : h.enabled}}]

\* Mutation: the drop for the loopback begins one port too early.
EntersShifted(fw, port, local, live, tls) ==
    /\ ~(~local /\ port \in 20001..21000 /\ port \notin live)
    /\ ~(local /\ port \in 13000..14000 /\ port \notin tls)
    /\ ~(~local /\ port \in 13001..14000)
    /\ ~(~local /\ port \in fw.private)

\* The input chain, for the sets pfem_live and pfem_tls_live.
Enters(fw, port, local, live, tls) ==
    /\ ~(~local /\ port \in 20001..21000 /\ port \notin live)
    /\ ~(local /\ port \in 13001..14000 /\ port \notin tls)
    /\ ~(~local /\ port \in 13001..14000)
    /\ ~(~local /\ port \in fw.private)

\* The output chain, for what the core sends anywhere but to the loopback: replies to a
\* phone, connections to a server, packets with a mark.
Leaves(fw, packet) == packet \in fw.allowed \cup {Packet("reply", p) : p \in fw.phones}

\* ingress.py: the ports a path of the HTTPS ingress can name.
PathPorts == 13000..13999 \cup {14000}

-----------------------------------------------------------------------------
RenderInit ==
    /\ groups \in Inputs /\ step = "given"
    /\ rules = <<>> /\ outbounds = <<>> /\ firewall = Nothing

Render ==
    /\ step = "given" /\ Valid(groups)
    /\ step' = "rendered"
    /\ rules' = Rules(groups) /\ outbounds' = Outbounds(groups)
    /\ firewall' = Firewall(groups)
    /\ UNCHANGED groups

Refuse ==
    /\ step = "given" /\ ~Valid(groups)
    /\ step' = "refused"
    /\ UNCHANGED <<groups, rules, outbounds, firewall>>

RenderNext == Render \/ Refuse

RenderSpec == RenderInit /\ [][RenderNext]_renderVars

-----------------------------------------------------------------------------
(* Properties *)

\* A connection: where it came in, the host it is for, and whether the client named it.
Connections == [tag : Inbounds(groups), host : Anything, named : BOOLEAN]

Applies(list, conn, i) ==
    /\ conn.tag \in list[i].tags
    /\ \/ list[i].hosts = Anything
       \/ /\ conn.host \in list[i].hosts
          /\ conn.named \/ \E j \in 1..(i - 1) :
                              list[j].action = "sniff" /\ conn.tag \in list[j].tags

\* The rules that end it, of which the first one counts.
Finals(list, conn) == {i \in DOMAIN list : list[i].action # "sniff" /\ Applies(list, conn, i)}

\* Where the core sends it: an outbound, or Nowhere.
Verdict(conn) ==
    LET final == Finals(rules, conn)
        first == CHOOSE i \in final : \A j \in final : i <= j
    IN  IF rules[first].action = "route" THEN outbounds[rules[first].outbound] ELSE Nowhere

GroupNamed(id) == CHOOSE g \in ToSet(groups) : g.id = id
OutOf(g) == IF g.enabled THEN Outbound(g) ELSE Nowhere

\* What a group promises, said without rules or their order.
Promised(conn) ==
    LET home   == CHOOSE g \in ToSet(groups) :
                     \/ conn.tag = Tag("exit", g.id)
                     \/ \E c \in ToSet(g.clients) : conn.tag \in ClientTags(c)
        client == CHOOSE c \in ToSet(home.clients) : conn.tag \in ClientTags(c)
    IN  IF conn.tag = Health THEN Nowhere
        ELSE IF conn.tag.kind = "exit" \/ ~home.enabled \/ client.ai = Nothing THEN OutOf(home)
        ELSE IF conn.host \in AiHosts(client) THEN OutOf(GroupNamed(client.ai))
        ELSE OutOf(home)

\* A client's traffic leaves by its own exit, that for the names of its AI providers by its
\* AI exit, and where that exit is disabled it leaves nowhere; an exit's probe leaves by that
\* exit; the health listener leads nowhere (ARCHITECTURE.md:34 and :61).
LeavesByItsExit ==
    step = "rendered" => \A conn \in Connections : Verdict(conn) = Promised(conn)

\* The rules and the firewall agree: whatever the core routes is let through, and besides
\* replies to phones nothing is let through but to the outbound of an enabled exit.
OnlyPromisedLeaves ==
    step = "rendered" =>
        /\ \A conn \in Connections : Verdict(conn) # Nowhere => Leaves(firewall, Verdict(conn))
        /\ \A packet \in {Packet("isp", s) : s \in Servers}
                          \cup {Packet("mark", 32000 + i) : i \in Ids(groups)} :
              Leaves(firewall, packet) =>
                  \E g \in ToSet(groups) : g.enabled /\ Outbound(g) = packet

\* Every listener has a port of its own; from outside only phone ports that are live are
\* reached; on the gateway itself the ingress reaches a listener exactly while it is live, by
\* a path it knows, and probes always reach theirs; at both ends of the identifiers.
DoorsAreApart ==
    step = "rendered" =>
        /\ \A a, b \in Inbounds(groups) : Port(a) = Port(b) => a = b
        /\ \A a \in Inbounds(groups), open \in BOOLEAN :
              LET live == IF open THEN {Port(a)} ELSE {}
                  outside == Enters(firewall, Port(a), FALSE, live, live)
                  local == Enters(firewall, Port(a), TRUE, live, live)
              IN  /\ outside <=> a.kind = "phone" /\ open
                  /\ a.kind = "tls" => (local <=> open) /\ Port(a) \in PathPorts
                  /\ a.kind \in {"exit", "health"} => local

=============================================================================
