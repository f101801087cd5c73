------------------------------ MODULE Connection ------------------------------
(***************************************************************************)
(* Proxied TCP connections of one node, from accept to the access record:  *)
(* the frontends (src/src/inbound: http.rs, socks5.rs, sni.rs and the      *)
(* CONNECT streams of tuic/mod.rs), authentication and admission           *)
(* (engine.rs), the decision with a sniffed name (model.rs), the failover  *)
(* chain (outbound/mod.rs), the splice (io.rs), the gauges (stats.rs) and  *)
(* the drain at shutdown (listener.rs, main.rs), while the control plane   *)
(* swaps the snapshot.                                                     *)
(*                                                                         *)
(* A step ends where the handler awaits.  A request that cannot be parsed, *)
(* a bad password and a dead peer are inputs.  How a policy finds the      *)
(* route of a host is PolicyIndex's subject.  Bytes are left out.          *)
(***************************************************************************)
EXTENDS PolicyIndex

CONSTANTS
    Conn,            \* bound: connections
    Protocol,        \* Protocol[c]: the frontends c may arrive at
    User,
    Host,            \* hosts a client may name or a prefix may reveal
    Target,          \* Target[h]: what the matchers of PolicyIndex see of h
    Origin,          \* hosts the SNI gateway allows
    Identity,        \* the user the SNI gateway is bound to
    Upstream,        \* upstream proxies and reverse hops
    Snapshot,        \* the sequence of documents the control plane publishes
    None,
    AttemptTimeout,  \* CHAIN_ATTEMPT_TIMEOUT and
    TotalTimeout     \* CHAIN_TOTAL_TIMEOUT, in ticks

Frontend == {"http", "socks5", "sni", "tuic"}
Block    == [type |-> "block", members |-> <<>>]
Direct   == [type |-> "direct", members |-> <<>>]

\* The hosts that are IP addresses.
Literal == {h \in Host : Target[h].ip}

\* An action of a document.  The members of a chain have unique priorities.
Via         == [type : {"via"}, members : [1 .. 1 -> Upstream]]
ChainMember == [priority : Nat, upstream : Upstream]
Chain       == [type : {"chain"}, members : SUBSET ChainMember]
IsAction(a) ==
    \/ a \in {Block, Direct}
    \/ a.type = "via" /\ a \in Via
    \/ /\ a.type = "chain" /\ a \in Chain
       /\ a.members # {} /\ IsFiniteSet(a.members)
       /\ \A m, n \in a.members : m # n => m.priority # n.priority

\* A document that compiles: every reference leads somewhere, every route has a rule.
IsSnapshot(s) ==
    /\ DOMAIN s.users \subseteq User
    /\ \A u \in DOMAIN s.users :
        s.users[u].limit \in Nat /\ s.users[u].policy \in DOMAIN s.policies
    /\ \A id \in DOMAIN s.policies :
        LET p == s.policies[id]
        IN  /\ p.default = None \/ IsAction(p.default)
            /\ Len(p.routes) \in Nat /\ DOMAIN p.routes = 1 .. Len(p.routes)
            /\ \A i \in DOMAIN p.routes :
                /\ p.routes[i].selectors # {}
                /\ \A q \in p.routes[i].selectors : q.type \in RuleType
                /\ IsAction(p.routes[i].action)

ASSUME ConnectionAssumption ==
    /\ IsFiniteSet(Conn) /\ \A c \in Conn : Protocol[c] \subseteq Frontend
    /\ Origin \subseteq Host \ Literal
    /\ Identity \in User
    /\ None \notin User \cup Host \cup Upstream /\ "direct" \notin Upstream
    /\ None \notin {Block, Direct} \cup Via /\ None \notin Chain
    /\ None \notin [type : {"chain"}, members : Seq(Upstream)]
    /\ Len(Snapshot) \in Nat \ {0} /\ DOMAIN Snapshot = 1 .. Len(Snapshot)
    /\ \A v \in DOMAIN Snapshot : IsSnapshot(Snapshot[v])
    /\ AttemptTimeout \in Nat \ {0} /\ TotalTimeout \in Nat \ {0}

\* compile_chain: ascending priority is the order of the attempts.
CompileAction(a) ==
    IF a.type # "chain" THEN a
    ELSE LET order == CHOOSE s \in [1 .. Cardinality(a.members) -> a.members] :
                          \A i, j \in DOMAIN s : i < j => s[i].priority < s[j].priority
         IN  [type |-> "chain", members |-> [i \in DOMAIN order |-> order[i].upstream]]

\* compile_checked: each policy gets its index, and a default.
CompilePolicy(p) ==
    [index   |-> FromRoutes(p.routes),
     action  |-> [i \in DOMAIN p.routes |-> CompileAction(p.routes[i].action)],
     default |-> IF p.default = None THEN Direct ELSE CompileAction(p.default)]

Compiled ==
    [v \in DOMAIN Snapshot |->
        LET s == Snapshot[v]
        IN  [limit  |-> [u \in DOMAIN s.users |-> s.users[u].limit],
             policy |-> [u \in DOMAIN s.users |-> CompilePolicy(s.policies[s.users[u].policy])]]]

VARIABLES
    version,         \* Engine.snap: the snapshot served
    phase,           \* running, draining, stopped
    conn,            \* the task of each connection
    active,          \* Engine.active_connections
    tunnels          \* the active gauges of TrafficStats.egress

vars == <<version, phase, conn, active, tunnels>>

Outlet == Upstream \cup {"direct"}
Stage  == {"none", "handshake", "request", "respond", "sniff", "dial", "reply",
           "splice", "over"}

\* A record of the access log: whether a policy was consulted for the connection
\* and whether the record names it.
Record == [consulted : BOOLEAN, policy : BOOLEAN]

Blank == [stage |-> "none", proto |-> None, user |-> None, limit |-> 0, host |-> None,
          route |-> FALSE, sniffed |-> None, decision |-> Block, todo |-> <<>>,
          attempts |-> 0, spent |-> 0, egress |-> None, copying |-> {},
          permit |-> FALSE, record |-> None, seen |-> {}]

TypeOK ==
    /\ version \in DOMAIN Snapshot
    /\ phase \in {"running", "draining", "stopped"}
    /\ \A c \in Conn :
        /\ conn[c].stage \in Stage
        /\ conn[c].proto \in Frontend \cup {None}
        /\ conn[c].user \in User \cup {None} /\ conn[c].host \in Host \cup {None}
        /\ conn[c].sniffed \in Host \cup {None}
        /\ conn[c].limit \in Nat /\ conn[c].attempts \in Nat
        /\ conn[c].spent \in 0 .. TotalTimeout   \* a chain is given up in time
        /\ conn[c].egress \in Outlet \cup {None}
        /\ conn[c].record \in Record \cup {None}
        /\ conn[c].permit <=> \/ conn[c].stage \in {"sniff", "dial", "reply", "splice"}
                              \/ conn[c].stage = "respond" /\ conn[c].attempts > 0
    /\ active \in [User -> 0 .. Cardinality(Conn)]
    /\ tunnels \in [Outlet -> 0 .. Cardinality(Conn)]

Init ==
    /\ version = 1
    /\ phase = "running"
    /\ conn = [c \in Conn |-> Blank]
    /\ active = [u \in User |-> 0]
    /\ tunnels = [o \in Outlet |-> 0]

Current == Compiled[version]
Known   == DOMAIN Current.limit
Alive   == {c \in Conn : conn[c].stage \notin {"none", "over"}}

-------------------------------------------------------------------------------
(* decide_with_sniff *)

\* Which of the actions for the requested and the sniffed name is taken, None being
\* that no route matches.  Either may veto; a sniffed name selects only for an
\* address.
Select(requested, r, n, default) ==
    IF Block \in {r, n} THEN Block
    ELSE IF requested \in Literal /\ n # None THEN n
    ELSE IF r # None THEN r
    ELSE default

\* RoutingPolicy::first_match
Matched(p, h) ==
    LET i == IF h = None THEN 0 ELSE FirstMatch(p.index, Target[h])
    IN  IF i = 0 THEN None ELSE p.action[i]

Decide(s, u, requested, sniffed) ==
    IF u \notin DOMAIN s.policy THEN Block
    ELSE LET p == s.policy[u]
         IN  Select(requested, Matched(p, requested), Matched(p, sniffed), p.default)

-------------------------------------------------------------------------------
(* The end of a task *)

\* ConnectionPermit::drop, for every permit in the set of tasks.
Returned(cs) ==
    [u \in User |-> LET n == Cardinality({c \in cs : conn[c].permit /\ conn[c].user = u})
                    IN  IF active[u] > n THEN active[u] - n ELSE 0]

\* ActiveGuard::drop
Closed(cs) ==
    [o \in Outlet |-> tunnels[o] -
        Cardinality({c \in cs : conn[c].stage = "splice" /\ conn[c].egress = o})]

\* The tasks return or are aborted: whatever they hold is dropped.
End(cs, rec) ==
    /\ conn' = [c \in Conn |-> IF c \in cs THEN [Blank EXCEPT !.stage = "over", !.record = rec]
                               ELSE conn[c]]
    /\ active' = Returned(cs)
    /\ tunnels' = Closed(cs)
    /\ UNCHANGED <<version, phase>>

Note(consulted, policy) == [consulted |-> consulted, policy |-> policy]

\* A block names the policy, if the user is still there to have one.
Blocked(u) == Note(u \in Known, u \in Known)

\* The frontends that tell the client what happened before they write the record.
Answers(c) == conn[c].proto \in {"http", "socks5"} /\ ~ conn[c].route

Refuse(c, rec) ==
    \/ /\ Answers(c)
       /\ conn' = [conn EXCEPT ![c].stage = "respond", ![c].record = rec]
       /\ UNCHANGED <<version, phase, active, tunnels>>
    \/ /\ ~ Answers(c)
       /\ End({c}, rec)

\* The answer is written and the record made.
Respond(c) ==
    /\ conn[c].stage = "respond"
    /\ End({c}, conn[c].record)

\* The client is gone: the handler returns with the error, and without a record.
RespondFails(c) ==
    /\ conn[c].stage = "respond"
    /\ End({c}, None)

-------------------------------------------------------------------------------
(* From accept to admission *)

\* BoundListener::run_until, serve_conn and dispatch
Accept(c) ==
    /\ phase = "running" /\ conn[c].stage = "none"
    /\ \E p \in Protocol[c] :
        conn' = [conn EXCEPT ![c].stage = "handshake", ![c].proto = p, ![c].seen = {version}]
    /\ UNCHANGED <<version, phase, active, tunnels>>

\* The client goes away, or the TLS handshake fails.
Vanish(c) ==
    /\ conn[c].stage \in {"handshake", "request"}
    /\ End({c}, None)

\* No well-formed request: ParsedRequest::parse and what SOCKS5 reads.
Malformed(c) ==
    \/ conn[c].stage = "handshake" /\ conn[c].proto \in {"http", "socks5"}
    \/ conn[c].stage = "request" /\ conn[c].proto = "socks5"

\* No valid credential, an expired user, a gateway without its identity.  TUIC
\* closes the connection (Vanish).
Unauthenticated(c) == conn[c].stage = "handshake" /\ conn[c].proto # "tuic"

Reject(c) ==
    /\ Malformed(c) \/ Unauthenticated(c)
    /\ Refuse(c, Note(FALSE, FALSE))

\* The outbound attempt of a decision.
Dial(k, d) ==
    [k EXCEPT !.stage = "dial", !.decision = d,
              !.todo = IF d = Direct THEN <<"direct">> ELSE d.members]

\* Faulty variant: one connection more than the limit.
FullLate(u, limit) == limit > 0 /\ active[u] > limit

\* acquire_connection
Full(u, limit) == limit > 0 /\ active[u] >= limit

\* The decision on the requested host, then the permit.
Admit(c, k) ==
    LET d == Decide(Current, k.user, k.host, None)
    IN  \/ /\ d = Block
           /\ Refuse(c, Blocked(k.user))
        \/ /\ d # Block /\ Full(k.user, k.limit)
           /\ Refuse(c, Note(TRUE, k.proto = "tuic"))
        \/ /\ d # Block /\ ~ Full(k.user, k.limit)
           /\ active' = [active EXCEPT ![k.user] = @ + 1]
           /\ conn' = [conn EXCEPT ![c] =
                  IF k.route THEN [k EXCEPT !.permit = TRUE, !.stage = "sniff"]
                  ELSE [Dial(k, d) EXCEPT !.permit = TRUE]]
           /\ UNCHANGED <<version, phase, tunnels>>

\* http::serve: one step from the request to the permit.
HttpRequest(c, u, h, route) ==
    /\ conn[c].stage = "handshake" /\ conn[c].proto = "http"
    /\ u \in Known
    /\ Admit(c, [conn[c] EXCEPT !.user = u, !.limit = Current.limit[u],
                                !.host = h, !.route = route])

\* The identity is established first, with the limits it has at that time: the
\* method negotiation of SOCKS5, the Authenticate command of a TUIC connection.
Identify(c, u) ==
    /\ conn[c].stage = "handshake" /\ conn[c].proto \in {"socks5", "tuic"}
    /\ u \in Known
    /\ conn' = [conn EXCEPT ![c].stage = "request", ![c].user = u,
                            ![c].limit = Current.limit[u]]
    /\ UNCHANGED <<version, phase, active, tunnels>>

\* The CONNECT request of SOCKS5, handle_connect of TUIC.
Request(c, h, route) ==
    /\ conn[c].stage = "request"
    /\ Admit(c, [conn[c] EXCEPT !.host = h, !.route = route])

\* sni::serve: the permit comes before anything is read.
SniAdmit(c) ==
    /\ conn[c].stage = "handshake" /\ conn[c].proto = "sni"
    /\ Identity \in Known
    /\ \/ /\ Full(Identity, Current.limit[Identity])
          /\ End({c}, Note(FALSE, FALSE))
       \/ /\ ~ Full(Identity, Current.limit[Identity])
          /\ active' = [active EXCEPT ![Identity] = @ + 1]
          /\ conn' = [conn EXCEPT ![c].stage = "sniff", ![c].user = Identity,
                                  ![c].permit = TRUE]
          /\ UNCHANGED <<version, phase, tunnels>>

-------------------------------------------------------------------------------
(* capture_prefix and the second decision *)

\* The confirmation cannot be written or the prefix not be read.  SOCKS5 writes no
\* record for the former.
SniffFails(c) ==
    /\ conn[c].stage = "sniff"
    /\ \/ End({c}, IF conn[c].proto = "sni" THEN Note(FALSE, FALSE) ELSE Note(TRUE, TRUE))
       \/ conn[c].proto = "socks5" /\ End({c}, None)

\* Faulty variant: the sniffed name may only veto what was decided before.
SniffedVeto(c, n) ==
    LET k == conn[c]
        d == Decide(Current, k.user, k.host, None)
    IN  \/ /\ Decide(Current, k.user, k.host, n) = Block
           /\ End({c}, Blocked(k.user))
        \/ /\ Decide(Current, k.user, k.host, n) # Block
           /\ conn' = [conn EXCEPT ![c] = Dial([k EXCEPT !.sniffed = n], d)]
           /\ UNCHANGED <<version, phase, active, tunnels>>

\* The requested and the sniffed name are decided anew, by the snapshot served now.
Sniffed(c, n) ==
    LET k == conn[c]
        d == Decide(Current, k.user, k.host, n)
    IN  \/ /\ d = Block
           /\ End({c}, Blocked(k.user))
        \/ /\ d # Block
           /\ conn' = [conn EXCEPT ![c] = Dial([k EXCEPT !.sniffed = n], d)]
           /\ UNCHANGED <<version, phase, active, tunnels>>

\* The SNI gateway needs a name on its list, which becomes the target.
SniSniffed(c, n) ==
    LET k == conn[c]
        d == Decide(Current, k.user, n, None)
    IN  \/ /\ n \notin Origin
           /\ End({c}, Note(FALSE, FALSE))
        \/ /\ n \in Origin /\ d = Block
           /\ End({c}, Blocked(k.user))
        \/ /\ n \in Origin /\ d # Block
           /\ conn' = [conn EXCEPT ![c] = Dial([k EXCEPT !.host = n], d)]
           /\ UNCHANGED <<version, phase, active, tunnels>>

\* What a prefix reveals: a validated name, never an address, or nothing.
Observable == (Host \ Literal) \cup {None}

\* A name was found, or the limit or the timeout reached without one.
Sniff(c, n) ==
    /\ conn[c].stage = "sniff"
    /\ \/ conn[c].proto = "sni" /\ SniSniffed(c, n)
       \/ conn[c].proto # "sni" /\ Sniffed(c, n)

-------------------------------------------------------------------------------
(* outbound::connect *)

IsChain(c) == conn[c].decision.type = "chain"

\* remaining_budget: None when the time for the whole chain is used up.
OutOfBudget(c) == IsChain(c) /\ conn[c].spent >= TotalTimeout /\ conn[c].attempts > 0

\* Faulty variant: every attempt gets its full time.
BudgetFixed(c) == AttemptTimeout

Budget(c) ==
    LET remaining == TotalTimeout - conn[c].spent
    IN  IF AttemptTimeout <= remaining THEN AttemptTimeout ELSE remaining

Trying(c) == conn[c].stage = "dial" /\ conn[c].todo # <<>> /\ ~ OutOfBudget(c)

\* An attempt fails at once or when its time is up; nobody limits the attempt on a
\* single upstream, so its time is not counted.
Took(c) == IF IsChain(c) THEN {0, Budget(c)} ELSE {0}

\* The tunnel stands; SOCKS5 says so before anything else is done with it.
Connected(c) ==
    LET o == Head(conn[c].todo)
        k == [conn[c] EXCEPT !.egress = o, !.todo = <<>>, !.attempts = @ + 1, !.spent = 0]
    IN  /\ Trying(c)
        /\ \/ /\ k.proto = "socks5" /\ ~ k.route
              /\ conn' = [conn EXCEPT ![c] = [k EXCEPT !.stage = "reply"]]
              /\ UNCHANGED tunnels
           \/ /\ ~ (k.proto = "socks5" /\ ~ k.route)
              /\ conn' = [conn EXCEPT ![c] = [k EXCEPT !.stage = "splice",
                                                       !.copying = {"up", "down"}]]
              /\ tunnels' = [tunnels EXCEPT ![o] = @ + 1]
        /\ UNCHANGED <<version, phase, active>>

\* Dial, handshake or open fails, or the time of the attempt is up.
AttemptFails(c) ==
    /\ Trying(c)
    /\ \E t \in Took(c) :
        conn' = [conn EXCEPT ![c].todo = Tail(@), ![c].attempts = @ + 1, ![c].spent = @ + t]
    /\ UNCHANGED <<version, phase, active, tunnels>>

\* Faulty variant: only the last member ends the chain.
ConnectFailedLast(c) ==
    /\ conn[c].stage = "dial" /\ conn[c].todo = <<>>
    /\ Refuse(c, Note(TRUE, ~ Answers(c)))

\* ChainExhausted, or the error of the single attempt.  HTTP and SOCKS5 name no
\* policy in this record.
ConnectFailed(c) ==
    /\ conn[c].stage = "dial" /\ (conn[c].todo = <<>> \/ OutOfBudget(c))
    /\ Refuse(c, Note(TRUE, ~ Answers(c)))

-------------------------------------------------------------------------------
(* splice *)

Reply(c) ==
    /\ conn[c].stage = "reply"
    /\ conn' = [conn EXCEPT ![c].stage = "splice", ![c].copying = {"up", "down"}]
    /\ tunnels' = [tunnels EXCEPT ![conn[c].egress] = @ + 1]
    /\ UNCHANGED <<version, phase, active>>

\* The client is gone: the tunnel is dropped, and nothing recorded.
ReplyFails(c) ==
    /\ conn[c].stage = "reply"
    /\ End({c}, None)

\* One direction ends, with the end of its stream or an error; the other goes on.
CopyEnds(c, d) ==
    /\ conn[c].stage = "splice" /\ d \in conn[c].copying
    /\ conn' = [conn EXCEPT ![c].copying = @ \ {d}]
    /\ UNCHANGED <<version, phase, active, tunnels>>

\* forward_http: the head of a plain request cannot be written, nothing is copied.
ForwardFails(c) ==
    /\ conn[c].stage = "splice" /\ conn[c].proto = "http" /\ ~ conn[c].route
    /\ conn[c].copying = {"up", "down"}
    /\ End({c}, Note(TRUE, TRUE))

\* Both have ended: permit and gauge are returned and the record made.
Finish(c) ==
    /\ conn[c].stage = "splice" /\ conn[c].copying = {}
    /\ End({c}, Note(TRUE, TRUE))

-------------------------------------------------------------------------------
(* The node *)

\* Engine::replace
Swap ==
    /\ phase # "stopped" /\ version < Len(Snapshot)
    /\ version' = version + 1
    /\ conn' = [c \in Conn |-> IF c \in Alive THEN [conn[c] EXCEPT !.seen = @ \cup {version'}]
                               ELSE conn[c]]
    /\ UNCHANGED <<phase, active, tunnels>>

\* A signal, or a listener that failed.
Shutdown ==
    /\ phase = "running"
    /\ phase' = "draining"
    /\ UNCHANGED <<version, conn, active, tunnels>>

\* drain_services: everything ended in time.
DrainCompletes ==
    /\ phase = "draining" /\ Alive = {}
    /\ phase' = "stopped"
    /\ UNCHANGED <<version, conn, active, tunnels>>

\* Faulty variant: the connection tasks are left alone.
DeadlineDetached ==
    /\ phase = "draining" /\ Alive # {}
    /\ phase' = "stopped"
    /\ UNCHANGED <<version, conn, active, tunnels>>

\* The grace period is over: the remaining tasks are aborted.
Deadline ==
    /\ phase = "draining" /\ Alive # {}
    /\ phase' = "stopped"
    /\ conn' = [c \in Conn |-> IF c \in Alive THEN [Blank EXCEPT !.stage = "over"] ELSE conn[c]]
    /\ active' = Returned(Alive)
    /\ tunnels' = Closed(Alive)
    /\ UNCHANGED version

Client(c) ==
    \/ Accept(c) \/ Vanish(c) \/ Reject(c) \/ SniAdmit(c)
    \/ \E u \in User : Identify(c, u)
    \/ \E h \in Host, route \in BOOLEAN :
        \/ Request(c, h, route)
        \/ \E u \in User : HttpRequest(c, u, h, route)

Attempt(c) == ConnectFailed(c) \/ Connected(c) \/ AttemptFails(c)

Sniffing(c) == SniffFails(c) \/ \E n \in Observable : Sniff(c, n)

Next ==
    \/ \E c \in Conn :
        \/ Client(c) \/ Sniffing(c) \/ Attempt(c)
        \/ Respond(c) \/ RespondFails(c) \/ Reply(c) \/ ReplyFails(c)
        \/ \E d \in {"up", "down"} : CopyEnds(c, d)
        \/ ForwardFails(c) \/ Finish(c)
    \/ Swap \/ Shutdown \/ DrainCompletes \/ Deadline

Spec == Init /\ [][Next]_vars

\* Fairness.  The capture of a prefix and the attempts of a chain have timeouts,
\* the grace period ends.  Clients and single upstreams owe nothing.
FairSpec ==
    /\ Spec
    /\ \A c \in Conn : WF_vars(Sniffing(c)) /\ WF_vars(IsChain(c) /\ Attempt(c))
    /\ WF_vars(DrainCompletes \/ Deadline)

-------------------------------------------------------------------------------
(* Properties *)

\* The permits counted for a user and the tunnels counted for an outlet are those
\* of tasks that exist, whichever way tasks end; and no user has more permits than
\* the most generous snapshot served so far allows.
Accounted ==
    /\ \A u \in User :
        LET holders == {c \in Conn : conn[c].permit /\ conn[c].user = u}
            limits  == {Snapshot[v].users[u].limit :
                           v \in {v \in 1 .. version : u \in DOMAIN Snapshot[v].users}}
        IN  /\ active[u] = Cardinality(holders)
            /\ 0 \in limits \/ active[u] = 0 \/ \E l \in limits : active[u] <= l
    /\ \A o \in Outlet :
        tunnels[o] = Cardinality({c \in Conn : conn[c].stage = "splice" /\ conn[c].egress = o})

\* The state of the connections is sound: counters, and the time a chain has used,
\* which never exceeds the time the whole chain has.
Balanced == TypeOK /\ Accounted

\* What a document says of a connection, read without index and compilation.
Chosen(s, u, requested, sniffed) ==
    LET p == s.policies[s.users[u].policy]
        Says(h) == LET i == IF h = None THEN 0 ELSE FirstRoute(p.routes, Target[h])
                   IN  IF i = 0 THEN None ELSE p.routes[i].action
    IN  IF u \notin DOMAIN s.users THEN Block
        ELSE Select(requested, Says(requested), Says(sniffed),
                    IF p.default = None THEN Direct ELSE p.default)

\* An established tunnel leaves through the outlet that one document, served
\* during the connection, chooses for everything known of the target, by its first
\* matching route: never a mix of two documents, never direct because the chosen
\* outlet failed, and the member of a chain only after those before it.
EgressByDecision ==
    \A c \in Conn : conn[c].stage \in {"reply", "splice"} =>
        \E v \in conn[c].seen :
            LET d == Chosen(Snapshot[v], conn[c].user, conn[c].host, conn[c].sniffed)
            IN  \/ d = Direct /\ conn[c].egress = "direct"
                \/ d.type = "via" /\ conn[c].egress = d.members[1]
                \/ d.type = "chain" /\ \E m \in d.members :
                    /\ conn[c].egress = m.upstream
                    /\ conn[c].attempts = Cardinality({n \in d.members : n.priority <= m.priority})

\* Establishing a tunnel through a chain ends, one way or the other.
ChainSettles ==
    \A c \in Conn : conn[c].stage = "dial" /\ IsChain(c) ~> conn[c].stage # "dial"

\* A shutdown ends with no connection left and every permit returned.
Drained == phase = "draining" ~> Alive = {} /\ \A u \in User : active[u] = 0
=============================================================================
