----------------------------- MODULE IngressLease -----------------------------
(***************************************************************************)
(* Reverse ingress: the public relay's sessions, port leases and grace     *)
(* reservations (src/src/ingress/relay.rs) together with the connectors of *)
(* the nodes behind NAT (src/src/ingress/connector.rs).                    *)
(*                                                                         *)
(* A connector dials, registers its node, leases every configured target   *)
(* in order and then serves; any refusal or loss ends the session and it   *)
(* retries with a doubling backoff.  The two ends learn of a lost          *)
(* connection at different times, so the relay may still hold the old      *)
(* session, its sockets and its permits while the connector is back.       *)
(*                                                                         *)
(* Time is a set of timers that Tick counts down.  The order in which a    *)
(* grant lists its ports is left open.  Tokens are taken to match.         *)
(***************************************************************************)
EXTENDS Integers, Sequences, FiniteSets

CONSTANTS
    Node,            \* nodes with a grant at the relay
    Sid,             \* bound: QUIC connections that exist at the same time
    None,            \* no connection
    Port,            \* public ports
    Targets,         \* Targets[n]: the node's reverse_ingress listeners, in order
    Grant,           \* Grant[k]: ports authorised for a key, {} if none
    MaxLeases,       \* MaxLeases[n]: max_leases of the node
    Grace,           \* lease_grace in ticks
    ReconnectMin,    \* reconnect_min in ticks
    ReconnectMax,    \* reconnect_max in ticks
    MaxFaults        \* bound: connections lost, ports occupied, relay restarts

Transport == {"tcp", "udp"}

\* ReservationKey
KeyOf(n, target) == [node |-> n, id |-> target.id, transport |-> target.transport]
Key == UNION {{KeyOf(n, Targets[n][i]) : i \in DOMAIN Targets[n]} : n \in Node}

\* ReverseIngressConfig::validate: what a connector refuses to start with.
ValidConnector ==
    /\ ReconnectMin \in Nat \ {0}
    /\ ReconnectMax \in Nat /\ ReconnectMin <= ReconnectMax
    /\ \A n \in Node :
        /\ Targets[n] # <<>>
        /\ \A i, j \in DOMAIN Targets[n] :
            KeyOf(n, Targets[n][i]) = KeyOf(n, Targets[n][j]) => i = j

\* RelayFile::compile and compile_ports; a listener without a grant has no ports.
ValidRelay ==
    /\ Grace \in Nat \ {0}
    /\ MaxLeases \in [Node -> Nat \ {0}]
    /\ Port \subseteq Nat \ {0}
    /\ Grant \in [Key -> SUBSET Port]

\* validate_non_overlapping_grants: one owner per transport and port.
NonOverlapping ==
    \A j, k \in Key : j # k /\ j.transport = k.transport => Grant[j] \cap Grant[k] = {}

ASSUME IngressAssumption ==
    /\ None \notin Sid /\ MaxFaults \in Nat /\ Node # {}
    /\ \A n \in Node : Len(Targets[n]) \in Nat /\ DOMAIN Targets[n] = 1 .. Len(Targets[n])
    /\ ValidConnector /\ ValidRelay /\ NonOverlapping

VARIABLES
    conn,            \* connector of each node
    link,            \* each connection as the relay sees it, and its one exchange
    sessions,        \* RelayState.sessions: the session of each node, or None
    leases,          \* leases being served: bound public sockets
    resv,            \* RelayState.reservations: port and remaining grace
    busy,            \* public ports other programs hold
    lingering,       \* public UDP sockets only the flows of an ended lease still hold
    faults,          \* faults so far
    ended            \* history: port and age of each key's last lease

vars == <<conn, link, sessions, leases, resv, busy, lingering, faults, ended>>

NoPort == [port |-> 0, left |-> 0]

Code == {"duplicate", "forbidden", "capacity", "unavailable"}

TypeOK ==
    /\ conn \in [Node -> [stage : {"idle", "register", "lease", "serve"},
                          sid : Sid \cup {None}, got : Nat,
                          backoff : ReconnectMin .. ReconnectMax,
                          wait : 0 .. ReconnectMax]]
    /\ link \in [Sid -> [node : Node, open : BOOLEAN,
                         stage : {"free", "new", "acking", "registered", "draining"},
                         rpc : {"none", "request", "ok"} \cup Code,
                         req : Nat]]
    /\ sessions \in [Node -> Sid \cup {None}]
    /\ leases \subseteq [sid : Sid, key : Key, port : Port]
    /\ resv \in [Key -> [port : Port \cup {0}, left : 0 .. Grace]]
    /\ busy \subseteq Transport \X Port
    /\ lingering \subseteq [key : Key, port : Port]
    /\ faults \in 0 .. MaxFaults
    /\ ended \in [Key -> [port : Port \cup {0}, age : 0 .. Grace]]

Init ==
    /\ conn = [n \in Node |-> [stage |-> "idle", sid |-> None, got |-> 0,
                               backoff |-> ReconnectMin, wait |-> 0]]
    /\ link = [s \in Sid |-> [node |-> CHOOSE n \in Node : TRUE, open |-> FALSE,
                              stage |-> "free", rpc |-> "none", req |-> 0]]
    /\ sessions = [n \in Node |-> None]
    /\ leases = {}
    /\ resv = [k \in Key |-> NoPort]
    /\ busy = {}
    /\ lingering = {}
    /\ faults = 0
    /\ ended = [k \in Key |-> [port |-> 0, age |-> Grace]]

LeasesOf(s) == {l \in leases : l.sid = s}

-------------------------------------------------------------------------------
(* Connector: run_until and connect_and_serve *)

\* Faulty variant: the backoff has no ceiling.
EndSessionUncapped(n) ==
    /\ conn' = [conn EXCEPT ![n] =
           [stage |-> "idle", sid |-> None, got |-> 0, wait |-> conn[n].backoff,
            backoff |-> 2 * conn[n].backoff]]
    /\ link' = [link EXCEPT ![conn[n].sid].open = FALSE]

\* The session is over: the connection is dropped and the loop sleeps.  A
\* session of 30 s or more resets the backoff; how long it lasted is left open.
EndSession(n) ==
    \E b \in {conn[n].backoff, ReconnectMin} :
        /\ conn' = [conn EXCEPT ![n] =
               [stage |-> "idle", sid |-> None, got |-> 0, wait |-> b,
                backoff |-> IF 2 * b < ReconnectMax THEN 2 * b ELSE ReconnectMax]]
        /\ link' = [link EXCEPT ![conn[n].sid].open = FALSE]

\* The QUIC handshake succeeds and REGISTER is written.
Dial(n) ==
    /\ conn[n].stage = "idle" /\ conn[n].wait = 0
    /\ \E s \in Sid :
        /\ link[s].stage = "free" /\ \A m \in Node : conn[m].sid # s
        /\ link' = [link EXCEPT ![s] = [node |-> n, open |-> TRUE, stage |-> "new",
                                        rpc |-> "request", req |-> 0]]
        /\ conn' = [conn EXCEPT ![n].stage = "register", ![n].sid = s]
    /\ UNCHANGED <<sessions, leases, resv, busy, lingering, faults, ended>>

\* The next LEASE request is written.
Ask(n, i) ==
    /\ conn' = [conn EXCEPT ![n].stage = "lease", ![n].got = i - 1]
    /\ link' = [link EXCEPT ![conn[n].sid].rpc = "request",
                            ![conn[n].sid].req = i]

\* Every lease is there: the serving loops start.
Serve(n) ==
    /\ conn' = [conn EXCEPT ![n].stage = "serve", ![n].got = Len(Targets[n])]
    /\ link' = [link EXCEPT ![conn[n].sid].rpc = "none"]

\* The reply of the relay is read.
ReadReply(n) ==
    LET i == conn[n].got
    IN  /\ conn[n].stage \in {"register", "lease"}
        /\ link[conn[n].sid].open
        /\ \/ /\ link[conn[n].sid].rpc = "ok" /\ conn[n].stage = "register"
              /\ Ask(n, 1)
           \/ /\ link[conn[n].sid].rpc = "ok" /\ conn[n].stage = "lease"
              /\ IF i + 1 < Len(Targets[n]) THEN Ask(n, i + 2) ELSE Serve(n)
        /\ UNCHANGED <<sessions, leases, resv, busy, lingering, faults, ended>>

\* A refusal ends the session, whatever it already leased.
Refused(n) ==
    /\ conn[n].stage \in {"register", "lease"}
    /\ link[conn[n].sid].rpc \in Code
    /\ EndSession(n)
    /\ UNCHANGED <<sessions, leases, resv, busy, lingering, faults, ended>>

\* connection.closed(), or a read or write that fails.
ConnectorNotices(n) ==
    /\ conn[n].stage # "idle"
    /\ ~link[conn[n].sid].open
    /\ EndSession(n)
    /\ UNCHANGED <<sessions, leases, resv, busy, lingering, faults, ended>>

-------------------------------------------------------------------------------
(* Relay: handle_connection *)

\* Drop of the connection task: the slot can be used again.
Free(s) == link' = [link EXCEPT ![s].stage = "free", ![s].open = FALSE]

\* REGISTER: a node with a session is refused, reject() closes the connection.
Register(s) ==
    /\ link[s].stage = "new"
    /\ \/ /\ sessions[link[s].node] = None
          /\ sessions' = [sessions EXCEPT ![link[s].node] = s]
          /\ link' = [link EXCEPT ![s].stage = "acking"]
       \/ /\ sessions[link[s].node] # None
          /\ link' = [link EXCEPT ![s].stage = "free", ![s].rpc = "duplicate"]
          /\ UNCHANGED sessions
    /\ UNCHANGED <<conn, leases, resv, busy, lingering, faults, ended>>

\* deregister: only the session's own entry is removed.
Deregister(s) ==
    sessions' = [n \in Node |-> IF n = link[s].node /\ sessions[n] = s THEN None
                                ELSE sessions[n]]

\* The registration reply is written.
Ack(s) ==
    /\ link[s].stage = "acking"
    /\ link' = [link EXCEPT ![s].stage = "registered", ![s].rpc = "ok"]
    /\ UNCHANGED <<conn, sessions, leases, resv, busy, lingering, faults, ended>>

\* Faulty variant: the entry of the failed session stays.
AckFailsKeepsEntry(s) ==
    /\ link[s].stage = "acking" /\ ~link[s].open
    /\ Free(s)
    /\ UNCHANGED <<conn, sessions, leases, resv, busy, lingering, faults, ended>>

\* The registration reply cannot be written: deregister and close.
AckFails(s) ==
    /\ link[s].stage = "acking" /\ ~link[s].open
    /\ Deregister(s)
    /\ Free(s)
    /\ UNCHANGED <<conn, leases, resv, busy, lingering, faults, ended>>

\* The connection ended before REGISTER arrived.
Abandon(s) ==
    /\ link[s].stage = "new" /\ ~link[s].open
    /\ Free(s)
    /\ UNCHANGED <<conn, sessions, leases, resv, busy, lingering, faults, ended>>

\* accept_bi fails or closed() resolves: the lease tasks are aborted.
RelayNotices(s) ==
    /\ link[s].stage = "registered" /\ ~link[s].open
    /\ link' = [link EXCEPT ![s].stage = "draining"]
    /\ UNCHANGED <<conn, sessions, leases, resv, busy, lingering, faults, ended>>

\* An aborted lease task that had not answered yet.
AbortRequest(s) ==
    /\ link[s].stage = "draining" /\ link[s].rpc = "request"
    /\ link' = [link EXCEPT ![s].rpc = "none"]
    /\ UNCHANGED <<conn, sessions, leases, resv, busy, lingering, faults, ended>>

\* Faulty variant: the aborted tasks are not joined.
LeaveUnjoined(s) ==
    /\ link[s].stage = "draining"
    /\ Deregister(s)
    /\ Free(s)
    /\ UNCHANGED <<conn, leases, resv, busy, lingering, faults, ended>>

\* All lease tasks are joined, then the node is deregistered.
Leave(s) ==
    /\ link[s].stage = "draining"
    /\ LeasesOf(s) = {} /\ link[s].rpc # "request"
    /\ Deregister(s)
    /\ Free(s)
    /\ UNCHANGED <<conn, leases, resv, busy, lingering, faults, ended>>

-------------------------------------------------------------------------------
(* Relay: handle_lease *)

Reserved(k) == resv[k].left > 0

\* The reservation of any other key, of either transport, blocks a port.
HeldByOther(k, p) == \E j \in Key : j # k /\ Reserved(j) /\ resv[j].port = p

\* reserve_port: the ports it may return; none is a refusal.
ReservePort(k, requested) ==
    IF requested # 0
    THEN {p \in {requested} : p \in Grant[k] /\ ~HeldByOther(k, p)}
    ELSE IF Reserved(k) THEN {resv[k].port}
    ELSE {p \in Grant[k] : ~HeldByOther(k, p)}

\* Flows of an ended lease keep the UDP socket of port p open.
Lingers(transport, p) == transport = "udp" /\ \E g \in lingering : g.port = p

\* A public socket can be bound.
Bindable(transport, p) ==
    /\ <<transport, p>> \notin busy /\ ~Lingers(transport, p)
    /\ ~\E l \in leases : l.key.transport = transport /\ l.port = p

\* candidate_ports and bind_tcp / bind_udp: the preferred port if it can be
\* bound, else, for a dynamic request, any other port of the grant that can.
BoundPort(k, preferred, fixed) ==
    IF Bindable(k.transport, preferred) THEN {preferred}
    ELSE {p \in Grant[k] \ {preferred} : ~fixed /\ Bindable(k.transport, p)}

\* Faulty variant: no lease permits.
UnboundedPermits(s) == TRUE

\* lease_permits.try_acquire_owned()
HasPermit(s) == Cardinality(LeasesOf(s)) < MaxLeases[link[s].node]

Answer(s, code) == link' = [link EXCEPT ![s].rpc = code]

\* One LEASE request, from the grant lookup to the reply.
HandleLease(s) ==
    LET target    == Targets[link[s].node][link[s].req]
        k         == KeyOf(link[s].node, target)
        requested == target.public_port
        preferred == ReservePort(k, requested)
    IN  /\ link[s].stage \in {"registered", "draining"} /\ link[s].rpc = "request"
        /\ \/ /\ Grant[k] = {}
              /\ Answer(s, "forbidden")
              /\ UNCHANGED leases
           \/ /\ Grant[k] # {} /\ ~HasPermit(s)
              /\ Answer(s, "capacity")
              /\ UNCHANGED leases
           \/ /\ Grant[k] # {} /\ HasPermit(s) /\ preferred = {}
              /\ Answer(s, IF requested # 0 THEN "forbidden" ELSE "unavailable")
              /\ UNCHANGED leases
           \/ /\ HasPermit(s)
              /\ \E p \in preferred :
                 \/ /\ BoundPort(k, p, requested # 0) = {}
                    /\ Answer(s, "unavailable")
                    /\ UNCHANGED leases
                 \/ \E b \in BoundPort(k, p, requested # 0) :
                    /\ Answer(s, "ok")
                    /\ leases' = leases \cup {[sid |-> s, key |-> k, port |-> b]}
        /\ UNCHANGED <<conn, sessions, resv, busy, lingering, faults, ended>>

\* The reply cannot be written: the socket is closed again, unremembered.
LeaseAckFails(s) ==
    /\ link[s].stage \in {"registered", "draining"} /\ link[s].rpc = "request"
    /\ ~link[s].open
    /\ Answer(s, "none")
    /\ UNCHANGED <<conn, sessions, leases, resv, busy, lingering, faults, ended>>

\* Faulty variant: the guard was disarmed.
RememberNothing(k, p) == resv' = resv

\* remember_port
RememberPort(k, p) == resv' = [resv EXCEPT ![k] = [port |-> p, left |-> Grace]]

\* A lease task ends, by itself when it sees the connection closed or aborted by
\* handle_connection; either way its permit is free and the LeasePortGuard
\* remembers the port.  A TCP listener closes with the task.  A UDP socket is shared
\* with the flows of the lease: an aborted task never comes to remove_lease_flows,
\* and the downlink loop may be sending through a flow it has cloned.
EndLease(l) ==
    /\ ~link[l.sid].open
    /\ leases' = leases \ {l}
    /\ RememberPort(l.key, l.port)
    /\ ended' = [ended EXCEPT ![l.key] = [port |-> l.port, age |-> 0]]
    /\ \E held \in {{}, {[key |-> l.key, port |-> l.port]}} :
        /\ held # {} => l.key.transport = "udp"
        /\ lingering' = lingering \cup held
    /\ UNCHANGED <<conn, link, sessions, busy, faults>>

\* The last flow that holds a socket goes: swept as idle, or dropped with the tables
\* of its session once the runtime has dropped the tasks that share them, which may
\* be after the node id is free.
DropFlows(g) ==
    /\ lingering' = lingering \ {g}
    /\ UNCHANGED <<conn, link, sessions, leases, resv, busy, faults, ended>>

-------------------------------------------------------------------------------
(* Time and faults *)

Less(x) == IF x > 0 THEN x - 1 ELSE 0

Tick ==
    /\ \/ \E n \in Node : conn[n].wait > 0
       \/ \E k \in Key : resv[k].left > 0
    /\ conn' = [n \in Node |-> [conn[n] EXCEPT !.wait = Less(@)]]
    /\ resv' = [k \in Key |-> IF resv[k].left > 1
                              THEN [port |-> resv[k].port, left |-> resv[k].left - 1]
                              ELSE NoPort]
    /\ ended' = [k \in Key |-> [ended[k] EXCEPT !.age = IF @ < Grace THEN @ + 1 ELSE @]]
    /\ UNCHANGED <<link, sessions, leases, busy, lingering, faults>>

Fault == faults < MaxFaults /\ faults' = faults + 1

\* A connection is lost; each end notices in its own time.
Lose(s) ==
    /\ Fault
    /\ link[s].open
    /\ link' = [link EXCEPT ![s].open = FALSE]
    /\ UNCHANGED <<conn, sessions, leases, resv, busy, lingering, ended>>

\* Another program takes a public port, and gives it back.
Occupy(transport, p) ==
    /\ Fault
    /\ Bindable(transport, p)
    /\ busy' = busy \cup {<<transport, p>>}
    /\ UNCHANGED <<conn, link, sessions, leases, resv, lingering, ended>>

Vacate ==
    /\ busy # {}
    /\ busy' = {}
    /\ UNCHANGED <<conn, link, sessions, leases, resv, lingering, faults, ended>>

\* The relay process restarts and knows nothing.
RelayRestart ==
    /\ Fault
    /\ link' = [s \in Sid |-> [link[s] EXCEPT !.stage = "free", !.open = FALSE]]
    /\ sessions' = [n \in Node |-> None]
    /\ leases' = {} /\ lingering' = {}
    /\ resv' = [k \in Key |-> NoPort]
    /\ ended' = [k \in Key |-> [port |-> 0, age |-> Grace]]
    /\ UNCHANGED <<conn, busy>>

-------------------------------------------------------------------------------

Connector(n) == Dial(n) \/ ReadReply(n) \/ Refused(n) \/ ConnectorNotices(n)

Relay(s) == \/ Register(s) \/ Ack(s) \/ AckFails(s) \/ Abandon(s)
            \/ RelayNotices(s) \/ AbortRequest(s) \/ Leave(s)
            \/ HandleLease(s) \/ LeaseAckFails(s)

Next ==
    \/ \E n \in Node : Connector(n)
    \/ \E s \in Sid : Relay(s) \/ Lose(s)
    \/ \E l \in leases : EndLease(l)
    \/ \E g \in lingering : DropFlows(g)
    \/ Tick \/ Vacate \/ RelayRestart
    \/ \E t \in Transport, p \in Port : Occupy(t, p)

Spec == Init /\ [][Next]_vars

\* Fairness.  Every task of either process keeps running, keepalives and the
\* idle timeout make both ends notice a lost connection, time passes, and a port
\* somebody else holds is given back.  Faults are not fair and finitely many.
\* A connector is never out of connections: Sid only bounds the model, so Dial is
\* strongly fair over the slots the other node leaves.
FairSpec ==
    /\ Spec
    /\ \A n \in Node : WF_vars(Connector(n)) /\ SF_vars(Dial(n))
    /\ \A s \in Sid : WF_vars(Relay(s)) /\ WF_vars(\E l \in LeasesOf(s) : EndLease(l))
    /\ WF_vars(Tick) /\ WF_vars(Vacate) /\ WF_vars(\E g \in lingering : DropFlows(g))

-------------------------------------------------------------------------------
(* Properties *)

\* A lease only ever lives under the registered session of its node: the relay
\* frees a node id after the last lease task of its old session has ended, so a
\* reconnecting node never competes with its own ghost for a permit or for a TCP
\* port.  (For a UDP port it may: the flows of an aborted lease outlive the
\* deregistration.)  And a connector that serves over a live connection holds every
\* lease it was configured with: no public port is silently missing.
OneSessionPerNode ==
    /\ \A l \in leases : sessions[l.key.node] = l.sid
    /\ \A n \in Node :
        conn[n].stage = "serve" /\ link[conn[n].sid].open =>
            \A i \in DOMAIN Targets[n] :
                \E l \in leases : /\ l.sid = conn[n].sid
                                  /\ l.key = KeyOf(n, Targets[n][i])

\* A node never serves more leases than it is allowed, over all the connections
\* it has, never two on the same public socket, and none on a socket through which
\* the flows of an ended lease can still send.
LeaseBound ==
    /\ \A n \in Node : Cardinality({l \in leases : l.key.node = n}) <= MaxLeases[n]
    /\ \A l, m \in leases :
        l.key.transport = m.key.transport /\ l.port = m.port => l = m
    /\ \A l \in leases : ~Lingers(l.key.transport, l.port)

\* What the relay holds for its nodes is sound, ghosts of lost connections,
\* refused nodes and slow tear-downs included.
LeasesSound == TypeOK /\ OneSessionPerNode /\ LeaseBound

\* docs/reverse-ingress.md:118: within lease_grace a dynamic port is restored by
\* preference.  A lease that comes back in time gets its old port unless that cannot be bound:
\* another program has it, or flows the lost lease left behind still hold it.
PortRestored ==
    [][\A l \in leases' \ leases :
          ended[l.key].age < Grace =>
              \/ l.port = ended[l.key].port
              \/ ~Bindable(l.key.transport, ended[l.key].port)]_vars

\* A node that may hold all it asks for.
Servable(n) ==
    /\ Len(Targets[n]) <= MaxLeases[n]
    /\ \A i \in DOMAIN Targets[n] : Grant[KeyOf(n, Targets[n][i])] # {}

\* After the last fault every connector that can be served serves again and
\* stays so, whatever was lost on the way and however often another node is
\* refused meanwhile: ghost sessions, reservations and backoff do not lock it out.
Restored == <>[](\A n \in Node : Servable(n) => conn[n].stage = "serve")
===============================================================================
