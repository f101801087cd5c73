----------------------------- MODULE IngressFlows -----------------------------
(***************************************************************************)
(* The UDP flows inside the leases of reverse ingress: the flow tables of  *)
(* the relay (src/src/ingress/relay.rs) and of the connector               *)
(* (src/src/ingress/connector.rs), their sweepers, and the registry that   *)
(* tells the node's own listeners whom a loopback socket stands for        *)
(* (src/src/ingress/metadata.rs).                                          *)
(*                                                                         *)
(* A relay flow is opened by the first packet of a client and gets a new   *)
(* random id; the connector opens a socket for each id it sees.  How the   *)
(* leases come about is IngressLease's subject.  A payload is left out but *)
(* for the client it came from.                                            *)
(***************************************************************************)
EXTENDS Integers, FiniteSets

CONSTANTS
    Client,          \* public client addresses
    Lease,
    LeaseOf,         \* LeaseOf[c]: the UDP lease c sends to
    Source,          \* loopback addresses the kernel hands out
    None,
    MaxFlow,         \* bound: flow ids drawn
    MaxRelayFlows,   \* max_udp_flows of the grant
    MaxLocalFlows,   \* max_udp_flows of the connector
    MaxMetadata,     \* MAX_UDP_FLOWS of the registry
    MaxFlight,       \* bound: datagrams under way
    MaxSessions      \* bound: sessions of the connector

ASSUME FlowsAssumption ==
    /\ LeaseOf \in [Client -> Lease]
    /\ None \notin Client \cup Source
    /\ {MaxFlow, MaxFlight, MaxRelayFlows, MaxLocalFlows, MaxMetadata} \subseteq Nat
    /\ MaxSessions \in Nat \ {0}
    /\ IsFiniteSet(Source)

\* None is neither a flow id nor an entry of a table.
ASSUME NoneApart ==
    /\ None \notin 1 .. MaxFlow
    /\ None \notin [client : Client, idle : BOOLEAN]
    /\ None \notin [client : Client, source : Source, idle : BOOLEAN]
    /\ None \notin [id : 1 .. MaxFlow, session : 1 .. MaxSessions]
    /\ None \notin [id : 1 .. MaxFlow, client : Client]

VARIABLES
    serving,         \* leases the relay serves
    aborted,         \* history: leases of this session whose tasks were aborted
    byKey,           \* FlowTables.by_key
    byId,            \* FlowTables.by_id
    sweep,           \* what the relay's sweeper found idle and has not removed yet
    drawn,           \* history: flow ids drawn so far
    net,             \* QUIC datagrams
    session,         \* the connector's session: serving, closing, cleared, none
    sessions,        \* sessions so far
    flows,           \* ConnectorSession.flows
    expired,         \* as sweep, of the connector
    loop,            \* udp_loop
    pump,            \* whose return task reads a socket: the flow and its session
    metadata,        \* udp_entries
    left             \* history: the sources registered for a flow that is no more

relay     == <<serving, aborted, byKey, byId, sweep, drawn>>
connector == <<session, sessions, flows, expired, loop, pump, metadata, left>>
vars      == <<relay, net, connector>>

Id   == 1 .. MaxFlow
Keys(f) == {i \in Id : f[i] # None}

Idle == [stage |-> "read", id |-> None, client |-> None, source |-> None]
Gone == [Idle EXCEPT !.stage = "gone"]

TypeOK ==
    /\ serving \subseteq Lease /\ aborted \subseteq Lease
    /\ byKey \in [Client -> Id \cup {None}]
    /\ byId \in [Id -> [client : Client, idle : BOOLEAN] \cup {None}]
    /\ Cardinality(Keys(byId)) <= MaxRelayFlows
    /\ sweep \subseteq Id /\ expired \subseteq Id
    /\ drawn \in 0 .. MaxFlow
    /\ net \subseteq [to : {"node", "relay"}, id : Id, client : Client \cup {None}]
    /\ session \in {"serving", "closing", "cleared", "none"}
    /\ sessions \in 1 .. MaxSessions
    /\ flows \in [Id -> [client : Client, source : Source, idle : BOOLEAN] \cup {None}]
    /\ Cardinality(Keys(flows)) <= MaxLocalFlows
    /\ loop \in [stage : {"read", "insert", "send", "gone"}, id : Id \cup {None},
                 client : Client \cup {None}, source : Source \cup {None}]
    /\ pump \in [Source -> [id : Id, session : 1 .. MaxSessions] \cup {None}]
    /\ metadata \in [Source -> [id : Id, client : Client] \cup {None}]
    /\ Cardinality({s \in Source : metadata[s] # None}) <= MaxMetadata
    /\ left \subseteq Source

Init ==
    /\ serving = Lease /\ aborted = {}
    /\ byKey = [c \in Client |-> None]
    /\ byId = [i \in Id |-> None]
    /\ sweep = {} /\ expired = {} /\ net = {} /\ left = {}
    /\ drawn = 0
    /\ session = "serving" /\ sessions = 1
    /\ flows = [i \in Id |-> None]
    /\ loop = Idle
    /\ pump = [s \in Source |-> None]
    /\ metadata = [s \in Source |-> None]

\* send_datagram: QUIC drops what it has no room for.
Send(d) == net' = IF Cardinality(net) < MaxFlight THEN net \cup {d} ELSE net

Lose(d) ==
    /\ d \in net
    /\ net' = net \ {d}
    /\ UNCHANGED <<relay, connector>>

-------------------------------------------------------------------------------
(* Relay *)

Uplink(c, i) == [to |-> "node", id |-> i, client |-> c]

\* forward_udp for a client that has a flow.
Forward(c) ==
    /\ LeaseOf[c] \in serving /\ byKey[c] # None
    /\ byId' = [byId EXCEPT ![byKey[c]] = IF @ = None THEN @ ELSE [@ EXCEPT !.idle = FALSE]]
    /\ Send(Uplink(c, byKey[c]))
    /\ UNCHANGED <<serving, aborted, byKey, sweep, drawn, connector>>

\* forward_udp for one that has none; beyond the capacity the packet is dropped.
OpenFlow(c, i) ==
    /\ LeaseOf[c] \in serving /\ byKey[c] = None
    /\ Cardinality(Keys(byId)) < MaxRelayFlows
    /\ i = drawn + 1
    /\ byKey' = [byKey EXCEPT ![c] = i]
    /\ byId' = [byId EXCEPT ![i] = [client |-> c, idle |-> FALSE]]
    /\ drawn' = i
    /\ Send(Uplink(c, i))
    /\ UNCHANGED <<serving, aborted, sweep, connector>>

\* downlink_loop: an unknown flow drops the packet.
Downlink(d) ==
    /\ d \in net /\ d.to = "relay"
    /\ net' = net \ {d}
    /\ byId' = [byId EXCEPT ![d.id] = IF @ = None THEN @ ELSE [@ EXCEPT !.idle = FALSE]]
    /\ UNCHANGED <<serving, aborted, byKey, sweep, drawn, connector>>

\* A flow was not used for DEFAULT_FLOW_IDLE.
GrowIdle(i) ==
    /\ byId[i] # None /\ ~ byId[i].idle
    /\ byId' = [byId EXCEPT ![i].idle = TRUE]
    /\ UNCHANGED <<serving, aborted, byKey, sweep, drawn, net, connector>>

\* Faulty variant: the sweeper takes the flows in use for the idle ones.
CollectFresh ==
    /\ sweep = {}
    /\ sweep' = {i \in Keys(byId) : ~ byId[i].idle} /\ sweep' # {}
    /\ UNCHANGED <<serving, aborted, byKey, byId, drawn, net, connector>>

\* flow_sweeper collects under the lock ...
Collect ==
    /\ sweep = {}
    /\ sweep' = {i \in Keys(byId) : byId[i].idle} /\ sweep' # {}
    /\ UNCHANGED <<serving, aborted, byKey, byId, drawn, net, connector>>

\* Faulty variant: the id goes and the client's entry stays.
RemoveIdOnly(is) ==
    /\ byId' = [i \in Id |-> IF i \in is THEN None ELSE byId[i]]
    /\ UNCHANGED byKey

\* remove_flow
Remove(is) ==
    /\ byId' = [i \in Id |-> IF i \in is THEN None ELSE byId[i]]
    /\ byKey' = [c \in Client |->
           IF \E i \in is : byId[i] # None /\ byId[i].client = c THEN None ELSE byKey[c]]

\* ... and removes one by one, whatever happened since.
SweepNext(i) ==
    /\ i \in sweep
    /\ sweep' = sweep \ {i}
    /\ Remove({i})
    /\ UNCHANGED <<serving, aborted, drawn, net, connector>>

\* remove_lease_flows: the flows of a lease.
FlowsOf(l) == {i \in Keys(byId) : LeaseOf[byId[i].client] = l}

\* serve_udp_lease sees the connection closed, and remove_lease_flows follows.
EndLease(l) ==
    /\ l \in serving /\ session # "serving"
    /\ serving' = serving \ {l}
    /\ Remove(FlowsOf(l))
    /\ UNCHANGED <<aborted, sweep, drawn, net, connector>>

\* handle_connection aborts the lease's task where it waits: its flows stay.
AbortLease(l) ==
    /\ l \in serving /\ session # "serving"
    /\ serving' = serving \ {l} /\ aborted' = aborted \cup {l}
    /\ UNCHANGED <<byKey, byId, sweep, drawn, net, connector>>

\* The session's last task is dropped, the sweeper among them, and its tables with it.
DropTables ==
    /\ session # "serving" /\ serving = {} /\ aborted # {}
    /\ aborted' = {} /\ sweep' = {}
    /\ byKey' = [c \in Client |-> None] /\ byId' = [i \in Id |-> None]
    /\ UNCHANGED <<serving, drawn, net, connector>>

-------------------------------------------------------------------------------
(* Connector *)

Bound(s) == pump[s] # None \/ loop.source = s \/ \E i \in Keys(flows) : flows[i].source = s

Registered == {s \in Source : metadata[s] # None}

\* Faulty variant: the limit is tested a flow too late.
RoomLate == Cardinality(Keys(flows)) <= MaxLocalFlows

\* get_or_open_flow: the limit of the connector.
Room == Cardinality(Keys(flows)) < MaxLocalFlows

\* register_udp of a source the kernel gave; insert_bounded refuses a new one when
\* the registry is full.
Register(s, d) ==
    /\ s \in Registered \/ Cardinality(Registered) < MaxMetadata
    /\ metadata' = [metadata EXCEPT ![s] = [id |-> d.id, client |-> d.client]]

\* get_or_open_flow up to the second lock: an existing flow is used if it is the
\* same client's, otherwise a socket is bound, registered and given a return task.
Receive(d) ==
    /\ loop.stage = "read" /\ d \in net /\ d.to = "node"
    /\ net' = net \ {d}
    /\ \/ /\ flows[d.id] # None /\ flows[d.id].client = d.client
          /\ loop' = [stage |-> "send", id |-> d.id, client |-> d.client,
                      source |-> flows[d.id].source]
          /\ UNCHANGED <<pump, metadata, left>>
       \/ /\ flows[d.id] = None /\ Room
          /\ \E s \in Source :
              /\ ~ Bound(s)
              /\ Register(s, d) /\ left' = left \ {s}
              /\ pump' = [pump EXCEPT ![s] = [id |-> d.id, session |-> sessions]]
              /\ loop' = [stage |-> "insert", id |-> d.id, client |-> d.client, source |-> s]
    /\ UNCHANGED <<relay, session, sessions, flows, expired>>

\* It is another client's, there are too many, or a step of opening failed.
ReceiveDropped(d) ==
    /\ loop.stage = "read" /\ d \in net /\ d.to = "node"
    /\ flows[d.id] # None => flows[d.id].client # d.client
    /\ net' = net \ {d}
    /\ UNCHANGED <<relay, connector>>

\* get_or_open_flow under the second lock.  Only udp_loop enters flows, so it finds
\* none that exists.
Insert ==
    /\ loop.stage = "insert"
    /\ flows' = [flows EXCEPT ![loop.id] = [client |-> loop.client, source |-> loop.source,
                                            idle |-> FALSE]]
    /\ loop' = [loop EXCEPT !.stage = "send"]
    /\ UNCHANGED <<relay, net, session, sessions, expired, pump, metadata, left>>

\* The packet is sent to the listener, which asks lookup_udp whom its source stands
\* for; the flow is used, unless the send fails.
SendLocal ==
    /\ loop.stage = "send"
    /\ \/ flows' = [flows EXCEPT ![loop.id] = IF @ = None THEN @ ELSE [@ EXCEPT !.idle = FALSE]]
       \/ UNCHANGED flows
    /\ loop' = Idle
    /\ UNCHANGED <<relay, net, session, sessions, expired, pump, metadata, left>>

\* spawn_udp_return: the listener sends something to the socket of a flow.  The
\* clock is the flow's; with its connection gone the task ends.
Answer(s) ==
    /\ pump[s] # None
    /\ LET i == pump[s].id
           open == session = "serving" /\ pump[s].session = sessions
       IN
        /\ flows' = [flows EXCEPT ![i] = IF @ # None /\ @.source = s
                                         THEN [@ EXCEPT !.idle = FALSE] ELSE @]
        /\ \/ /\ open
              /\ Send([to |-> "relay", id |-> i, client |-> None])
              /\ UNCHANGED pump
           \/ /\ ~ open
              /\ pump' = [pump EXCEPT ![s] = None]
              /\ UNCHANGED net
        /\ UNCHANGED <<relay, session, sessions, expired, loop, metadata, left>>

\* A flow was not used for FLOW_IDLE.
GrowIdleLocal(i) ==
    /\ flows[i] # None /\ ~ flows[i].idle
    /\ flows' = [flows EXCEPT ![i].idle = TRUE]
    /\ UNCHANGED <<relay, net, session, sessions, expired, loop, pump, metadata, left>>

\* flow_sweeper
CollectLocal ==
    /\ expired = {} /\ session = "serving"
    /\ expired' = {i \in Keys(flows) : flows[i].idle} /\ expired' # {}
    /\ UNCHANGED <<relay, net, session, sessions, flows, loop, pump, metadata, left>>

\* Faulty variant: the registry keeps what the flow registered.
CloseUnregistered(is) ==
    LET ss == {flows[i].source : i \in is \cap Keys(flows)}
    IN  /\ flows' = [i \in Id |-> IF i \in is THEN None ELSE flows[i]]
        /\ pump' = [s \in Source |-> IF s \in ss THEN None ELSE pump[s]]
        /\ UNCHANGED metadata

\* remove_flow and clear_flows: the registration goes, the return task is aborted.
Close(is) ==
    LET ss == {flows[i].source : i \in is \cap Keys(flows)}
    IN  /\ flows' = [i \in Id |-> IF i \in is THEN None ELSE flows[i]]
        /\ metadata' = [s \in Source |-> IF s \in ss THEN None ELSE metadata[s]]
        /\ pump' = [s \in Source |-> IF s \in ss THEN None ELSE pump[s]]

SweepLocal(i) ==
    /\ i \in expired
    /\ expired' = expired \ {i}
    /\ Close({i})
    /\ UNCHANGED <<relay, net, session, sessions, loop, left>>

-------------------------------------------------------------------------------
(* The end of a session *)

\* The connection is lost or closed: connect_and_serve aborts its tasks ...
EndSession ==
    /\ session = "serving"
    /\ session' = "closing"
    /\ net' = {d \in net : d.to = "node"}
    /\ UNCHANGED <<relay, sessions, flows, expired, loop, pump, metadata, left>>

\* ... and clears the table.  An aborted task that is running goes on to its next
\* await, so udp_loop may still enter a flow afterwards.
ClearFlows ==
    /\ session = "closing"
    /\ session' = "cleared"
    /\ Close(Id)
    /\ UNCHANGED <<relay, net, sessions, expired, loop, left>>

\* The aborted tasks are dropped where they wait: what get_or_open_flow registered
\* and had not entered stays registered, and nobody will withdraw it.
Cancel ==
    /\ session # "serving" /\ loop.stage # "gone"
    /\ loop' = Gone /\ expired' = {}
    /\ left' = IF loop.stage = "insert" THEN left \cup {loop.source} ELSE left
    /\ UNCHANGED <<relay, net, session, sessions, flows, pump, metadata>>

\* The session is dropped with its table, and a flow entered after clear_flows with
\* it; return tasks are detached.
DropSession ==
    /\ session = "cleared" /\ loop.stage = "gone"
    /\ session' = "none"
    /\ flows' = [i \in Id |-> None]
    /\ left' = left \cup {flows[i].source : i \in Keys(flows)}
    /\ UNCHANGED <<relay, net, sessions, expired, loop, pump, metadata>>

\* A new session, once the relay has joined the lease tasks of the old one; it has
\* tables of its own, wherever those of the old one still are.
Reconnect ==
    /\ session = "none" /\ serving = {} /\ sessions < MaxSessions
    /\ session' = "serving" /\ sessions' = sessions + 1
    /\ serving' = Lease /\ aborted' = {}
    /\ byKey' = [c \in Client |-> None] /\ byId' = [i \in Id |-> None]
    /\ loop' = Idle
    /\ net' = {} /\ sweep' = {}
    /\ UNCHANGED <<drawn, flows, expired, pump, metadata, left>>

Sweeping == Collect \/ \E i \in Id : SweepNext(i)
SweepingLocal == CollectLocal \/ \E i \in Id : SweepLocal(i)
Ending == \/ \E l \in Lease : EndLease(l) \/ AbortLease(l)
          \/ DropTables \/ ClearFlows \/ Cancel \/ DropSession

Next ==
    \/ \E c \in Client : Forward(c) \/ \E i \in Id : OpenFlow(c, i)
    \/ \E d \in net : Lose(d) \/ Downlink(d) \/ Receive(d) \/ ReceiveDropped(d)
    \/ \E i \in Id : GrowIdle(i) \/ GrowIdleLocal(i)
    \/ Sweeping \/ SweepingLocal
    \/ Insert \/ SendLocal
    \/ \E s \in Source : Answer(s)
    \/ EndSession \/ Ending \/ Reconnect

Spec == Init /\ [][Next]_vars

\* Fairness.  The sweepers have intervals, and a session that ends is cleaned up.
FairSpec == Spec /\ WF_vars(Sweeping) /\ WF_vars(SweepingLocal) /\ WF_vars(Ending)

-------------------------------------------------------------------------------
(* Properties *)

\* The two tables of the relay mirror each other: a client has at most one flow,
\* every flow is found by its client, and both belong to a lease that is served or
\* was cut off in this session, whichever way sweeps, orderly and aborted ends of
\* leases and new packets overlap.
Paired ==
    /\ \A c \in Client : byKey[c] # None => byId[byKey[c]] # None /\ byId[byKey[c]].client = c
    /\ \A i \in Keys(byId) :
        byKey[byId[i].client] = i /\ LeaseOf[byId[i].client] \in serving \cup aborted

\* The tables of both sides stay within their limits and mirror each other.
TablesSound == TypeOK /\ Paired

\* A listener never takes a packet of a flow for another client's, although
\* addresses are handed out again; and every registration has a flow, but for those
\* that a session cut off between its registration and its table left behind.  These
\* are never withdrawn: until a flow registers the address again, whatever local
\* program gets it is taken for the client of then.
Truthful ==
    /\ loop.stage = "send" /\ metadata[loop.source] # None =>
        metadata[loop.source].client = loop.client
    /\ Registered \subseteq {flows[i].source : i \in Keys(flows)} \cup {loop.source} \cup left

\* An idle flow is used again or removed, at the relay and at the connector.
Expires ==
    \A i \in Id :
        /\ byId[i] # None /\ byId[i].idle ~> byId[i] = None \/ ~ byId[i].idle
        /\ flows[i] # None /\ flows[i].idle ~> flows[i] = None \/ ~ flows[i].idle
===============================================================================
