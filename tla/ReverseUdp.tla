------------------------------ MODULE ReverseUdp ------------------------------
(***************************************************************************)
(* The reverse/2 UDP relay over one hop connection (src/src/reverse/udp.rs *)
(* with open_udp of edge.rs and serve_udp_associate of hop.rs): the edge's *)
(* UdpRelays and their return channels, the control stream of each         *)
(* association, the hop's table of egress sockets, and the QUIC datagrams  *)
(* between the two, which may be lost or overtake one another.             *)
(*                                                                         *)
(* Association a is the a-th call of open_udp on the connection; it is the *)
(* name of the call, of its control stream, of the hop's session object    *)
(* and of the return channel, none of which the code can confuse.  What it *)
(* can confuse is the session id they are all looked up by.  Host names    *)
(* stand for host and port; Resolve is the hop's resolver.                 *)
(***************************************************************************)
EXTENDS Integers, Sequences, FiniteSets

CONSTANTS
    MaxAssoc,        \* bound: associations opened on the connection
    Host,            \* destinations a client names
    Addr,            \* socket addresses
    Resolve,         \* Resolve[h]: the address of a destination
    IdSpace,         \* number of values of a session id; 2^32 in the code
    MaxSessions,     \* HopUdpTable.max_sessions
    MaxContacted,    \* MAX_CONTACTED_PER_SESSION
    QueueCap,        \* RETURN_CHANNEL_CAP
    MaxPackets,      \* bound: return packets in a behaviour
    MaxFlight        \* bound: datagrams in flight in each direction

ASSUME UdpAssumption ==
    /\ MaxAssoc \in Nat /\ MaxPackets \in Nat /\ MaxFlight \in Nat
    /\ IdSpace \in Nat /\ IdSpace > 1
    /\ MaxSessions \in Nat \ {0} /\ MaxContacted \in Nat \ {0}
    /\ QueueCap \in Nat \ {0}
    /\ Resolve \in [Host -> Addr]

Assoc == 1 .. MaxAssoc
Sid   == 1 .. IdSpace - 1

VARIABLES
    closed,      \* the QUIC connection is closed
    seq,         \* EdgeUdpConn.seq
    edge,        \* each association at the edge: stage and session id
    routes,      \* EdgeUdpConn.sessions: the return channel of a session id
    queue,       \* the return channels
    hop,         \* the hop's task of each association and the reply it wrote
    table,       \* HopUdpTable.sessions: the session object of a session id
    contacted,   \* Contacted of each session object, in insertion order
    cache,       \* HopUdpSession.resolve of each session object
    uplink,      \* the datagram the hop's reader is working on
    up, down,    \* datagrams in flight, edge to hop and hop to edge
    pkts,        \* return packets so far (history)
    asked        \* the destinations each client sent to (history)

vars == <<closed, seq, edge, routes, queue, hop, table, contacted, cache,
          uplink, up, down, pkts, asked>>

Idle   == [a |-> 0]
UpDg   == [sid : Sid, host : Host]
\* A return packet: the socket it came in on and its source.
Return == [from : Assoc, addr : Addr]
DownDg == [sid : Sid, ret : Return]

TypeOK ==
    /\ closed \in BOOLEAN
    /\ seq \in 0 .. IdSpace - 1
    /\ edge \in [Assoc -> [stage : {"unborn", "asked", "open", "gone"}, sid : Sid \cup {0}]]
    /\ \A a \in Assoc : edge[a].stage # "unborn" => edge[a].sid # 0
    /\ routes \in [Sid -> Assoc \cup {0}]
    /\ queue \in [Assoc -> Seq(Return)]
    /\ \A a \in Assoc : Len(queue[a]) <= QueueCap
    /\ hop \in [Assoc -> [task : {"none", "request", "acking", "holding", "done"},
                          reply : {"none", "ok", "err"}]]
    /\ table \in [Sid -> Assoc \cup {0}]
    /\ contacted \in [Assoc -> Seq(Addr)]
    /\ \A a \in Assoc : Len(contacted[a]) <= MaxContacted
    /\ cache \in [Assoc -> SUBSET Host]
    /\ uplink \in {Idle} \cup [a : Assoc, host : Host]
    /\ up \subseteq UpDg
    /\ down \subseteq DownDg
    /\ pkts \in 0 .. MaxPackets
    /\ asked \in [Assoc -> SUBSET Host]

Init ==
    /\ closed = FALSE
    /\ seq = 0
    /\ edge = [a \in Assoc |-> [stage |-> "unborn", sid |-> 0]]
    /\ routes = [i \in Sid |-> 0]
    /\ queue = [a \in Assoc |-> <<>>]
    /\ hop = [a \in Assoc |-> [task |-> "none", reply |-> "none"]]
    /\ table = [i \in Sid |-> 0]
    /\ contacted = [a \in Assoc |-> <<>>]
    /\ cache = [a \in Assoc |-> {}]
    /\ uplink = Idle
    /\ up = {} /\ down = {}
    /\ pkts = 0
    /\ asked = [a \in Assoc |-> {}]

edgeVars == <<seq, edge, routes, queue>>
hopVars  == <<hop, table, contacted, cache, uplink>>
history  == <<pkts, asked>>

-------------------------------------------------------------------------------
(* Edge: open_udp and UdpRelay *)

\* Faulty variant: zero is handed out.
NextIdOrZero(n) == n

\* next_session_id: the counter wraps, zero is skipped.
NextId(n) == IF n = 0 THEN 1 ELSE n

\* A session id is taken and ASSOCIATE is written.
OpenUdp(a) ==
    /\ ~closed
    /\ edge[a].stage = "unborn" /\ \A b \in 1 .. a - 1 : edge[b].stage # "unborn"
    /\ edge' = [edge EXCEPT ![a] = [stage |-> "asked", sid |-> NextId(seq)]]
    /\ seq' = (NextId(seq) + 1) % IdSpace
    /\ hop' = [hop EXCEPT ![a].task = "request"]
    /\ UNCHANGED <<closed, routes, queue, table, contacted, cache, uplink, up, down, history>>

\* The reply is OK: build_relay registers the return channel.
Opened(a) ==
    /\ edge[a].stage = "asked" /\ hop[a].reply = "ok"
    /\ edge' = [edge EXCEPT ![a].stage = "open"]
    /\ routes' = [routes EXCEPT ![edge[a].sid] = a]
    /\ UNCHANGED <<closed, seq, queue, hopVars, up, down, history>>

\* The reply is ERR, does not come within open_timeout, or the connection ends:
\* both halves of the control stream are dropped.
NotOpened(a) ==
    /\ edge[a].stage = "asked"
    /\ edge' = [edge EXCEPT ![a].stage = "gone"]
    /\ UNCHANGED <<closed, seq, routes, queue, hopVars, up, down, history>>

\* UdpRelay::send_to
SendTo(a, h) ==
    /\ ~closed /\ edge[a].stage = "open"
    /\ Cardinality(up) < MaxFlight
    /\ up' = up \cup {[sid |-> edge[a].sid, host |-> h]}
    /\ asked' = [asked EXCEPT ![a] = @ \cup {h}]
    /\ UNCHANGED <<closed, edgeVars, hopVars, down, pkts>>

\* EdgeUdpConn::route with a bounded channel: try_send keeps what is queued.
Enqueue(q, ret) == IF Len(q) < QueueCap THEN Append(q, ret) ELSE q

\* spawn_edge_demux: one return datagram is routed, or dropped if its session id
\* is not registered.
Route(d) ==
    /\ ~closed /\ d \in down
    /\ down' = down \ {d}
    /\ LET a == routes[d.sid]
       IN  \/ /\ a = 0
              /\ UNCHANGED queue
           \/ /\ a # 0
              /\ queue' = [queue EXCEPT ![a] = Enqueue(@, d.ret)]
    /\ UNCHANGED <<closed, seq, edge, routes, hopVars, up, pkts, asked>>

\* UdpRelay::recv_from
RecvFrom(a) ==
    /\ edge[a].stage = "open" /\ queue[a] # <<>>
    /\ queue' = [queue EXCEPT ![a] = Tail(@)]
    /\ UNCHANGED <<closed, seq, edge, routes, hopVars, up, down, history>>

\* Drop of the UdpRelay: its session id is deregistered, the channel and the
\* control stream go with it.
DropRelay(a) ==
    /\ edge[a].stage = "open"
    /\ edge' = [edge EXCEPT ![a].stage = "gone"]
    /\ routes' = [routes EXCEPT ![edge[a].sid] = 0]
    /\ queue' = [queue EXCEPT ![a] = <<>>]
    /\ UNCHANGED <<closed, seq, hopVars, up, down, history>>

-------------------------------------------------------------------------------
(* Hop: serve_udp_associate and HopUdpTable *)

InTable(a) == \E i \in Sid : table[i] = a

\* Faulty variant: the table has no limit.
NoLimit(i) == TRUE

\* associate: room for a new session id, or an entry to replace.
HasRoom(i) ==
    \/ Cardinality({j \in Sid : table[j] # 0}) < MaxSessions
    \/ table[i] # 0

\* ASSOCIATE is read.  The socket cannot be bound or the table is full: ERR.
\* Otherwise the session object is entered under its id.
Associate(a) ==
    LET i == edge[a].sid
    IN  /\ hop[a].task = "request"
        /\ \/ /\ hop' = [hop EXCEPT ![a] = [task |-> "done", reply |-> "err"]]
              /\ UNCHANGED table
           \/ /\ HasRoom(i)
              /\ table' = [table EXCEPT ![i] = a]
              /\ hop' = [hop EXCEPT ![a].task = "acking"]
        /\ UNCHANGED <<closed, edgeVars, contacted, cache, uplink, up, down, history>>

\* OK is written.
AssociateAck(a) ==
    /\ hop[a].task = "acking"
    /\ hop' = [hop EXCEPT ![a] = [task |-> "holding", reply |-> "ok"]]
    /\ UNCHANGED <<closed, edgeVars, table, contacted, cache, uplink, up, down, history>>

\* Faulty variant: a dropped control stream is not taken as DISSOCIATE.
ControlNeverEnds(a) == closed

\* The edge dropped its half of the control stream, or the connection is gone.
ControlEnded(a) == closed \/ edge[a].stage = "gone"

\* Faulty variant: the entry stays.
RemoveNothing(a) == UNCHANGED table

\* HopUdpTable::remove of the association's session id.
Remove(a) == table' = [table EXCEPT ![edge[a].sid] = 0]

\* OK cannot be written any more, or the held control stream ended: the
\* association is reclaimed.
Dissociate(a) ==
    /\ hop[a].task \in {"acking", "holding"}
    /\ ControlEnded(a)
    /\ hop' = [hop EXCEPT ![a].task = "done"]
    /\ Remove(a)
    /\ UNCHANGED <<closed, edgeVars, contacted, cache, uplink, up, down, history>>

\* The request stream ended before its first frame was read.
Unread(a) ==
    /\ hop[a].task = "request" /\ ControlEnded(a)
    /\ hop' = [hop EXCEPT ![a].task = "done"]
    /\ UNCHANGED <<closed, edgeVars, table, contacted, cache, uplink, up, down, history>>

\* evict_idle: an association without traffic for UDP_SESSION_IDLE leaves the
\* table.  Its control stream is not told.
EvictIdle(i) ==
    /\ ~closed /\ table[i] # 0
    /\ table' = [table EXCEPT ![i] = 0]
    /\ UNCHANGED <<closed, edgeVars, hop, contacted, cache, uplink, up, down, history>>

\* The reader takes a datagram and looks its session up; unknown ids are dropped.
TakeUplink(d) ==
    /\ ~closed /\ uplink = Idle /\ d \in up
    /\ up' = up \ {d}
    /\ uplink' = IF table[d.sid] = 0 THEN Idle
                 ELSE [a |-> table[d.sid], host |-> d.host]
    /\ UNCHANGED <<closed, edgeVars, hop, table, contacted, cache, down, history>>

\* Contacted::insert: a known address keeps its place, the oldest one leaves.
Contact(order, addr) ==
    IF \E i \in DOMAIN order : order[i] = addr THEN order
    ELSE LET longer == Append(order, addr)
         IN  IF Len(longer) > MaxContacted THEN Tail(longer) ELSE longer

\* Resolving or sending fails, or the packet is sent and its address remembered.
FinishUplink ==
    /\ uplink # Idle
    /\ \/ UNCHANGED <<contacted, cache>>
       \/ /\ cache' = [cache EXCEPT ![uplink.a] = @ \cup {uplink.host}]
          /\ \/ UNCHANGED contacted
             \/ contacted' = [contacted EXCEPT ![uplink.a] =
                                  Contact(@, Resolve[uplink.host])]
    /\ uplink' = Idle
    /\ UNCHANGED <<closed, edgeVars, hop, table, up, down, history>>

\* Faulty variant: any source is admitted.
AdmitsAll(a, addr) == TRUE

\* The address-restricted filter.
Admits(a, addr) == \E i \in DOMAIN contacted[a] : contacted[a][i] = addr

\* spawn_downlink: a packet arrives on the socket of the entry under id i; only
\* an admitted source is relayed.
Downlink(i, addr) ==
    /\ ~closed /\ table[i] # 0
    /\ Admits(table[i], addr)
    /\ pkts < MaxPackets /\ Cardinality(down) < MaxFlight
    /\ pkts' = pkts + 1
    /\ down' = down \cup {[sid |-> i,
                           ret |-> [from |-> table[i], addr |-> addr]]}
    /\ UNCHANGED <<closed, edgeVars, hopVars, up, asked>>

-------------------------------------------------------------------------------
(* The connection *)

LoseDatagram ==
    /\ \/ \E d \in up : up' = up \ {d} /\ UNCHANGED down
       \/ \E d \in down : down' = down \ {d} /\ UNCHANGED up
    /\ UNCHANGED <<closed, edgeVars, hopVars, history>>

Close ==
    /\ ~closed
    /\ closed' = TRUE
    /\ up' = {} /\ down' = {}
    /\ UNCHANGED <<edgeVars, hopVars, history>>

HopTask(a) == Associate(a) \/ AssociateAck(a) \/ Dissociate(a) \/ Unread(a)

Next ==
    \/ \E a \in Assoc :
        \/ OpenUdp(a) \/ Opened(a) \/ NotOpened(a) \/ RecvFrom(a) \/ DropRelay(a)
        \/ HopTask(a)
        \/ \E h \in Host : SendTo(a, h)
    \/ \E i \in Sid : EvictIdle(i) \/ \E addr \in Addr : Downlink(i, addr)
    \/ \E d \in up : TakeUplink(d)
    \/ \E d \in down : Route(d)
    \/ FinishUplink \/ LoseDatagram \/ Close

Spec == Init /\ [][Next]_vars

\* Fairness.  The hop's task of every association keeps running: QUIC tells it of
\* a dropped stream and the idle timeout of a dead connection.
FairSpec == Spec /\ \A a \in Assoc : WF_vars(HopTask(a))

-------------------------------------------------------------------------------
(* Properties *)

\* A client only ever receives packets that came in on its own association's
\* socket, from an address it sent to itself (address-restricted filtering and
\* the session id lookup at both ends, for every overlap of opening, dropping,
\* eviction and late datagrams).
NoCrossTalk ==
    \A a \in Assoc : \A n \in DOMAIN queue[a] :
        /\ queue[a][n].from = a
        /\ queue[a][n].addr \in {Resolve[h] : h \in asked[a]}

\* Every egress socket in the hop's table belongs to a control stream task that
\* still runs and will remove it: no failure between associate and the reply
\* strands a socket, even if the edge timed out meanwhile.  And there are never
\* more of them than max_sessions.
EntryOwned ==
    /\ \A i \in Sid : table[i] # 0 =>
        hop[table[i]].task \in {"acking", "holding"} /\ edge[table[i]].sid = i
    /\ Cardinality({i \in Sid : table[i] # 0}) <= MaxSessions

\* What the two ends keep of an association is sound.
AssociationsSound == TypeOK /\ NoCrossTalk /\ EntryOwned

\* Once the edge gave an association up, or the connection is gone, the hop
\* reclaims its socket and its stream permit.
Reclaimed ==
    \A a \in Assoc :
        (closed \/ edge[a].stage = "gone") /\ hop[a].task # "none"
            ~> hop[a].task = "done" /\ ~InTable(a)
===============================================================================
