------------------------ MODULE IngressStreams_proofs -------------------------
(***************************************************************************)
(* Proofs about what a lease of reverse ingress carries, for every number  *)
(* of clients, leases, connections and loopback addresses and every limit  *)
(* of the tables: the flow tables of relay and connector, the permits of   *)
(* the relay, and whom the node's listener takes a connection or a packet  *)
(* for.                                                                    *)
(***************************************************************************)
EXTENDS IngressStreams, FiniteSetTheorems, TLAPS

RelayRec == [client : Client, idle : BOOLEAN]
FlowRec  == [client : Client, source : Source, idle : BOOLEAN]
PumpRec  == [id : Id, session : 1 .. MaxSessions]
MetaRec  == [id : Id, client : Client]
Packet   == [to : {"node", "relay"}, id : Id, client : Client \cup {None}]
LoopRec  == [stage : {"read", "insert", "send", "gone"}, id : Id \cup {None},
             client : Client \cup {None}, source : Source \cup {None}]

LEMMA NoneIsNoEntry ==
    None \notin Id /\ None \notin RelayRec /\ None \notin FlowRec /\ None \notin PumpRec /\ None \notin MetaRec
  BY NoneApart DEF Id, RelayRec, FlowRec, PumpRec, MetaRec

-------------------------------------------------------------------------------
(* The flow tables of the relay *)

RelayTypes ==
    /\ serving \subseteq Lease /\ aborted \subseteq Lease
    /\ byKey \in [Client -> Id \cup {None}]
    /\ byId \in [Id -> RelayRec \cup {None}]
    /\ Cardinality(Keys(byId)) <= MaxRelayFlows
    /\ sweep \subseteq Id
    /\ drawn \in 0 .. MaxFlow

\* Ids are drawn in order, and none is a flow's before.
FlowDrawn == \A i \in Id : i > drawn => byId[i] = None

RelayInv == RelayTypes /\ Paired /\ FlowDrawn

LEMMA KeysFinite ==
    ASSUME NEW f
    PROVE  IsFiniteSet(Keys(f)) /\ Cardinality(Keys(f)) \in Nat
<1>1. MaxFlow \in Nat
  BY FlowsAssumption
<1>2. IsFiniteSet(Id)
  BY <1>1, FS_Interval DEF Id
<1>3. Keys(f) \subseteq Id
  BY DEF Keys
<1>4. IsFiniteSet(Keys(f))
  BY <1>2, <1>3, FS_Subset
<1>5. QED
  BY <1>4, FS_CardinalityType

\* A flow is used or grows idle; or nothing of the tables changes.
LEMMA TouchKeeps ==
    ASSUME RelayInv, UNCHANGED <<byKey, drawn>>, sweep' \subseteq Id,
           serving' \subseteq Lease, aborted' \subseteq Lease,
           serving \cup aborted \subseteq serving' \cup aborted',
           byId' \in [Id -> RelayRec \cup {None}],
           \A i \in Id : /\ byId'[i] = None <=> byId[i] = None
                         /\ byId[i] # None => byId'[i].client = byId[i].client
    PROVE  RelayInv'
<1>1. Keys(byId') = Keys(byId)
  BY DEF Keys
<1>2. RelayTypes'
  BY <1>1 DEF RelayInv, RelayTypes
<1>3. \A i \in Keys(byId) : i \in Id /\ byId[i] # None
  BY DEF Keys
<1>4. \A c \in Client : byKey[c] # None => byKey[c] \in Id
  BY DEF RelayInv, RelayTypes
<1>5. Paired'
  BY <1>1, <1>3, <1>4 DEF RelayInv, Paired
<1>6. FlowDrawn'
  BY DEF RelayInv, FlowDrawn
<1>7. QED
  BY <1>2, <1>5, <1>6 DEF RelayInv

LEMMA RelayStays ==
    ASSUME RelayInv, UNCHANGED relay
    PROVE  RelayInv'
  BY DEF RelayInv, RelayTypes, Paired, FlowDrawn, relay, Keys

\* The use of a flow clears its idle mark.
LEMMA UsedFlow ==
    ASSUME RelayInv, NEW j \in Id,
           byId' = [byId EXCEPT ![j] = IF @ = None THEN @ ELSE [@ EXCEPT !.idle = FALSE]]
    PROVE  /\ byId' \in [Id -> RelayRec \cup {None}]
           /\ \A i \in Id : /\ byId'[i] = None <=> byId[i] = None
                            /\ byId[i] # None => byId'[i].client = byId[i].client
<1>1. byId \in [Id -> RelayRec \cup {None}]
  BY DEF RelayInv, RelayTypes
<1>2. CASE byId[j] = None
  BY <1>1, <1>2
<1>3. CASE byId[j] # None
  <2>1. byId[j] \in RelayRec
    BY <1>1, <1>3
  <2> DEFINE r == [byId[j] EXCEPT !.idle = FALSE]
  <2>2. r \in RelayRec /\ r.client = byId[j].client
    BY <2>1 DEF RelayRec
  <2>3. byId' = [byId EXCEPT ![j] = r]
    BY <1>3
  <2> HIDE DEF r
  <2>4. QED
    BY <1>1, <1>3, <2>2, <2>3, NoneIsNoEntry
<1>4. QED
  BY <1>2, <1>3

\* remove_flow and remove_lease_flows
LEMMA RemoveKeeps ==
    ASSUME RelayInv, NEW is \in SUBSET Id, Remove(is), UNCHANGED drawn, sweep' \subseteq Id,
           serving' \subseteq Lease, UNCHANGED aborted,
           \A i \in Keys(byId) \ is : LeaseOf[byId[i].client] \in serving' \cup aborted
    PROVE  RelayInv'
<1>1. byId \in [Id -> RelayRec \cup {None}] /\ byKey \in [Client -> Id \cup {None}] /\ Paired
  BY DEF RelayInv, RelayTypes
<1>2. /\ byId' = [i \in Id |-> IF i \in is THEN None ELSE byId[i]]
      /\ byKey' = [c \in Client |->
             IF \E i \in is : byId[i] # None /\ byId[i].client = c THEN None ELSE byKey[c]]
  BY DEF Remove
<1>3. byId' \in [Id -> RelayRec \cup {None}] /\ byKey' \in [Client -> Id \cup {None}]
  BY <1>1, <1>2
<1>4. Keys(byId') = Keys(byId) \ is
  BY <1>2 DEF Keys
<1>5. Cardinality(Keys(byId')) <= MaxRelayFlows
  <2>1. Keys(byId') \subseteq Keys(byId)
    BY <1>4
  <2>2. Cardinality(Keys(byId')) <= Cardinality(Keys(byId))
    BY <2>1, KeysFinite, FS_Subset
  <2>3. MaxRelayFlows \in Nat /\ Cardinality(Keys(byId)) <= MaxRelayFlows
    BY FlowsAssumption DEF RelayInv, RelayTypes
  <2>4. QED
    BY <2>2, <2>3, KeysFinite
<1>6. RelayTypes'
  BY <1>3, <1>5 DEF RelayInv, RelayTypes
<1>7. FlowDrawn'
  BY <1>2 DEF RelayInv, FlowDrawn
<1>8. ASSUME NEW c \in Client, byKey'[c] # None
      PROVE  byId'[byKey'[c]] # None /\ byId'[byKey'[c]].client = c
  <2>1. byKey'[c] = byKey[c] /\ byKey[c] \in Id
    BY <1>1, <1>2, <1>8
  <2>2. byId[byKey[c]] # None /\ byId[byKey[c]].client = c
    BY <1>1, <1>8, <2>1 DEF Paired
  <2>3. byKey[c] \notin is
    BY <1>2, <1>8, <2>2
  <2>4. QED
    BY <1>2, <2>1, <2>2, <2>3
<1>9. ASSUME NEW i \in Keys(byId')
      PROVE  byKey'[byId'[i].client] = i /\ LeaseOf[byId'[i].client] \in serving' \cup aborted'
  <2>1. i \in Keys(byId) /\ i \in Id /\ i \notin is /\ byId'[i] = byId[i] /\ byId[i] # None
    BY <1>2, <1>4 DEF Keys
  <2>2. byKey[byId[i].client] = i /\ byId[i].client \in Client
    BY <1>1, <2>1 DEF Paired, RelayRec
  <2>3. ~ \E j \in is : byId[j] # None /\ byId[j].client = byId[i].client
    BY <1>1, <2>1, <2>2 DEF Paired, Keys
  <2>4. QED
    BY <1>2, <2>1, <2>2, <2>3
<1>10. Paired'
  BY <1>8, <1>9 DEF Paired
<1>11. QED
  BY <1>6, <1>7, <1>10 DEF RelayInv

\* forward_udp of a new client
LEMMA OpenFlowKeeps ==
    ASSUME RelayInv, NEW c \in Client, NEW j \in Id, OpenFlow(c, j)
    PROVE  RelayInv'
<1>1. byId \in [Id -> RelayRec \cup {None}] /\ byKey \in [Client -> Id \cup {None}] /\ Paired
  BY DEF RelayInv, RelayTypes
<1> DEFINE r == [client |-> c, idle |-> FALSE]
<1>2. r \in RelayRec /\ r.client = c /\ r # None
  <2>1. r \in RelayRec /\ r.client = c
    BY DEF RelayRec
  <2>2. QED
    BY <2>1, NoneIsNoEntry
<1>3. /\ j = drawn + 1 /\ drawn' = j /\ byKey[c] = None /\ LeaseOf[c] \in serving
      /\ byKey' = [byKey EXCEPT ![c] = j] /\ byId' = [byId EXCEPT ![j] = r]
      /\ Cardinality(Keys(byId)) < MaxRelayFlows /\ UNCHANGED <<serving, aborted, sweep>>
  BY DEF OpenFlow
<1> HIDE DEF r
<1>4. j \in 1 .. MaxFlow /\ drawn \in Nat /\ MaxFlow \in Nat /\ drawn' \in 0 .. MaxFlow
  BY <1>3, FlowsAssumption DEF RelayInv, RelayTypes, Id
<1>5. byId[j] = None
  BY <1>3, <1>4 DEF RelayInv, FlowDrawn
<1>6. Keys(byId') = Keys(byId) \cup {j} /\ j \notin Keys(byId)
  BY <1>1, <1>2, <1>3, <1>5 DEF Keys
<1>7. Cardinality(Keys(byId')) <= MaxRelayFlows
  <2>1. Cardinality(Keys(byId')) = Cardinality(Keys(byId)) + 1
    BY <1>6, KeysFinite, FS_AddElement
  <2>2. QED
    BY <1>3, <2>1, KeysFinite, FlowsAssumption
<1>8. byId' \in [Id -> RelayRec \cup {None}] /\ byKey' \in [Client -> Id \cup {None}]
  BY <1>1, <1>2, <1>3
<1>9. RelayTypes'
  BY <1>3, <1>4, <1>7, <1>8 DEF RelayInv, RelayTypes
<1>10. FlowDrawn'
  <2>1. ASSUME NEW i \in Id, i > drawn' PROVE byId'[i] = None
    <3>1. i \in Nat /\ i # j /\ i > drawn
      BY <1>3, <1>4, <2>1 DEF Id
    <3>2. QED
      BY <1>1, <1>3, <3>1 DEF RelayInv, FlowDrawn
  <2>2. QED
    BY <2>1 DEF FlowDrawn
<1>11. ASSUME NEW d \in Client, byKey'[d] # None
       PROVE  byId'[byKey'[d]] # None /\ byId'[byKey'[d]].client = d
  <2>1. CASE d = c
    BY <1>1, <1>2, <1>3, <2>1
  <2>2. CASE d # c
    <3>1. byKey'[d] = byKey[d] /\ byKey[d] \in Id
      BY <1>1, <1>3, <1>11, <2>2
    <3>2. byId[byKey[d]] # None /\ byId[byKey[d]].client = d
      BY <1>1, <1>11, <3>1 DEF Paired
    <3>3. byKey[d] # j
      BY <1>5, <3>2
    <3>4. QED
      BY <1>1, <1>3, <3>1, <3>2, <3>3
  <2>3. QED
    BY <2>1, <2>2
<1>12. ASSUME NEW i \in Keys(byId')
       PROVE  byKey'[byId'[i].client] = i /\ LeaseOf[byId'[i].client] \in serving' \cup aborted'
  <2>1. CASE i = j
    BY <1>1, <1>2, <1>3, <2>1
  <2>2. CASE i # j
    <3>1. i \in Keys(byId) /\ i \in Id /\ byId'[i] = byId[i] /\ byId[i] \in RelayRec
      BY <1>1, <1>3, <1>6, <2>2 DEF Keys
    <3>2. /\ byKey[byId[i].client] = i /\ byId[i].client \in Client
          /\ LeaseOf[byId[i].client] \in serving \cup aborted
      BY <1>1, <3>1 DEF Paired, RelayRec
    <3>3. byId[i].client # c
      BY <1>3, <3>1, <3>2, NoneIsNoEntry
    <3>4. QED
      BY <1>1, <1>3, <3>1, <3>2, <3>3
  <2>3. QED
    BY <2>1, <2>2
<1>13. Paired'
  BY <1>11, <1>12 DEF Paired
<1>14. QED
  BY <1>9, <1>10, <1>13 DEF RelayInv

LEMMA EndLeaseKeeps ==
    ASSUME RelayInv, NEW l, EndLease(l)
    PROVE  RelayInv'
<1>1. FlowsOf(l) \in SUBSET Id
  BY DEF FlowsOf, Keys
<1>2. \A i \in Keys(byId) \ FlowsOf(l) : LeaseOf[byId[i].client] \in serving' \cup aborted
  BY DEF EndLease, FlowsOf, RelayInv, Paired
<1>3. QED
  BY <1>1, <1>2, RemoveKeeps DEF EndLease, RelayInv, RelayTypes

\* The task of a lease is aborted: its flows stay, and it is remembered.
LEMMA AbortLeaseKeeps ==
    ASSUME RelayInv, NEW l \in Lease, AbortLease(l)
    PROVE  RelayInv'
<1>1. /\ serving' \subseteq Lease /\ aborted' \subseteq Lease
      /\ serving \cup aborted \subseteq serving' \cup aborted'
      /\ UNCHANGED <<byKey, byId, sweep, drawn>>
  BY DEF AbortLease, RelayInv, RelayTypes
<1>2. QED
  BY <1>1, TouchKeeps DEF RelayInv, RelayTypes

\* The tables of a session go, or a new session begins with empty ones.
LEMMA FreshTables ==
    ASSUME RelayInv, UNCHANGED drawn, sweep' = {}, serving' \subseteq Lease, aborted' = {},
           byKey' = [c \in Client |-> None], byId' = [i \in Id |-> None]
    PROVE  RelayInv'
<1>1. Keys(byId') = {}
  BY DEF Keys
<1>2. Cardinality(Keys(byId')) = 0 /\ MaxRelayFlows \in Nat
  BY <1>1, FS_EmptySet, FlowsAssumption
<1>3. RelayTypes'
  BY <1>2 DEF RelayInv, RelayTypes
<1>4. Paired' /\ FlowDrawn'
  BY <1>1 DEF Paired, FlowDrawn
<1>5. QED
  BY <1>3, <1>4 DEF RelayInv

\* Every action of the relay.
LEMMA RelayNext ==
    ASSUME RelayInv, TypeOK, Next
    PROVE  RelayInv'
<1>1. ASSUME NEW c \in Client, Forward(c) PROVE RelayInv'
  <2>1. byKey[c] \in Id
    BY <1>1 DEF Forward, RelayInv, RelayTypes
  <2>2. QED
    BY <1>1, <2>1, UsedFlow, TouchKeeps DEF Forward, RelayInv, RelayTypes
<1>2. ASSUME NEW d \in net, Downlink(d) PROVE RelayInv'
  <2>1. d.id \in Id
    BY DEF TypeOK
  <2>2. QED
    BY <1>2, <2>1, UsedFlow, TouchKeeps DEF Downlink, RelayInv, RelayTypes
<1>3. ASSUME NEW i \in Id, GrowIdle(i) PROVE RelayInv'
  <2>1. byId[i] \in RelayRec /\ byId \in [Id -> RelayRec \cup {None}]
    BY <1>3 DEF GrowIdle, RelayInv, RelayTypes
  <2> DEFINE r == [byId[i] EXCEPT !.idle = TRUE]
  <2>2. r \in RelayRec /\ r.client = byId[i].client /\ byId' = [byId EXCEPT ![i] = r]
    BY <1>3, <2>1 DEF GrowIdle, RelayRec
  <2> HIDE DEF r
  <2>3. /\ byId' \in [Id -> RelayRec \cup {None}]
        /\ \A j \in Id : /\ byId'[j] = None <=> byId[j] = None
                         /\ byId[j] # None => byId'[j].client = byId[j].client
    BY <2>1, <2>2, NoneIsNoEntry
  <2>4. QED
    BY <1>3, <2>3, TouchKeeps DEF GrowIdle, RelayInv, RelayTypes
<1>4. CASE Collect
  <2>1. sweep' \subseteq Id
    BY <1>4 DEF Collect, Keys
  <2>2. QED
    BY <1>4, <2>1, TouchKeeps DEF Collect, RelayInv, RelayTypes
<1>5. ASSUME NEW i \in Id, SweepNext(i) PROVE RelayInv'
  <2>1. /\ {i} \in SUBSET Id /\ sweep' \subseteq Id /\ Remove({i})
        /\ UNCHANGED <<serving, aborted, drawn>> /\ serving' \subseteq Lease
    BY <1>5 DEF SweepNext, RelayInv, RelayTypes
  <2>2. \A j \in Keys(byId) \ {i} : LeaseOf[byId[j].client] \in serving' \cup aborted
    BY <2>1 DEF RelayInv, Paired
  <2>3. QED
    BY <2>1, <2>2, RemoveKeeps
<1>6. CASE Reconnect
  BY <1>6, FreshTables DEF Reconnect
<1>7. ASSUME UNCHANGED relay PROVE RelayInv'
  BY <1>7, RelayStays
<1>8. CASE \E c \in Client : Forward(c) \/ \E i \in Id : OpenFlow(c, i)
  BY <1>1, <1>8, OpenFlowKeeps
<1>9. CASE \E d \in net : Lose(d) \/ Downlink(d) \/ Receive(d) \/ ReceiveDropped(d)
  BY <1>2, <1>7, <1>9 DEF Lose, Receive, ReceiveDropped
<1>10. CASE \E i \in Id : GrowIdle(i) \/ GrowIdleLocal(i)
  BY <1>3, <1>7, <1>10 DEF GrowIdleLocal
<1>11. CASE Sweeping \/ SweepingLocal
  BY <1>4, <1>5, <1>7, <1>11 DEF Sweeping, SweepingLocal, CollectLocal, SweepLocal
<1>12. CASE Insert \/ SendLocal \/ \E s \in Source : Answer(s)
  BY <1>7, <1>12 DEF Insert, SendLocal, Answer
<1>13. CASE EndSession \/ Ending
  <2>1. CASE DropTables
    BY <2>1, FreshTables DEF DropTables, RelayInv, RelayTypes
  <2>2. QED
    BY <1>7, <1>13, <2>1, EndLeaseKeeps, AbortLeaseKeeps
       DEF EndSession, Ending, ClearFlows, Cancel, DropSession
<1>14. QED
  BY <1>6, <1>8, <1>9, <1>10, <1>11, <1>12, <1>13 DEF Next

-------------------------------------------------------------------------------
(* The flows of the connector and the registry *)

FlowSources == {flows[i].source : i \in Keys(flows)}

ConnectorTypes ==
    /\ expired \subseteq Id
    /\ net \subseteq Packet
    /\ session \in {"serving", "closing", "cleared", "none"}
    /\ sessions \in 1 .. MaxSessions
    /\ flows \in [Id -> FlowRec \cup {None}]
    /\ Cardinality(Keys(flows)) <= MaxLocalFlows
    /\ loop \in LoopRec
    /\ pump \in [Source -> PumpRec \cup {None}]
    /\ metadata \in [Source -> MetaRec \cup {None}]
    /\ Cardinality(Registered) <= MaxMetadata
    /\ left \subseteq Source

\* What udp_loop holds between two locks is still true under the second one.
LoopSound ==
    /\ \A d \in net : d.to = "node" => d.client \in Client
    /\ loop.stage \in {"read", "gone"} => loop.source = None
    /\ loop.stage \in {"insert", "send"} =>
          loop.id \in Id /\ loop.client \in Client /\ loop.source \in Source
    /\ loop.stage = "insert" => flows[loop.id] = None /\ Room /\ loop.source \notin FlowSources
    /\ session = "none" => loop.stage = "gone"

\* The registry names the client of a flow for the source of the flow.
FlowsTold ==
    /\ \A i \in Keys(flows) : metadata[flows[i].source] # None =>
          metadata[flows[i].source].client = flows[i].client
    /\ loop.stage \in {"insert", "send"} /\ metadata[loop.source] # None =>
          metadata[loop.source].client = loop.client

\* A registration is that of a flow, of the flow that is being opened, or one that a session
\* left behind.
Owned ==
    \A s \in Registered : s \in FlowSources \cup left \/ (loop.stage = "insert" /\ loop.source = s)

ConnectorInv == ConnectorTypes /\ LoopSound /\ FlowsTold /\ Owned

LEMMA KeysOfFlows ==
    ASSUME ConnectorTypes
    PROVE  \A i \in Keys(flows) : i \in Id /\ flows[i] \in FlowRec /\ flows[i].source \in Source
                                  /\ flows[i].client \in Client
  BY DEF ConnectorTypes, Keys, FlowRec

\* A step that leaves the keys, clients and sources of the flows and the registry alone.
LEMMA QuietConnector ==
    ASSUME ConnectorInv, UNCHANGED metadata,
           flows' \in [Id -> FlowRec \cup {None}],
           \A i \in Id : /\ flows'[i] = None <=> flows[i] = None
                         /\ flows[i] # None => /\ flows'[i].source = flows[i].source
                                               /\ flows'[i].client = flows[i].client,
           net' \subseteq Packet, \A d \in net' : d.to = "node" => d.client \in Client,
           session' \in {"serving", "closing", "cleared", "none"}, sessions' \in 1 .. MaxSessions,
           expired' \subseteq Id, pump' \in [Source -> PumpRec \cup {None}],
           left' \subseteq Source, left \subseteq left',
           loop' = loop \/ loop' = Idle \/ loop' = Gone,
           loop' = loop \/ loop.stage # "insert" \/ loop.source \in left',
           session' = "none" => loop' = Gone \/ (loop' = loop /\ session = "none")
    PROVE  ConnectorInv'
<1>1. ConnectorTypes
  BY DEF ConnectorInv
<1>2. Keys(flows') = Keys(flows)
  BY DEF Keys
<1>3. FlowSources' = FlowSources
  BY <1>1, <1>2, KeysOfFlows DEF FlowSources, Keys
<1>4. Registered' = Registered
  BY DEF Registered
<1>5. /\ Idle \in LoopRec /\ Idle.stage = "read" /\ Idle.source = None
      /\ Gone \in LoopRec /\ Gone.stage = "gone" /\ Gone.source = None
  BY DEF Idle, Gone, LoopRec
<1>6. ConnectorTypes'
  BY <1>1, <1>2, <1>4, <1>5 DEF ConnectorTypes
<1>7. Room' <=> Room
  BY <1>2 DEF Room
<1>8. LoopSound'
  <2>1. CASE loop' = loop
    BY <1>3, <1>5, <1>7, <2>1 DEF ConnectorInv, LoopSound
  <2>2. CASE loop' = Idle \/ loop' = Gone
    BY <1>5, <2>2 DEF ConnectorInv, LoopSound
  <2>3. QED
    BY <2>1, <2>2
<1>9. FlowsTold'
  <2>1. \A i \in Keys(flows') : metadata'[flows'[i].source] # None =>
          metadata'[flows'[i].source].client = flows'[i].client
    BY <1>1, <1>2, KeysOfFlows DEF ConnectorInv, FlowsTold, Keys
  <2>2. loop'.stage \in {"insert", "send"} /\ metadata'[loop'.source] # None =>
          metadata'[loop'.source].client = loop'.client
    BY <1>5 DEF ConnectorInv, FlowsTold
  <2>3. QED
    BY <2>1, <2>2 DEF FlowsTold
<1>10. Owned'
  BY <1>3, <1>4, <1>5 DEF ConnectorInv, Owned
<1>11. QED
  BY <1>6, <1>8, <1>9, <1>10 DEF ConnectorInv

\* The use of a flow, or nothing.
LEMMA UsedLocal ==
    ASSUME ConnectorTypes, NEW j \in Id, NEW yes \in BOOLEAN,
           \/ UNCHANGED flows
           \/ flows[j] # None /\ flows' = [flows EXCEPT ![j] = [flows[j] EXCEPT !.idle = yes]]
    PROVE  /\ flows' \in [Id -> FlowRec \cup {None}]
           /\ \A i \in Id : /\ flows'[i] = None <=> flows[i] = None
                            /\ flows[i] # None => /\ flows'[i].source = flows[i].source
                                                  /\ flows'[i].client = flows[i].client
<1>1. flows \in [Id -> FlowRec \cup {None}]
  BY DEF ConnectorTypes
<1>2. CASE UNCHANGED flows
  BY <1>1, <1>2
<1>3. CASE flows[j] # None /\ flows' = [flows EXCEPT ![j] = [flows[j] EXCEPT !.idle = yes]]
  <2>1. flows[j] \in FlowRec
    BY <1>1, <1>3
  <2> DEFINE r == [flows[j] EXCEPT !.idle = yes]
  <2>2. r \in FlowRec /\ r.client = flows[j].client /\ r.source = flows[j].source
    BY <2>1 DEF FlowRec
  <2>3. flows' = [flows EXCEPT ![j] = r]
    BY <1>3
  <2> HIDE DEF r
  <2>4. QED
    BY <1>1, <1>3, <2>2, <2>3, NoneIsNoEntry
<1>4. QED
  BY <1>2, <1>3

\* Datagrams come and go.
LEMMA NetKeeps ==
    ASSUME ConnectorInv, UNCHANGED connector, net' \subseteq Packet,
           \A d \in net' : d.to = "node" => d.client \in Client
    PROVE  ConnectorInv'
  BY QuietConnector DEF ConnectorInv, ConnectorTypes, connector

LEMMA SentPacket ==
    ASSUME ConnectorInv, NEW d \in Packet, d.to = "node" => d.client \in Client, Send(d)
    PROVE  net' \subseteq Packet /\ \A e \in net' : e.to = "node" => e.client \in Client
  BY DEF Send, ConnectorInv, ConnectorTypes, LoopSound

\* remove_flow and clear_flows
LEMMA CloseKeeps ==
    ASSUME ConnectorInv, NEW is \in SUBSET Id, Close(is), UNCHANGED <<net, sessions, loop, left>>,
           expired' \subseteq Id, session' \in {"serving", "closing", "cleared", "none"},
           session' = "none" => session = "none"
    PROVE  ConnectorInv'
<1> DEFINE ss == {flows[i].source : i \in is \cap Keys(flows)}
<1>1. ConnectorTypes
  BY DEF ConnectorInv
<1>2. /\ flows' = [i \in Id |-> IF i \in is THEN None ELSE flows[i]]
      /\ metadata' = [s \in Source |-> IF s \in ss THEN None ELSE metadata[s]]
      /\ pump' = [s \in Source |-> IF s \in ss THEN None ELSE pump[s]]
  BY DEF Close
<1> HIDE DEF ss
<1>3. Keys(flows') = Keys(flows) \ is
  BY <1>2 DEF Keys
<1>4. Registered' = Registered \ ss
  BY <1>2 DEF Registered
<1>5. Cardinality(Keys(flows')) <= Cardinality(Keys(flows))
  <2>1. Keys(flows') \subseteq Keys(flows)
    BY <1>3
  <2>2. QED
    BY <2>1, KeysFinite, FS_Subset
<1>6. Cardinality(Registered') <= Cardinality(Registered)
  <2>1. Registered' \subseteq Registered /\ Registered \subseteq Source /\ IsFiniteSet(Source)
    BY <1>4, FlowsAssumption DEF Registered
  <2>2. IsFiniteSet(Registered)
    BY <2>1, FS_Subset
  <2>3. QED
    BY <2>1, <2>2, FS_Subset
<1>7. /\ Cardinality(Keys(flows)) \in Nat /\ Cardinality(Keys(flows')) \in Nat
      /\ Cardinality(Registered) \in Nat /\ Cardinality(Registered') \in Nat
      /\ MaxLocalFlows \in Nat /\ MaxMetadata \in Nat
  <2>1. IsFiniteSet(Registered) /\ IsFiniteSet(Registered')
    <3>1. Registered \subseteq Source /\ Registered' \subseteq Source /\ IsFiniteSet(Source)
      BY <1>4, FlowsAssumption DEF Registered
    <3>2. QED
      BY <3>1, FS_Subset
  <2>2. QED
    BY <2>1, KeysFinite, FS_CardinalityType, FlowsAssumption
<1>8. /\ flows' \in [Id -> FlowRec \cup {None}]
      /\ metadata' \in [Source -> MetaRec \cup {None}]
      /\ pump' \in [Source -> PumpRec \cup {None}]
  BY <1>1, <1>2 DEF ConnectorTypes
<1>9. ConnectorTypes'
  BY <1>1, <1>5, <1>6, <1>7, <1>8 DEF ConnectorTypes
<1>10. \A i \in Keys(flows') : i \in Keys(flows) /\ i \in Id /\ flows'[i] = flows[i]
  BY <1>2, <1>3 DEF Keys
<1>11. FlowSources' \subseteq FlowSources
  BY <1>10 DEF FlowSources
<1>12. \A s \in FlowSources : s \in ss \/ s \in FlowSources'
  <2>1. ASSUME NEW s \in FlowSources PROVE s \in ss \/ s \in FlowSources'
    <3>1. PICK i \in Keys(flows) : s = flows[i].source
      BY DEF FlowSources
    <3>2. CASE i \in is
      BY <3>1, <3>2 DEF ss
    <3>3. CASE i \notin is
      <4>1. i \in Keys(flows') /\ flows'[i].source = s
        BY <1>3, <1>10, <3>1, <3>3
      <4>2. QED
        BY <4>1 DEF FlowSources
    <3>4. QED
      BY <3>2, <3>3
  <2>2. QED
    BY <2>1
<1>13. LoopSound'
  <2>1. loop.stage = "insert" => flows'[loop.id] = None /\ Room' /\ loop.source \notin FlowSources'
    BY <1>2, <1>5, <1>7, <1>11 DEF ConnectorInv, LoopSound, Room
  <2>2. QED
    BY <2>1 DEF ConnectorInv, LoopSound
<1>14. FlowsTold'
  BY <1>1, <1>2, <1>10, KeysOfFlows DEF ConnectorInv, FlowsTold, LoopSound
<1>15. Owned'
  BY <1>4, <1>12 DEF ConnectorInv, Owned
<1>16. QED
  BY <1>9, <1>13, <1>14, <1>15 DEF ConnectorInv

\* get_or_open_flow up to the second lock
LEMMA ReceiveKeeps ==
    ASSUME ConnectorInv, NEW d \in net, Receive(d)
    PROVE  ConnectorInv'
<1>1. /\ ConnectorTypes /\ d \in Packet /\ d.id \in Id /\ d.client \in Client
      /\ loop.stage = "read" /\ loop.source = None
      /\ UNCHANGED <<session, sessions, flows, expired>> /\ net' \subseteq net
      /\ session # "none"
  BY DEF ConnectorInv, ConnectorTypes, LoopSound, Receive, Packet
<1>2. net' \subseteq Packet /\ \A e \in net' : e.to = "node" => e.client \in Client
  BY <1>1 DEF ConnectorInv, ConnectorTypes, LoopSound
<1>3. Keys(flows') = Keys(flows) /\ FlowSources' = FlowSources /\ (Room' <=> Room)
  BY <1>1 DEF Keys, FlowSources, Room
<1>4. CASE /\ flows[d.id] # None /\ flows[d.id].client = d.client
           /\ loop' = [stage |-> "send", id |-> d.id, client |-> d.client, source |-> flows[d.id].source]
           /\ UNCHANGED <<pump, metadata, left>>
  <2>1. d.id \in Keys(flows) /\ flows[d.id].source \in Source
    BY <1>1, <1>4, KeysOfFlows DEF Keys
  <2>2. /\ loop' \in LoopRec /\ loop'.stage = "send" /\ loop'.id = d.id /\ loop'.client = d.client
        /\ loop'.source = flows[d.id].source
    BY <1>1, <1>4, <2>1 DEF LoopRec
  <2>3. ConnectorTypes'
    BY <1>1, <1>2, <1>3, <1>4, <2>2 DEF ConnectorTypes, Registered
  <2>4. LoopSound'
    BY <1>1, <1>2, <2>1, <2>2 DEF LoopSound
  <2>5. FlowsTold'
    BY <1>1, <1>3, <1>4, <2>1, <2>2 DEF ConnectorInv, FlowsTold
  <2>6. Owned'
    BY <1>1, <1>3, <1>4 DEF ConnectorInv, Owned, Registered
  <2>7. QED
    BY <2>3, <2>4, <2>5, <2>6 DEF ConnectorInv
<1>5. CASE /\ flows[d.id] = None /\ Room
           /\ \E s \in Source :
                /\ ~ Bound(s)
                /\ Register(s, d) /\ left' = left \ {s}
                /\ pump' = [pump EXCEPT ![s] = [id |-> d.id, session |-> sessions]]
                /\ loop' = [stage |-> "insert", id |-> d.id, client |-> d.client, source |-> s]
  <2>1. PICK s \in Source :
                /\ ~ Bound(s)
                /\ Register(s, d) /\ left' = left \ {s}
                /\ pump' = [pump EXCEPT ![s] = [id |-> d.id, session |-> sessions]]
                /\ loop' = [stage |-> "insert", id |-> d.id, client |-> d.client, source |-> s]
    BY <1>5
  <2>2. /\ loop' \in LoopRec /\ loop'.stage = "insert" /\ loop'.id = d.id /\ loop'.client = d.client
        /\ loop'.source = s
    BY <1>1, <2>1 DEF LoopRec
  <2> DEFINE e == [id |-> d.id, client |-> d.client]
             q == [id |-> d.id, session |-> sessions]
  <2>3. e \in MetaRec /\ e.client = d.client /\ q \in PumpRec
    BY <1>1 DEF MetaRec, PumpRec, ConnectorTypes
  <2>4. metadata' = [metadata EXCEPT ![s] = e] /\ pump' = [pump EXCEPT ![s] = q]
    BY <2>1 DEF Register
  <2> HIDE DEF e, q
  <2>5. metadata' \in [Source -> MetaRec \cup {None}] /\ pump' \in [Source -> PumpRec \cup {None}]
    BY <1>1, <2>3, <2>4 DEF ConnectorTypes
  <2>6. /\ metadata \in [Source -> MetaRec \cup {None}]
        /\ \A r \in Source : metadata'[r] = IF r = s THEN e ELSE metadata[r]
    BY <1>1, <2>4 DEF ConnectorTypes
  <2>7. Registered' = Registered \cup {s}
    BY <2>3, <2>6, NoneIsNoEntry DEF Registered
  <2>8. Cardinality(Registered') <= MaxMetadata
    <3>1. Registered \subseteq Source /\ IsFiniteSet(Source) /\ MaxMetadata \in Nat
      BY FlowsAssumption DEF Registered
    <3>2. IsFiniteSet(Registered)
      BY <3>1, FS_Subset
    <3>3. Cardinality(Registered) \in Nat
      BY <3>2, FS_CardinalityType
    <3>4. CASE s \in Registered
      <4>1. Registered' = Registered
        BY <2>7, <3>4
      <4>2. QED
        BY <1>1, <4>1 DEF ConnectorTypes
    <3>5. CASE s \notin Registered
      <4>1. Cardinality(Registered) < MaxMetadata
        BY <2>1, <3>5 DEF Register
      <4>2. Cardinality(Registered \cup {s}) = Cardinality(Registered) + 1
        BY <3>2, <3>5, FS_AddElement
      <4>3. QED
        BY <2>7, <3>1, <3>3, <4>1, <4>2
    <3>6. QED
      BY <3>4, <3>5
  <2>9. ConnectorTypes'
    BY <1>1, <1>2, <1>3, <2>1, <2>2, <2>5, <2>8 DEF ConnectorTypes
  <2>10. s \notin FlowSources
    BY <2>1 DEF Bound, FlowSources
  <2>11. LoopSound'
    BY <1>1, <1>2, <1>3, <1>5, <2>2, <2>10 DEF LoopSound
  <2>12. FlowsTold'
    <3>1. \A i \in Keys(flows) : flows[i].source \in FlowSources /\ flows[i].source \in Source
      BY <1>1, KeysOfFlows DEF FlowSources
    <3>2. \A i \in Keys(flows) : metadata'[flows[i].source] = metadata[flows[i].source]
      BY <2>6, <2>10, <3>1
    <3>3. metadata'[loop'.source].client = loop'.client
      BY <2>2, <2>3, <2>6
    <3>4. QED
      BY <1>1, <1>3, <3>2, <3>3 DEF ConnectorInv, FlowsTold
  <2>13. Owned'
    BY <1>1, <1>3, <2>1, <2>2, <2>7 DEF ConnectorInv, Owned
  <2>14. QED
    BY <2>9, <2>11, <2>12, <2>13 DEF ConnectorInv
<1>6. QED
  BY <1>4, <1>5 DEF Receive

\* get_or_open_flow under the second lock
LEMMA InsertKeeps ==
    ASSUME ConnectorInv, Insert
    PROVE  ConnectorInv'
<1> DEFINE i == loop.id
           f == [client |-> loop.client, source |-> loop.source, idle |-> FALSE]
<1>1. /\ ConnectorTypes /\ loop.stage = "insert" /\ i \in Id /\ loop.client \in Client
      /\ loop.source \in Source /\ flows[i] = None /\ Room /\ loop.source \notin FlowSources
      /\ UNCHANGED <<net, session, sessions, expired, pump, metadata, left>> /\ session # "none"
  BY DEF ConnectorInv, LoopSound, Insert
<1>2. f \in FlowRec /\ f.client = loop.client /\ f.source = loop.source
  BY <1>1 DEF FlowRec
<1>3. flows' = [flows EXCEPT ![i] = f] /\ loop' = [loop EXCEPT !.stage = "send"]
  BY DEF Insert
<1> HIDE DEF f, i
<1>4. /\ flows' \in [Id -> FlowRec \cup {None}]
      /\ \A j \in Id : flows'[j] = IF j = i THEN f ELSE flows[j]
  BY <1>1, <1>2, <1>3 DEF ConnectorTypes
<1>5. Keys(flows') = Keys(flows) \cup {i} /\ i \notin Keys(flows)
  BY <1>1, <1>2, <1>4, NoneIsNoEntry DEF Keys
<1>6. Cardinality(Keys(flows')) <= MaxLocalFlows
  <2>1. Cardinality(Keys(flows) \cup {i}) = Cardinality(Keys(flows)) + 1
    BY <1>5, KeysFinite, FS_AddElement
  <2>2. QED
    BY <1>1, <1>5, <2>1, KeysFinite, FlowsAssumption DEF Room
<1>7. /\ loop' \in LoopRec /\ loop'.stage = "send" /\ loop'.id = loop.id /\ loop'.client = loop.client
      /\ loop'.source = loop.source
  BY <1>1, <1>3 DEF ConnectorTypes, LoopRec
<1>8. ConnectorTypes'
  BY <1>1, <1>4, <1>6, <1>7 DEF ConnectorTypes, Registered
<1>9. LoopSound'
  BY <1>1, <1>7 DEF ConnectorInv, LoopSound, i
<1>10. \A j \in Keys(flows') : IF j = i THEN flows'[j] = f ELSE j \in Keys(flows) /\ flows'[j] = flows[j]
  BY <1>4, <1>5 DEF Keys
<1>11. FlowsTold'
  <2>1. metadata[loop.source] # None => metadata[loop.source].client = loop.client
    BY <1>1 DEF ConnectorInv, FlowsTold
  <2>2. QED
    BY <1>1, <1>2, <1>7, <1>10, <2>1 DEF ConnectorInv, FlowsTold
<1>12. FlowSources \subseteq FlowSources' /\ loop.source \in FlowSources'
  <2>1. \A j \in Keys(flows) : j \in Keys(flows') /\ flows'[j] = flows[j]
    BY <1>4, <1>5 DEF Keys
  <2>2. i \in Keys(flows') /\ flows'[i].source = loop.source
    BY <1>1, <1>2, <1>4, <1>5
  <2>3. QED
    BY <2>1, <2>2 DEF FlowSources
<1>13. Owned'
  BY <1>1, <1>12 DEF ConnectorInv, Owned, Registered
<1>14. QED
  BY <1>8, <1>9, <1>11, <1>13 DEF ConnectorInv

\* spawn_udp_return
LEMMA AnswerKeeps ==
    ASSUME ConnectorInv, NEW s \in Source, Answer(s)
    PROVE  ConnectorInv'
<1> DEFINE i == pump[s].id
<1>1. ConnectorTypes /\ pump[s] \in PumpRec /\ i \in Id
  BY DEF ConnectorInv, ConnectorTypes, Answer, PumpRec
<1>2. flows \in [Id -> FlowRec \cup {None}]
  BY <1>1 DEF ConnectorTypes
<1>3. \/ UNCHANGED flows
      \/ flows[i] # None /\ flows' = [flows EXCEPT ![i] = [flows[i] EXCEPT !.idle = FALSE]]
  BY <1>1, <1>2 DEF Answer
<1>4. pump' \in [Source -> PumpRec \cup {None}]
  BY <1>1 DEF Answer, ConnectorTypes
<1>5. net' \subseteq Packet /\ \A e \in net' : e.to = "node" => e.client \in Client
  <2>1. CASE UNCHANGED net
    BY <1>1, <2>1 DEF ConnectorInv, ConnectorTypes, LoopSound
  <2>2. CASE Send([to |-> "relay", id |-> i, client |-> None])
    <3>1. /\ [to |-> "relay", id |-> i, client |-> None] \in Packet
          /\ [to |-> "relay", id |-> i, client |-> None].to # "node"
      BY <1>1 DEF Packet
    <3>2. QED
      BY <2>2, <3>1, SentPacket
  <2>3. QED
    BY <2>1, <2>2 DEF Answer
<1>6. UNCHANGED <<session, sessions, expired, loop, metadata, left>>
  BY DEF Answer
<1> HIDE DEF i
<1>7. /\ flows' \in [Id -> FlowRec \cup {None}]
      /\ \A j \in Id : /\ flows'[j] = None <=> flows[j] = None
                       /\ flows[j] # None => /\ flows'[j].source = flows[j].source
                                             /\ flows'[j].client = flows[j].client
  BY <1>1, <1>3, UsedLocal
<1>8. QED
  BY <1>1, <1>4, <1>5, <1>6, <1>7, QuietConnector DEF ConnectorTypes

LEMMA EndSessionKeeps == ASSUME ConnectorInv, EndSession PROVE ConnectorInv'
<1>1. /\ UNCHANGED <<sessions, flows, expired, loop, pump, metadata, left>>
      /\ session' = "closing" /\ net' \subseteq net
  BY DEF EndSession
<1>2. QED
  BY <1>1, QuietConnector DEF ConnectorInv, ConnectorTypes, LoopSound

LEMMA ClearFlowsKeeps == ASSUME ConnectorInv, ClearFlows PROVE ConnectorInv'
<1>1. Id \in SUBSET Id
  OBVIOUS
<1>2. QED
  BY <1>1, CloseKeeps DEF ClearFlows, ConnectorInv, ConnectorTypes

LEMMA CancelKeeps == ASSUME ConnectorInv, Cancel PROVE ConnectorInv'
<1>1. /\ UNCHANGED <<net, session, sessions, flows, pump, metadata>>
      /\ loop' = Gone /\ expired' = {}
      /\ left' = IF loop.stage = "insert" THEN left \cup {loop.source} ELSE left
  BY DEF Cancel
<1>2. left' \subseteq Source /\ left \subseteq left' /\ (loop.stage # "insert" \/ loop.source \in left')
  BY <1>1 DEF ConnectorInv, ConnectorTypes, LoopSound
<1>3. QED
  BY <1>1, <1>2, QuietConnector DEF ConnectorInv, ConnectorTypes, LoopSound

LEMMA DropSessionKeeps == ASSUME ConnectorInv, DropSession PROVE ConnectorInv'
<1>1. /\ UNCHANGED <<net, sessions, expired, loop, pump, metadata>>
      /\ session' = "none" /\ loop.stage = "gone" /\ flows' = [i \in Id |-> None]
      /\ left' = left \cup FlowSources
  BY DEF DropSession, FlowSources
<1>2. Keys(flows') = {} /\ FlowSources \subseteq Source
  BY <1>1, KeysOfFlows DEF Keys, FlowSources, ConnectorInv
<1>3. Cardinality(Keys(flows')) <= MaxLocalFlows
  BY <1>2, FS_EmptySet, FlowsAssumption
<1>4. ConnectorTypes'
  BY <1>1, <1>2, <1>3 DEF ConnectorInv, ConnectorTypes, Registered
<1>5. LoopSound' /\ Owned'
  BY <1>1 DEF ConnectorInv, LoopSound, Owned, Registered
<1>6. FlowsTold'
  BY <1>1, <1>2 DEF FlowsTold
<1>7. QED
  BY <1>4, <1>5, <1>6 DEF ConnectorInv

LEMMA ReconnectKeeps == ASSUME ConnectorInv, Reconnect PROVE ConnectorInv'
<1>1. /\ UNCHANGED <<flows, expired, pump, metadata, left>>
      /\ session' = "serving" /\ loop' = Idle /\ loop.stage = "gone" /\ net' = {}
      /\ sessions < MaxSessions /\ sessions' = sessions + 1
  BY DEF Reconnect, ConnectorInv, LoopSound
<1>2. sessions' \in 1 .. MaxSessions
  BY <1>1, FlowsAssumption DEF ConnectorInv, ConnectorTypes
<1>3. QED
  BY <1>1, <1>2, QuietConnector DEF ConnectorInv, ConnectorTypes

LEMMA ConnectorNext ==
    ASSUME RelayInv, ConnectorInv, Next
    PROVE  ConnectorInv'
<1>1. ConnectorTypes
  BY DEF ConnectorInv
<1>2. ASSUME NEW c \in Client, Forward(c) PROVE ConnectorInv'
  <2>1. byKey[c] \in Id
    BY <1>2 DEF Forward, RelayInv, RelayTypes
  <2>2. Uplink(c, byKey[c]) \in Packet /\ Uplink(c, byKey[c]).client = c
    BY <2>1 DEF Uplink, Packet
  <2>3. QED
    BY <1>2, <2>2, SentPacket, NetKeeps DEF Forward
<1>3. ASSUME NEW c \in Client, NEW i \in Id, OpenFlow(c, i) PROVE ConnectorInv'
  <2>1. Uplink(c, i) \in Packet /\ Uplink(c, i).client = c
    BY DEF Uplink, Packet
  <2>2. QED
    BY <1>3, <2>1, SentPacket, NetKeeps DEF OpenFlow
<1>4. ASSUME net' \subseteq net, UNCHANGED connector PROVE ConnectorInv'
  BY <1>4, NetKeeps DEF ConnectorInv, ConnectorTypes, LoopSound
<1>5. CASE \E d \in net : Lose(d) \/ Downlink(d) \/ Receive(d) \/ ReceiveDropped(d)
  BY <1>4, <1>5, ReceiveKeeps DEF Lose, Downlink, ReceiveDropped
<1>6. ASSUME NEW i \in Id, GrowIdle(i) PROVE ConnectorInv'
  BY <1>4, <1>6 DEF GrowIdle
<1>7. ASSUME NEW i \in Id, GrowIdleLocal(i) PROVE ConnectorInv'
  <2>1. flows[i] # None /\ flows' = [flows EXCEPT ![i] = [flows[i] EXCEPT !.idle = TRUE]]
    BY <1>1, <1>7 DEF GrowIdleLocal, ConnectorTypes
  <2>2. /\ flows' \in [Id -> FlowRec \cup {None}]
        /\ \A j \in Id : /\ flows'[j] = None <=> flows[j] = None
                         /\ flows[j] # None => /\ flows'[j].source = flows[j].source
                                               /\ flows'[j].client = flows[j].client
    BY <1>1, <2>1, UsedLocal
  <2>3. UNCHANGED <<net, session, sessions, expired, loop, pump, metadata, left>>
    BY <1>7 DEF GrowIdleLocal
  <2>4. QED
    BY <2>2, <2>3, QuietConnector DEF ConnectorInv, ConnectorTypes, LoopSound
<1>8. CASE Sweeping
  BY <1>4, <1>8 DEF Sweeping, Collect, SweepNext
<1>9. CASE CollectLocal
  <2>1. expired' \subseteq Id /\ UNCHANGED <<net, session, sessions, flows, loop, pump, metadata, left>>
    BY <1>9 DEF CollectLocal, Keys
  <2>2. QED
    BY <2>1, QuietConnector DEF ConnectorInv, ConnectorTypes, LoopSound
<1>10. ASSUME NEW i \in Id, SweepLocal(i) PROVE ConnectorInv'
  <2>1. {i} \in SUBSET Id
    OBVIOUS
  <2>2. QED
    BY <1>10, <2>1, CloseKeeps DEF SweepLocal, ConnectorInv, ConnectorTypes
<1>11. CASE SendLocal
  <2>1. loop.stage = "send" /\ loop.id \in Id
    BY <1>11 DEF SendLocal, ConnectorInv, LoopSound
  <2>2. \/ UNCHANGED flows
        \/ flows[loop.id] # None /\ flows' = [flows EXCEPT ![loop.id] = [flows[loop.id] EXCEPT !.idle = FALSE]]
    BY <1>1, <1>11, <2>1 DEF SendLocal, ConnectorTypes
  <2>3. /\ flows' \in [Id -> FlowRec \cup {None}]
        /\ \A j \in Id : /\ flows'[j] = None <=> flows[j] = None
                         /\ flows[j] # None => /\ flows'[j].source = flows[j].source
                                               /\ flows'[j].client = flows[j].client
    BY <1>1, <2>1, <2>2, UsedLocal
  <2>4. loop' = Idle /\ UNCHANGED <<net, session, sessions, expired, pump, metadata, left>>
    BY <1>11 DEF SendLocal
  <2>5. QED
    BY <2>1, <2>3, <2>4, QuietConnector DEF ConnectorInv, ConnectorTypes, LoopSound
<1>12. ASSUME NEW l, EndLease(l) \/ AbortLease(l) \/ DropTables PROVE ConnectorInv'
  BY <1>4, <1>12 DEF EndLease, AbortLease, DropTables
<1>13. CASE Ending
  BY <1>12, <1>13, ClearFlowsKeeps, CancelKeeps, DropSessionKeeps DEF Ending
<1>14. QED
  BY <1>2, <1>3, <1>5, <1>6, <1>7, <1>8, <1>9, <1>10, <1>11, <1>13,
     InsertKeeps, AnswerKeeps, EndSessionKeeps, ReconnectKeeps DEF Next, SweepingLocal

\* Both tables at once.
FlowsInv == RelayInv /\ ConnectorInv

LEMMA FlowsTyped == TypeOK <=> RelayTypes /\ ConnectorTypes
  BY DEF TypeOK, RelayTypes, ConnectorTypes, RelayRec, FlowRec, PumpRec, MetaRec, Packet, LoopRec, Registered

LEMMA FlowsInit == Init => FlowsInv
<1> SUFFICES ASSUME Init PROVE FlowsInv
  OBVIOUS
<1>1. Keys(byId) = {} /\ Keys(flows) = {} /\ Registered = {} /\ FlowSources = {}
  BY DEF Init, Keys, Registered, FlowSources
<1>2. Cardinality({}) = 0
  BY FS_EmptySet
<1>3. RelayTypes
  <2>1. /\ serving \subseteq Lease /\ aborted \subseteq Lease /\ sweep \subseteq Id
        /\ byKey \in [Client -> Id \cup {None}] /\ byId \in [Id -> RelayRec \cup {None}]
    BY DEF Init
  <2>2. drawn \in 0 .. MaxFlow /\ Cardinality(Keys(byId)) <= MaxRelayFlows
    BY <1>1, <1>2, FlowsAssumption DEF Init
  <2>3. QED
    BY <2>1, <2>2 DEF RelayTypes
<1>4. Paired /\ FlowDrawn
  BY <1>1 DEF Init, Paired, FlowDrawn
<1>5. Idle \in LoopRec /\ Idle.stage = "read" /\ Idle.source = None
  BY DEF Idle, LoopRec
<1>6. ConnectorTypes
  BY <1>1, <1>2, <1>5, FlowsAssumption DEF Init, ConnectorTypes
<1>7. LoopSound /\ FlowsTold /\ Owned
  BY <1>1, <1>5 DEF Init, LoopSound, FlowsTold, Owned
<1>8. QED
  BY <1>3, <1>4, <1>6, <1>7 DEF FlowsInv, RelayInv, ConnectorInv

LEMMA FlowsNext ==
    ASSUME FlowsInv, Next \/ UNCHANGED vars
    PROVE  FlowsInv'
<1>1. RelayInv /\ ConnectorInv /\ TypeOK
  BY FlowsTyped DEF FlowsInv, RelayInv, ConnectorInv
<1>2. CASE Next
  BY <1>1, <1>2, RelayNext, ConnectorNext DEF FlowsInv
<1>3. CASE UNCHANGED vars
  <2>1. UNCHANGED relay /\ UNCHANGED connector /\ UNCHANGED net
    BY <1>3 DEF vars
  <2>2. QED
    BY <1>1, <2>1, RelayStays, NetKeeps DEF FlowsInv, ConnectorInv, ConnectorTypes, LoopSound
<1>4. QED
  BY <1>2, <1>3

LEMMA FlowsInvUse == FlowsInv => TablesSound /\ Truthful
<1> SUFFICES ASSUME FlowsInv PROVE TablesSound /\ Truthful
  OBVIOUS
<1>1. TablesSound
  BY FlowsTyped DEF FlowsInv, RelayInv, ConnectorInv, TablesSound
<1>2. Truthful
  BY DEF FlowsInv, ConnectorInv, FlowsTold, Owned, FlowSources, Truthful
<1>3. QED
  BY <1>1, <1>2

-------------------------------------------------------------------------------
(* The TCP connections *)

ForwardStage == {"none", "open", "asked", "splice", "orphan", "done"}
HandlerStage == {"none", "queued", "connect", "withdraw", "reply", "splice", "gone"}
HandlerRec == [stage : HandlerStage, source : Source \cup {None}, up : BOOLEAN]
Entry(s, o) == [source |-> s, owner |-> o]

\* A connection is forwarded before it has a handler, and a handler has a socket from its
\* bind to its end, or remembers its address to withdraw it.
HandlerShape ==
    \A p \in Public :
        /\ forward[p] \in {"none", "open"} => handler[p].stage = "none"
        /\ handler[p].stage \in {"none", "queued", "gone"} => handler[p].source = None
        /\ handler[p].stage \in {"connect", "withdraw", "reply", "splice"} => handler[p].source \in Source

\* Has p a socket?  Is the socket closed and the entry still to be withdrawn?
Holds(p) == handler[p].stage \in {"connect", "reply", "splice"}
Withdrawing(p) == handler[p].stage = "withdraw"

\* A loopback address belongs to one connection at a time, also after its socket closed while
\* the listener has not looked it up.  Who has one that somebody else is about to withdraw got
\* it meanwhile.
SourcesOwn ==
    /\ \A p, q \in Public : Holds(p) /\ Holds(q) /\ handler[p].source = handler[q].source => p = q
    /\ \A b, d \in backlog : b.source = d.source => b = d
    /\ \A b \in backlog, p \in Public : Holds(p) /\ handler[p].source = b.source => b.owner = p
    /\ \A p, q \in Public : Holds(p) /\ Withdrawing(q) /\ handler[p].source = handler[q].source => p \in reused
    /\ \A b \in backlog, q \in Public : Withdrawing(q) /\ handler[q].source = b.source =>
          b.owner = q \/ b.owner \in reused

\* The answer a handler gave when it gave up.
GaveUp(p) == handler[p].stage = "gone" /\ reply[p] = "err"

\* A handler that waits for its connection.
Connecting(p) == handler[p].stage = "connect" /\ ~ handler[p].up

\* The entry of a connection that is under way.
ConnectAnnounced ==
    \A p \in Public : Connecting(p) =>
        /\ \A b \in backlog : b.source # handler[p].source
        /\ pending[handler[p].source] # p => pending[handler[p].source] = None /\ p \in reused

\* An entry announces a connection that is under way, waits for the listener or failed.
EntriesOwned ==
    \A s \in Source, p \in Public : pending[s] = p =>
        \/ Entry(s, p) \in backlog
        \/ (Connecting(p) \/ Withdrawing(p)) /\ handler[p].source = s

\* Is somebody who waits at the listener without an entry one that was given up, or one whose
\* entry another's withdrawal hit?
Excused(o) == GaveUp(o) \/ o \in reused

\* A connection that waits for the listener is announced, given up, a stranger's or hit by a
\* withdrawal.
BacklogAnnounced ==
    \A b \in backlog :
        /\ b.owner # Stranger => pending[b.source] = b.owner \/ (pending[b.source] = None /\ Excused(b.owner))
        /\ b.owner = Stranger => pending[b.source] = None \/ Stranger \in reused

Announced == ConnectAnnounced /\ EntriesOwned /\ BacklogAnnounced

ServedTold ==
    \A r \in served :
        /\ r.owner # Stranger => r.as = r.owner \/ (r.as = None /\ Excused(r.owner))
        /\ r.owner = Stranger => r.as = None \/ Stranger \in reused

PermitsKept ==
    /\ permits + Cardinality(Forwarded) = MaxTcp
    /\ \A p \in Forwarded : TcpLeaseOf[p] \in serving \cup aborted /\ transport = "tcp"

RegistryInv == HandlerShape /\ SourcesOwn /\ Announced /\ ServedTold
StreamsInv  == StreamTypeOK /\ RegistryInv /\ PermitsKept

LEMMA StreamFinite ==
    ASSUME NEW S, S \subseteq Public \/ S \subseteq Source
    PROVE  IsFiniteSet(S) /\ Cardinality(S) \in Nat
<1>1. IsFiniteSet(Public) /\ IsFiniteSet(Source)
  BY FlowsAssumption, StreamsAssumption
<1>2. IsFiniteSet(S)
  BY <1>1, FS_Subset
<1>3. QED
  BY <1>2, FS_CardinalityType

\* The permits in steps of a task at the relay.
LEMMA PermitsStep ==
    ASSUME PermitsKept, permits \in 0 .. MaxTcp, UNCHANGED <<serving, aborted, transport>>, NEW p \in Public,
           \/ /\ Forwarded' = Forwarded \cup {p} /\ p \notin Forwarded /\ permits > 0
              /\ permits' = permits - 1 /\ TcpLeaseOf[p] \in serving /\ transport = "tcp"
           \/ /\ Forwarded' = Forwarded \ {p} /\ p \in Forwarded
              /\ permits' = permits + 1
           \/ Forwarded' = Forwarded /\ UNCHANGED permits
    PROVE  PermitsKept' /\ permits' \in 0 .. MaxTcp
<1>1. Forwarded \subseteq Public /\ Forwarded \ {p} \subseteq Public /\ MaxTcp \in Nat
  BY StreamsAssumption DEF Forwarded
<1>2. /\ IsFiniteSet(Forwarded) /\ Cardinality(Forwarded) \in Nat
      /\ IsFiniteSet(Forwarded \ {p}) /\ Cardinality(Forwarded \ {p}) \in Nat
  BY <1>1, StreamFinite
<1>3. CASE /\ Forwarded' = Forwarded \cup {p} /\ p \notin Forwarded /\ permits > 0
           /\ permits' = permits - 1 /\ TcpLeaseOf[p] \in serving /\ transport = "tcp"
  <2>1. Cardinality(Forwarded \cup {p}) = Cardinality(Forwarded) + 1
    BY <1>2, <1>3, FS_AddElement
  <2>2. QED
    BY <1>1, <1>2, <1>3, <2>1 DEF PermitsKept
<1>4. CASE /\ Forwarded' = Forwarded \ {p} /\ p \in Forwarded
           /\ permits' = permits + 1
  <2>1. Cardinality(Forwarded \ {p}) = Cardinality(Forwarded) - 1
    BY <1>2, <1>4, FS_RemoveElement
  <2>2. QED
    BY <1>1, <1>2, <1>4, <2>1 DEF PermitsKept
<1>5. CASE Forwarded' = Forwarded /\ UNCHANGED permits
  BY <1>5 DEF PermitsKept
<1>6. QED
  BY <1>3, <1>4, <1>5

\* A step of the relay that starts no handler.
LEMMA RelayTask ==
    ASSUME StreamTypeOK, RegistryInv, UNCHANGED <<handler, reply, pending, backlog, served, reused>>,
           forward' \in [Public -> ForwardStage],
           permits' \in 0 .. MaxTcp,
           \A p \in Public : forward'[p] \in {"none", "open"} => forward[p] \in {"none", "open"}
    PROVE  StreamTypeOK' /\ RegistryInv'
<1>1. StreamTypeOK'
  BY DEF StreamTypeOK, Pending, ForwardStage
<1>2. HandlerShape'
  BY DEF RegistryInv, HandlerShape
<1>3. SourcesOwn'
  BY DEF RegistryInv, SourcesOwn, Holds, Withdrawing
<1>4. Announced'
  BY DEF RegistryInv, Announced, ConnectAnnounced, EntriesOwned, BacklogAnnounced, Excused, GaveUp,
         Connecting, Withdrawing, Entry
<1>5. ServedTold'
  BY DEF RegistryInv, ServedTold, Excused, GaveUp
<1>6. QED
  BY <1>1, <1>2, <1>3, <1>4, <1>5 DEF RegistryInv

LEMMA AcceptKeeps ==
    ASSUME StreamsInv, NEW p \in Public, Accept(p), UNCHANGED <<serving, aborted, transport>>, transport = "tcp"
    PROVE  StreamsInv'
<1>1. /\ forward \in [Public -> ForwardStage]
      /\ permits \in 0 .. MaxTcp /\ MaxTcp \in Nat
  BY StreamsAssumption DEF StreamsInv, StreamTypeOK, ForwardStage
<1>2. CASE permits > 0 /\ permits' = permits - 1 /\ forward' = [forward EXCEPT ![p] = "open"]
  <2>1. Forwarded' = Forwarded \cup {p} /\ p \notin Forwarded
    BY <1>1, <1>2 DEF Forwarded, Accept
  <2>2. PermitsKept' /\ permits' \in 0 .. MaxTcp
    BY <1>1, <1>2, <2>1, PermitsStep DEF StreamsInv, Accept
  <2>3. StreamTypeOK' /\ RegistryInv'
    BY <1>1, <1>2, <2>2, RelayTask DEF StreamsInv, Accept, ForwardStage
  <2>4. QED
    BY <2>2, <2>3 DEF StreamsInv
<1>3. CASE forward' = [forward EXCEPT ![p] = "done"] /\ UNCHANGED permits
  <2>1. Forwarded' = Forwarded
    BY <1>1, <1>3 DEF Forwarded, Accept
  <2>2. PermitsKept' /\ permits' \in 0 .. MaxTcp
    BY <1>1, <1>3, <2>1, PermitsStep DEF StreamsInv
  <2>3. StreamTypeOK' /\ RegistryInv'
    BY <1>1, <1>3, <2>2, RelayTask DEF StreamsInv, Accept, ForwardStage
  <2>4. QED
    BY <2>2, <2>3 DEF StreamsInv
<1>4. QED
  BY <1>2, <1>3 DEF Accept

LEMMA SpliceKeeps ==
    ASSUME StreamsInv, NEW p \in Public, Splice(p), UNCHANGED <<serving, aborted, transport>>
    PROVE  StreamsInv'
<1>1. /\ forward \in [Public -> ForwardStage]
      /\ permits \in 0 .. MaxTcp
  BY DEF StreamsInv, StreamTypeOK, ForwardStage
<1>2. Forwarded' = Forwarded
  BY <1>1 DEF Forwarded, Splice
<1>3. PermitsKept' /\ permits' \in 0 .. MaxTcp
  BY <1>1, <1>2, PermitsStep DEF StreamsInv, Splice
<1>4. StreamTypeOK' /\ RegistryInv'
  BY <1>1, <1>3, RelayTask DEF StreamsInv, Splice, ForwardStage
<1>5. QED
  BY <1>3, <1>4 DEF StreamsInv

LEMMA ForwardEndsKeeps ==
    ASSUME StreamsInv, NEW p \in Public, ForwardEnds(p), UNCHANGED <<serving, aborted, transport>>
    PROVE  StreamsInv'
<1>1. /\ forward \in [Public -> ForwardStage]
      /\ permits \in 0 .. MaxTcp
  BY DEF StreamsInv, StreamTypeOK, ForwardStage
<1>2. Forwarded' = Forwarded \ {p} /\ p \in Forwarded
  BY <1>1 DEF Forwarded, ForwardEnds
<1>3. PermitsKept' /\ permits' \in 0 .. MaxTcp
  BY <1>1, <1>2, PermitsStep DEF StreamsInv, ForwardEnds
<1>4. StreamTypeOK' /\ RegistryInv'
  BY <1>1, <1>3, RelayTask DEF StreamsInv, ForwardEnds, ForwardStage
<1>5. QED
  BY <1>3, <1>4 DEF StreamsInv

\* A task of an earlier session holds no permit of this one.
LEMMA OrphanEndsKeeps ==
    ASSUME StreamsInv, NEW p \in Public, OrphanEnds(p), UNCHANGED <<serving, aborted, transport>>
    PROVE  StreamsInv'
<1>1. forward \in [Public -> ForwardStage] /\ permits \in 0 .. MaxTcp
  BY DEF StreamsInv, StreamTypeOK, ForwardStage
<1>2. Forwarded' = Forwarded /\ forward' \in [Public -> ForwardStage]
  BY <1>1 DEF Forwarded, OrphanEnds, ForwardStage
<1>3. PermitsKept' /\ permits' \in 0 .. MaxTcp
  BY <1>1, <1>2, PermitsStep DEF StreamsInv, OrphanEnds
<1>4. \A q \in Public : forward'[q] \in {"none", "open"} => forward[q] \in {"none", "open"}
  BY <1>1 DEF OrphanEnds
<1>5. StreamTypeOK' /\ RegistryInv'
  BY <1>2, <1>3, <1>4, RelayTask DEF StreamsInv, OrphanEnds
<1>6. QED
  BY <1>3, <1>5 DEF StreamsInv

\* serve_tcp_lease aborts its tasks and waits for them.
LEMMA EndTcpLeaseKeeps ==
    ASSUME StreamsInv, NEW l, EndTcpLease(l), UNCHANGED transport
    PROVE  StreamsInv'
<1> DEFINE F == ForwardedOf(l)
<1>1. /\ forward \in [Public -> ForwardStage]
      /\ permits \in 0 .. MaxTcp /\ MaxTcp \in Nat
      /\ permits + Cardinality(Forwarded) = MaxTcp
  BY StreamsAssumption DEF StreamsInv, StreamTypeOK, PermitsKept, ForwardStage
<1>2. /\ forward' = [p \in Public |-> IF p \in F THEN "done" ELSE forward[p]]
      /\ permits' = permits + Cardinality(F)
      /\ serving' = serving \ {l} /\ UNCHANGED aborted
  BY DEF EndTcpLease, EndLease
<1>3. /\ F \subseteq Forwarded /\ Forwarded \subseteq Public
      /\ \A p \in Forwarded : p \in F <=> TcpLeaseOf[p] = l
  BY DEF ForwardedOf, Forwarded
<1> HIDE DEF F
<1>4. Forwarded' = Forwarded \ F
  BY <1>1, <1>2 DEF Forwarded
<1>5. Cardinality(Forwarded') = Cardinality(Forwarded) - Cardinality(F) /\ Cardinality(F) \in Nat
  <2>1. F \subseteq Public /\ Forwarded \ F \subseteq Public
    BY <1>3
  <2>2. /\ IsFiniteSet(Forwarded) /\ IsFiniteSet(F) /\ Cardinality(F) \in Nat
    BY <1>3, <2>1, StreamFinite
  <2>3. Forwarded \cap F = F
    BY <1>3
  <2>4. Cardinality(Forwarded \ F) = Cardinality(Forwarded) - Cardinality(Forwarded \cap F)
    BY <2>2, FS_Difference
  <2>5. QED
    BY <1>4, <2>2, <2>3, <2>4
<1>6. Cardinality(Forwarded) \in Nat /\ Cardinality(Forwarded') \in Nat
  BY <1>3, <1>4, StreamFinite
<1>7. permits' + Cardinality(Forwarded') = MaxTcp /\ permits' \in 0 .. MaxTcp
  BY <1>1, <1>2, <1>5, <1>6
<1>8. PermitsKept'
  BY <1>2, <1>3, <1>4, <1>7 DEF StreamsInv, PermitsKept
<1>9. /\ forward' \in [Public -> ForwardStage]
      /\ \A p \in Public : forward'[p] \in {"none", "open"} => forward[p] \in {"none", "open"}
  BY <1>1, <1>2 DEF ForwardStage
<1>10. StreamTypeOK' /\ RegistryInv'
  BY <1>7, <1>9, RelayTask DEF StreamsInv, EndTcpLease
<1>11. QED
  BY <1>8, <1>10 DEF StreamsInv

\* A new session begins with all its permits.
LEMMA ReconnectTcpKeeps ==
    ASSUME StreamsInv, ReconnectTcp, UNCHANGED transport
    PROVE  StreamsInv'
<1>1. forward \in [Public -> ForwardStage] /\ MaxTcp \in Nat
  BY StreamsAssumption DEF StreamsInv, StreamTypeOK, ForwardStage
<1>2. /\ forward' = [p \in Public |-> IF p \in Forwarded THEN "orphan" ELSE forward[p]]
      /\ permits' = MaxTcp
  BY DEF ReconnectTcp
<1>3. Forwarded' = {}
  BY <1>2 DEF Forwarded
<1>4. PermitsKept' /\ permits' \in 0 .. MaxTcp
  BY <1>1, <1>2, <1>3, FS_EmptySet DEF PermitsKept
<1>5. /\ forward' \in [Public -> ForwardStage]
      /\ \A p \in Public : forward'[p] \in {"none", "open"} => forward[p] \in {"none", "open"}
  BY <1>1, <1>2 DEF ForwardStage
<1>6. StreamTypeOK' /\ RegistryInv'
  BY <1>4, <1>5, RelayTask DEF StreamsInv, ReconnectTcp
<1>7. QED
  BY <1>4, <1>6 DEF StreamsInv

\* Steps of the connector and the listener leave the relay's tasks alone.
LEMMA RelayLeftAlone ==
    ASSUME StreamsInv, UNCHANGED <<permits, forward, serving, aborted, transport>>,
           StreamTypeOK', RegistryInv'
    PROVE  StreamsInv'
<1>1. Forwarded' = Forwarded
  BY DEF Forwarded
<1>2. QED
  BY <1>1 DEF StreamsInv, PermitsKept

\* Steps of handlers that neither take an address nor touch the registry.
LEMMA HandlerStep ==
    ASSUME StreamTypeOK, RegistryInv, UNCHANGED <<permits, pending, backlog, served, reused>>,
           forward' \in [Public -> ForwardStage],
           handler' \in [Public -> HandlerRec], reply' \in [Public -> {"none", "ok", "err"}],
           HandlerShape',
           \A p \in Public : handler'[p].source \in {handler[p].source, None},
           \A p \in Public : Connecting(p)' => Connecting(p),
           \A p \in Public : Connecting(p) \/ Withdrawing(p) =>
               (Connecting(p) \/ Withdrawing(p))' /\ handler'[p].source = handler[p].source,
           \A p \in Public : Holds(p)' => Holds(p),
           \A p \in Public : Withdrawing(p)' => Holds(p) \/ Withdrawing(p),
           \A p \in Public : GaveUp(p) => GaveUp(p)'
    PROVE  StreamTypeOK' /\ RegistryInv'
<1>1. StreamTypeOK'
  BY DEF StreamTypeOK, Pending, HandlerRec, HandlerStage, ForwardStage
<1>2. backlog \subseteq [source : Source, owner : Public \cup {Stranger}] /\ None \notin Source
  BY FlowsAssumption DEF StreamTypeOK
<1>3. \A p \in Public : Holds(p)' \/ Withdrawing(p)' =>
         handler'[p].source = handler[p].source /\ handler[p].source \in Source
  BY <1>2 DEF HandlerShape, Holds, Withdrawing
<1>4. SourcesOwn'
  <2>1. \A p, q \in Public : Holds(p)' /\ Holds(q)' /\ handler'[p].source = handler'[q].source => p = q
    BY <1>3 DEF RegistryInv, SourcesOwn
  <2>2. \A b \in backlog, p \in Public : Holds(p)' /\ handler'[p].source = b.source => b.owner = p
    BY <1>3 DEF RegistryInv, SourcesOwn
  <2>3. ASSUME NEW p \in Public, NEW q \in Public, Holds(p)', Withdrawing(q)', handler'[p].source = handler'[q].source
        PROVE  p \in reused
    <3>1. Holds(p) /\ handler[p].source = handler[q].source /\ (Holds(q) \/ Withdrawing(q))
      BY <1>3, <2>3
    <3>2. p # q
      BY <2>3 DEF Holds, Withdrawing
    <3>3. QED
      BY <3>1, <3>2 DEF RegistryInv, SourcesOwn
  <2>4. ASSUME NEW b \in backlog, NEW q \in Public, Withdrawing(q)', handler'[q].source = b.source
        PROVE  b.owner = q \/ b.owner \in reused
    <3>1. handler[q].source = b.source /\ (Holds(q) \/ Withdrawing(q))
      BY <1>3, <2>4
    <3>2. QED
      BY <3>1 DEF RegistryInv, SourcesOwn
  <2>5. QED
    BY <2>1, <2>2, <2>3, <2>4 DEF RegistryInv, SourcesOwn
<1>5. ConnectAnnounced'
  <2>1. ASSUME NEW p \in Public, Connecting(p)'
        PROVE  /\ \A b \in backlog : b.source # handler'[p].source
               /\ pending[handler'[p].source] # p => pending[handler'[p].source] = None /\ p \in reused
    <3>1. Connecting(p) /\ handler'[p].source = handler[p].source
      BY <2>1
    <3>2. QED
      BY <3>1 DEF RegistryInv, Announced, ConnectAnnounced
  <2>2. QED
    BY <2>1 DEF ConnectAnnounced
<1>6. EntriesOwned'
  <2>1. ASSUME NEW s \in Source, NEW p \in Public, pending[s] = p
        PROVE  \/ Entry(s, p) \in backlog
               \/ (Connecting(p) \/ Withdrawing(p))' /\ handler'[p].source = s
    BY <2>1 DEF RegistryInv, Announced, EntriesOwned
  <2>2. QED
    BY <2>1 DEF EntriesOwned, Entry
<1>7. \A o \in Public : Excused(o) => Excused(o)'
  BY DEF Excused
<1>8. BacklogAnnounced'
  BY <1>2, <1>7 DEF RegistryInv, Announced, BacklogAnnounced
<1>9. ServedTold'
  <2>1. \A r \in served : r.owner \in Public \cup {Stranger}
    BY DEF StreamTypeOK
  <2>2. QED
    BY <1>7, <2>1 DEF RegistryInv, ServedTold
<1>10. QED
  BY <1>1, <1>4, <1>5, <1>6, <1>8, <1>9 DEF RegistryInv, Announced

LEMMA UnboundRec ==
    ASSUME NEW st \in HandlerStage
    PROVE  /\ Unbound(st) \in HandlerRec /\ Unbound(st).stage = st
           /\ Unbound(st).source = None /\ Unbound(st).up = FALSE
  BY DEF Unbound, HandlerRec, HandlerStage

LEMMA StreamTypes ==
    ASSUME StreamTypeOK
    PROVE  /\ forward \in [Public -> ForwardStage]
           /\ handler \in [Public -> HandlerRec]
           /\ reply \in [Public -> {"none", "ok", "err"}]
           /\ pending \in [Source -> Public \cup {None}]
           /\ backlog \subseteq [source : Source, owner : Public \cup {Stranger}]
           /\ served \subseteq [owner : Public \cup {Stranger}, as : Public \cup {None}]
           /\ permits \in 0 .. MaxTcp /\ Cardinality(Pending) <= MaxPending
           /\ reused \subseteq Public \cup {Stranger}
  BY DEF StreamTypeOK, HandlerRec, HandlerStage, ForwardStage

\* The stage of a handler moves on, its socket stays.
LEMMA StageMoved ==
    ASSUME StreamTypeOK, NEW p \in Public, NEW st \in HandlerStage,
           handler' = [handler EXCEPT ![p].stage = st]
    PROVE  /\ handler' \in [Public -> HandlerRec] /\ \A q \in Public \ {p} : handler'[q] = handler[q]
           /\ handler'[p].stage = st /\ handler'[p].source = handler[p].source
           /\ handler'[p].up = handler[p].up
  BY StreamTypes DEF HandlerRec

LEMMA HandlerEnds ==
    ASSUME StreamTypeOK, NEW p \in Public, HandlerGone(p)
    PROVE  /\ handler' \in [Public -> HandlerRec] /\ \A q \in Public \ {p} : handler'[q] = handler[q]
           /\ handler'[p].stage = "gone" /\ handler'[p].source = None
<1>1. handler' = [handler EXCEPT ![p] = Unbound("gone")]
  BY DEF HandlerGone
<1>2. QED
  BY <1>1, StreamTypes, UnboundRec DEF HandlerStage

LEMMA OpenStreamKeeps ==
    ASSUME StreamsInv, NEW p \in Public, OpenStream(p), UNCHANGED <<serving, aborted, transport>>
    PROVE  StreamsInv'
<1>1. StreamTypeOK /\ RegistryInv /\ PermitsKept /\ permits \in 0 .. MaxTcp
  BY StreamTypes DEF StreamsInv
<1>2. forward' = [forward EXCEPT ![p] = "asked"] /\ forward[p] = "open"
  BY DEF OpenStream
<1>3. /\ forward' \in [Public -> ForwardStage]
      /\ Forwarded' = Forwarded
  BY <1>1, <1>2, StreamTypes DEF Forwarded, ForwardStage
<1>4. PermitsKept'
  BY <1>1, <1>3, PermitsStep DEF OpenStream
<1>5. handler[p].stage = "none" /\ handler[p].source = None
  BY <1>1, <1>2 DEF RegistryInv, HandlerShape
<1>6. /\ handler' \in [Public -> HandlerRec] /\ \A q \in Public \ {p} : handler'[q] = handler[q]
      /\ handler'[p].stage = "queued" /\ handler'[p].source = handler[p].source
  BY <1>1, StageMoved DEF OpenStream, HandlerStage
<1>7. HandlerShape'
  <2>1. \A q \in Public : forward'[q] = IF q = p THEN "asked" ELSE forward[q]
    BY <1>1, <1>2, StreamTypes
  <2>2. QED
    BY <1>1, <1>5, <1>6, <2>1 DEF RegistryInv, HandlerShape
<1>8. StreamTypeOK' /\ RegistryInv'
  BY <1>1, <1>3, <1>5, <1>6, <1>7, HandlerStep, StreamTypes
     DEF OpenStream, Connecting, Holds, Withdrawing, GaveUp
<1>9. QED
  BY <1>4, <1>8 DEF StreamsInv

\* Handlers that end, and those that move on.
LEMMA HandlerTask ==
    ASSUME StreamsInv, NEW p \in Public,
           UNCHANGED <<serving, aborted, transport, permits, forward, pending, backlog, served, reused>>,
           reply' \in [Public -> {"none", "ok", "err"}], \A q \in Public \ {p} : reply'[q] = reply[q],
           ~Connecting(p), handler[p].stage \in {"queued", "connect", "reply", "splice"},
           \/ HandlerGone(p)
           \/ /\ handler[p].stage \in {"connect", "reply"}
              /\ \E st \in {"reply", "splice"} : handler' = [handler EXCEPT ![p].stage = st]
    PROVE  StreamsInv'
<1>1. StreamTypeOK /\ RegistryInv
  BY DEF StreamsInv
<1>2. handler[p].stage # "none" /\ handler[p].stage # "gone" /\ forward[p] \notin {"none", "open"}
  BY <1>1 DEF RegistryInv, HandlerShape
<1>3. CASE HandlerGone(p)
  <2>1. /\ handler' \in [Public -> HandlerRec] /\ \A q \in Public \ {p} : handler'[q] = handler[q]
        /\ handler'[p].stage = "gone" /\ handler'[p].source = None
    BY <1>1, <1>3, HandlerEnds
  <2>2. HandlerShape'
    BY <1>1, <1>2, <2>1 DEF RegistryInv, HandlerShape
  <2>3. StreamTypeOK' /\ RegistryInv'
    BY <1>1, <1>2, <2>1, <2>2, HandlerStep, StreamTypes DEF Connecting, Holds, Withdrawing, GaveUp
  <2>4. QED
    BY <2>3, RelayLeftAlone
<1>4. CASE /\ handler[p].stage \in {"connect", "reply"}
           /\ \E st \in {"reply", "splice"} : handler' = [handler EXCEPT ![p].stage = st]
  <2>1. PICK st \in {"reply", "splice"} : handler' = [handler EXCEPT ![p].stage = st]
    BY <1>4
  <2>2. /\ handler' \in [Public -> HandlerRec] /\ \A q \in Public \ {p} : handler'[q] = handler[q]
        /\ handler'[p].stage = st /\ handler'[p].source = handler[p].source
    BY <1>1, <2>1, StageMoved DEF HandlerStage
  <2>3. HandlerShape'
    BY <1>1, <1>2, <1>4, <2>2 DEF RegistryInv, HandlerShape
  <2>4. StreamTypeOK' /\ RegistryInv'
    BY <1>1, <1>2, <1>4, <2>2, <2>3, HandlerStep, StreamTypes DEF Connecting, Holds, Withdrawing, GaveUp
  <2>5. QED
    BY <2>4, RelayLeftAlone
<1>5. QED
  BY <1>3, <1>4

LEMMA EndTcpSessionKeeps ==
    ASSUME StreamsInv, EndTcpSession, UNCHANGED transport
    PROVE  StreamsInv'
<1>1. StreamTypeOK /\ RegistryInv
  BY DEF StreamsInv
<1>2. /\ UNCHANGED <<serving, aborted, permits, forward, reply, pending, backlog, served, reused>>
      /\ handler' = [p \in Public |-> IF handler[p].stage = "queued" THEN Unbound("gone") ELSE handler[p]]
  BY DEF EndTcpSession, EndSession, relay
<1>3. /\ Unbound("gone") \in HandlerRec /\ Unbound("gone").stage = "gone" /\ Unbound("gone").source = None
  BY UnboundRec DEF HandlerStage
<1>4. handler' \in [Public -> HandlerRec]
  BY <1>1, <1>2, <1>3, StreamTypes
<1>5. \A p \in Public : handler'[p] = IF handler[p].stage = "queued" THEN Unbound("gone") ELSE handler[p]
  BY <1>2
<1>6. HandlerShape'
  BY <1>1, <1>2, <1>3, <1>5 DEF RegistryInv, HandlerShape
<1>7. StreamTypeOK' /\ RegistryInv'
  BY <1>1, <1>2, <1>3, <1>4, <1>5, <1>6, HandlerStep, StreamTypes DEF Connecting, Holds, Withdrawing, GaveUp
<1>8. QED
  BY <1>2, <1>7, RelayLeftAlone

-------------------------------------------------------------------------------
(* The registry of TCP sources *)

\* What is announced for an address that is free is still to be withdrawn.
LEMMA FreeUnannounced ==
    ASSUME StreamTypeOK, RegistryInv, NEW s \in Source, Free(s)
    PROVE  /\ pending[s] # None => \E q \in Public : Withdrawing(q) /\ handler[q].source = s
           /\ \A q \in Public : handler[q].source = s => Withdrawing(q)
           /\ \A b \in backlog : b.source # s
<1>1. /\ \A q \in Public : handler[q].source = s => Withdrawing(q)
      /\ \A b \in backlog : b.source # s
  BY DEF Free, Withdrawing
<1>2. ASSUME pending[s] # None PROVE \E q \in Public : Withdrawing(q) /\ handler[q].source = s
  <2>1. pending[s] \in Public
    BY <1>2, StreamTypes
  <2>2. Entry(s, pending[s]).source = s
    BY DEF Entry
  <2>3. handler[pending[s]].source = s
    BY <1>1, <2>1, <2>2 DEF RegistryInv, Announced, EntriesOwned
  <2>4. QED
    BY <1>1, <2>1, <2>3
<1>3. QED
  BY <1>1, <1>2

\* The window in which an address is handed out before its last entry is withdrawn.
LEMMA ReusedGrows ==
    ASSUME StreamTypeOK, NEW s \in Source, NEW o \in Public \cup {Stranger}, Reused(s, o)
    PROVE  /\ reused \subseteq reused' /\ reused' \subseteq Public \cup {Stranger}
           /\ (\E q \in Public : Withdrawing(q) /\ handler[q].source = s) => o \in reused'
  BY StreamTypes DEF Reused, Withdrawing

\* bind and register_tcp
LEMMA BeginKeeps ==
    ASSUME StreamsInv, NEW p \in Public, NEW s \in Source, Begin(p, s), UNCHANGED <<serving, aborted, transport>>
    PROVE  StreamsInv'
<1> DEFINE h == [stage |-> "connect", source |-> s, up |-> FALSE]
<1>1. StreamTypeOK /\ RegistryInv /\ None \notin Public /\ None \notin Source /\ Stranger \notin Public
  BY FlowsAssumption, StreamsAssumption DEF StreamsInv
<1>2. /\ UNCHANGED <<permits, forward, reply, backlog, served>> /\ Free(s) /\ handler[p].stage = "queued"
      /\ pending' = [pending EXCEPT ![s] = p] /\ handler' = [handler EXCEPT ![p] = h]
      /\ s \in Pending \/ Cardinality(Pending) < MaxPending
      /\ Reused(s, p)
  BY DEF Begin
<1>3. h \in HandlerRec /\ h.stage = "connect" /\ h.source = s /\ h.up = FALSE
  BY DEF HandlerRec, HandlerStage
<1> HIDE DEF h
<1>4. /\ \A q \in Public : handler[q].source = s => Withdrawing(q)
      /\ \A b \in backlog : b.source # s /\ b.source \in Source
  BY <1>1, <1>2, FreeUnannounced, StreamTypes
<1>5. /\ handler' \in [Public -> HandlerRec]
      /\ \A q \in Public : handler'[q] = IF q = p THEN h ELSE handler[q]
  BY <1>1, <1>2, <1>3, StreamTypes
<1>6. /\ pending' \in [Source -> Public \cup {None}]
      /\ \A r \in Source : pending'[r] = IF r = s THEN p ELSE pending[r]
  BY <1>1, <1>2, StreamTypes
<1>7. /\ reused \subseteq reused' /\ reused' \subseteq Public \cup {Stranger}
      /\ (\E q \in Public : Withdrawing(q) /\ handler[q].source = s) => p \in reused'
  BY <1>1, <1>2, ReusedGrows
<1>8. Cardinality(Pending') <= MaxPending
  <2>1. Pending' = Pending \cup {s} /\ Pending \subseteq Source
    BY <1>1, <1>6 DEF Pending
  <2>2. IsFiniteSet(Pending) /\ Cardinality(Pending) \in Nat
    BY <2>1, StreamFinite
  <2>3. CASE s \in Pending
    <3>1. Pending' = Pending
      BY <2>1, <2>3
    <3>2. QED
      BY <1>1, <3>1, StreamTypes
  <2>4. CASE s \notin Pending
    <3>1. Cardinality(Pending \cup {s}) = Cardinality(Pending) + 1
      BY <2>2, <2>4, FS_AddElement
    <3>2. QED
      BY <1>2, <2>1, <2>2, <2>4, <3>1, StreamsAssumption
  <2>5. QED
    BY <2>3, <2>4
<1>9. StreamTypeOK'
  BY <1>1, <1>2, <1>5, <1>6, <1>7, <1>8 DEF StreamTypeOK, HandlerRec, HandlerStage
<1>10. HandlerShape'
  BY <1>1, <1>2, <1>3, <1>5 DEF RegistryInv, HandlerShape
<1>11. \A q \in Public \ {p} : /\ handler'[q] = handler[q] /\ (Holds(q)' <=> Holds(q))
                               /\ (Withdrawing(q)' <=> Withdrawing(q)) /\ (Connecting(q)' <=> Connecting(q))
                               /\ Holds(q) => handler[q].source # s /\ handler[q].source \in Source
  BY <1>1, <1>4, <1>5 DEF Holds, Withdrawing, Connecting, RegistryInv, HandlerShape
<1>12. handler'[p].source = s /\ Holds(p)' /\ ~ Withdrawing(p)' /\ ~ Withdrawing(p) /\ Connecting(p)'
  BY <1>2, <1>3, <1>5 DEF Holds, Withdrawing, Connecting
<1>13. SourcesOwn'
  <2>1. \A q, r \in Public : Holds(q)' /\ Holds(r)' /\ handler'[q].source = handler'[r].source => q = r
    BY <1>1, <1>11, <1>12 DEF RegistryInv, SourcesOwn, Holds, Withdrawing, Connecting
  <2>2. \A b \in backlog, q \in Public : Holds(q)' /\ handler'[q].source = b.source => b.owner = q
    BY <1>1, <1>4, <1>11, <1>12 DEF RegistryInv, SourcesOwn, Holds, Withdrawing, Connecting
  <2>3. ASSUME NEW q \in Public, NEW r \in Public, Holds(q)', Withdrawing(r)', handler'[q].source = handler'[r].source
        PROVE  q \in reused'
    <3>1. r # p /\ Withdrawing(r) /\ handler'[r] = handler[r]
      BY <1>11, <1>12, <2>3 DEF Holds, Withdrawing, Connecting
    <3>2. CASE q = p
      BY <1>7, <1>12, <2>3, <3>1, <3>2
    <3>3. CASE q # p
      BY <1>1, <1>7, <1>11, <2>3, <3>1, <3>3 DEF RegistryInv, SourcesOwn, Holds, Withdrawing, Connecting
    <3>4. QED
      BY <3>2, <3>3
  <2>4. \A b \in backlog, q \in Public : Withdrawing(q)' /\ handler'[q].source = b.source =>
          b.owner = q \/ b.owner \in reused'
    BY <1>1, <1>7, <1>11, <1>12 DEF RegistryInv, SourcesOwn, Holds, Withdrawing, Connecting
  <2>5. QED
    BY <1>1, <1>2, <2>1, <2>2, <2>3, <2>4 DEF RegistryInv, SourcesOwn
<1>14. ConnectAnnounced'
  <2>1. ASSUME NEW q \in Public, Connecting(q)'
        PROVE  /\ \A b \in backlog : b.source # handler'[q].source
               /\ pending'[handler'[q].source] # q => pending'[handler'[q].source] = None /\ q \in reused'
    <3>1. CASE q = p
      BY <1>4, <1>6, <1>12, <3>1
    <3>2. CASE q # p
      <4>1. handler'[q] = handler[q] /\ Connecting(q) /\ Holds(q)
        BY <1>11, <2>1, <3>2 DEF Connecting, Holds, Withdrawing
      <4>2. pending'[handler[q].source] = pending[handler[q].source]
        BY <1>6, <1>11, <3>2, <4>1 DEF Holds, Withdrawing, Connecting
      <4>3. QED
        BY <1>1, <1>7, <4>1, <4>2 DEF RegistryInv, Announced, ConnectAnnounced
    <3>3. QED
      BY <3>1, <3>2
  <2>2. QED
    BY <1>2, <2>1 DEF ConnectAnnounced
<1>15. EntriesOwned'
  <2>1. ASSUME NEW r \in Source, NEW q \in Public, pending'[r] = q
        PROVE  \/ Entry(r, q) \in backlog
               \/ (Connecting(q) \/ Withdrawing(q))' /\ handler'[q].source = r
    <3>1. CASE r = s
      BY <1>6, <1>12, <2>1, <3>1
    <3>2. CASE r # s
      <4>1. \/ Entry(r, q) \in backlog
            \/ (Connecting(q) \/ Withdrawing(q)) /\ handler[q].source = r
        BY <1>1, <1>6, <2>1, <3>2 DEF RegistryInv, Announced, EntriesOwned
      <4>2. QED
        BY <1>2, <1>11, <4>1 DEF Connecting, Withdrawing
    <3>3. QED
      BY <3>1, <3>2
  <2>2. QED
    BY <1>2, <2>1 DEF EntriesOwned, Entry
<1>16. \A o \in Public : Excused(o) => Excused(o)'
  BY <1>2, <1>5, <1>7 DEF Excused, GaveUp
<1>17. BacklogAnnounced'
  <2>1. \A b \in backlog : pending'[b.source] = pending[b.source] /\ b.owner \in Public \cup {Stranger}
    BY <1>1, <1>4, <1>6, StreamTypes
  <2>2. QED
    BY <1>1, <1>2, <1>7, <1>16, <2>1 DEF RegistryInv, Announced, BacklogAnnounced
<1>18. ServedTold'
  <2>1. \A r \in served : r.owner \in Public \cup {Stranger}
    BY <1>1, StreamTypes
  <2>2. QED
    BY <1>1, <1>2, <1>7, <1>16, <2>1 DEF RegistryInv, ServedTold
<1>19. QED
  BY <1>2, <1>9, <1>10, <1>13, <1>14, <1>15, <1>17, <1>18, RelayLeftAlone DEF RegistryInv, Announced

\* The kernel completes a connection.
LEMMA EstablishedKeeps ==
    ASSUME StreamsInv, NEW p \in Public, Established(p), UNCHANGED <<serving, aborted, transport>>
    PROVE  StreamsInv'
<1> DEFINE s == handler[p].source
           e == Entry(s, p)
<1>1. StreamTypeOK /\ RegistryInv /\ None \notin Public /\ None \notin Source /\ Stranger \notin Public
  BY FlowsAssumption, StreamsAssumption DEF StreamsInv
<1>2. /\ UNCHANGED <<permits, forward, reply, pending, served, reused>> /\ Connecting(p)
      /\ handler' = [handler EXCEPT ![p].up = TRUE] /\ backlog' = backlog \cup {e}
  BY DEF Established, Connecting, Entry
<1>3. /\ s \in Source /\ \A b \in backlog : b.source # s
      /\ pending[s] = p \/ (pending[s] = None /\ p \in reused)
  BY <1>1, <1>2 DEF RegistryInv, HandlerShape, Announced, ConnectAnnounced, Connecting
<1>4. /\ handler' \in [Public -> HandlerRec] /\ \A q \in Public \ {p} : handler'[q] = handler[q]
      /\ handler'[p].stage = "connect" /\ handler'[p].source = s /\ handler'[p].up
  BY <1>1, <1>2, StreamTypes DEF HandlerRec, Connecting
<1>5. /\ e \in [source : Source, owner : Public \cup {Stranger}] /\ e.source = s /\ e.owner = p
  BY <1>3 DEF Entry
<1> HIDE DEF s
<1>6. StreamTypeOK'
  BY <1>1, <1>2, <1>4, <1>5 DEF StreamTypeOK, HandlerRec, HandlerStage, Pending
<1>7. HandlerShape'
  BY <1>1, <1>2, <1>3, <1>4 DEF RegistryInv, HandlerShape, Connecting
<1>8. \A q \in Public : /\ handler'[q].source = handler[q].source /\ (Holds(q)' <=> Holds(q))
                        /\ Withdrawing(q)' <=> Withdrawing(q)
                        /\ Connecting(q)' => Connecting(q) /\ q # p
                        /\ Connecting(q) /\ q # p => Connecting(q)'
  BY <1>2, <1>4 DEF s, Holds, Withdrawing, Connecting
<1>9. /\ Holds(p) /\ handler[p].source = s /\ handler[p].stage = "connect"
      /\ \A q \in Public : Holds(q) /\ handler[q].source = s => q = p
      /\ \A q \in Public : Withdrawing(q) /\ handler[q].source = s => p \in reused
  BY <1>1, <1>2 DEF RegistryInv, SourcesOwn, s, Holds, Connecting
<1> HIDE DEF e
<1>10. SourcesOwn'
  <2>1. \A q, r \in Public : Holds(q)' /\ Holds(r)' /\ handler'[q].source = handler'[r].source => q = r
    BY <1>1, <1>8 DEF RegistryInv, SourcesOwn, Holds, Withdrawing, Connecting
  <2>2. \A b, d \in backlog' : b.source = d.source => b = d
    BY <1>1, <1>2, <1>3, <1>5 DEF RegistryInv, SourcesOwn
  <2>3. \A b \in backlog', q \in Public : Holds(q)' /\ handler'[q].source = b.source => b.owner = q
    BY <1>1, <1>2, <1>5, <1>8, <1>9 DEF RegistryInv, SourcesOwn, Holds, Withdrawing, Connecting
  <2>4. \A q, r \in Public : Holds(q)' /\ Withdrawing(r)' /\ handler'[q].source = handler'[r].source => q \in reused
    BY <1>1, <1>8 DEF RegistryInv, SourcesOwn, Holds, Withdrawing, Connecting
  <2>5. \A b \in backlog', q \in Public : Withdrawing(q)' /\ handler'[q].source = b.source =>
          b.owner = q \/ b.owner \in reused
    BY <1>1, <1>2, <1>5, <1>8, <1>9 DEF RegistryInv, SourcesOwn, Holds, Withdrawing, Connecting
  <2>6. QED
    BY <1>2, <2>1, <2>2, <2>3, <2>4, <2>5 DEF SourcesOwn
<1>11. ConnectAnnounced'
  <2>1. ASSUME NEW q \in Public, Connecting(q)'
        PROVE  /\ \A b \in backlog' : b.source # handler'[q].source
               /\ pending[handler'[q].source] # q => pending[handler'[q].source] = None /\ q \in reused
    <3>1. Connecting(q) /\ q # p /\ handler'[q].source = handler[q].source /\ Holds(q)
      BY <1>8, <2>1 DEF Connecting, Holds, Withdrawing
    <3>2. handler[q].source # s
      BY <1>9, <3>1
    <3>3. QED
      BY <1>1, <1>2, <1>5, <3>1, <3>2 DEF RegistryInv, Announced, ConnectAnnounced
  <2>2. QED
    BY <1>2, <2>1 DEF ConnectAnnounced
<1>12. EntriesOwned'
  <2>1. ASSUME NEW r \in Source, NEW q \in Public, pending[r] = q
        PROVE  \/ Entry(r, q) \in backlog'
               \/ (Connecting(q) \/ Withdrawing(q))' /\ handler'[q].source = r
    <3>1. \/ Entry(r, q) \in backlog
          \/ (Connecting(q) \/ Withdrawing(q)) /\ handler[q].source = r
      BY <1>1, <2>1 DEF RegistryInv, Announced, EntriesOwned
    <3>2. CASE q = p
      BY <1>2, <1>9, <3>1, <3>2 DEF e, Withdrawing
    <3>3. CASE q # p
      BY <1>2, <1>8, <3>1, <3>3 DEF Holds, Withdrawing, Connecting
    <3>4. QED
      BY <3>2, <3>3
  <2>2. QED
    BY <1>2, <2>1 DEF EntriesOwned, Entry
<1>13. \A o \in Public : Excused(o) => Excused(o)'
  BY <1>2, <1>4, <1>9 DEF Excused, GaveUp
<1>14. BacklogAnnounced'
  <2>1. ASSUME NEW b \in backlog'
        PROVE  /\ b.owner # Stranger => pending[b.source] = b.owner \/ (pending[b.source] = None /\ Excused(b.owner)')
               /\ b.owner = Stranger => pending[b.source] = None \/ Stranger \in reused
    <3>1. CASE b = e
      <4>1. p \in reused => Excused(p)'
        BY <1>2 DEF Excused
      <4>2. QED
        BY <1>1, <1>3, <1>5, <3>1, <4>1
    <3>2. CASE b # e
      <4>1. b \in backlog /\ b.owner \in Public \cup {Stranger}
        BY <1>1, <1>2, <3>2, StreamTypes
      <4>2. QED
        BY <1>1, <1>13, <4>1 DEF RegistryInv, Announced, BacklogAnnounced
    <3>3. QED
      BY <3>1, <3>2
  <2>2. QED
    BY <1>2, <2>1 DEF BacklogAnnounced
<1>15. ServedTold'
  <2>1. \A r \in served : r.owner \in Public \cup {Stranger}
    BY <1>1, StreamTypes
  <2>2. QED
    BY <1>1, <1>2, <1>13, <2>1 DEF RegistryInv, ServedTold
<1>16. QED
  BY <1>2, <1>6, <1>7, <1>10, <1>11, <1>12, <1>14, <1>15, RelayLeftAlone DEF RegistryInv, Announced

\* Fewer entries of the registry.
LEMMA PendingShrinks ==
    ASSUME StreamTypeOK, NEW s \in Source, pending' = [pending EXCEPT ![s] = None]
    PROVE  /\ pending' \in [Source -> Public \cup {None}] /\ Cardinality(Pending') <= MaxPending
           /\ \A r \in Source : pending'[r] = IF r = s THEN None ELSE pending[r]
<1>1. /\ pending' \in [Source -> Public \cup {None}]
      /\ \A r \in Source : pending'[r] = IF r = s THEN None ELSE pending[r]
  BY StreamTypes
<1>2. Pending' \subseteq Pending /\ Pending \subseteq Source /\ Pending' \subseteq Source
  BY <1>1 DEF Pending
<1>3. IsFiniteSet(Pending) /\ Cardinality(Pending) \in Nat /\ Cardinality(Pending') \in Nat
  BY <1>2, StreamFinite
<1>4. Cardinality(Pending') <= Cardinality(Pending)
  BY <1>2, <1>3, FS_Subset
<1>5. Cardinality(Pending) <= MaxPending /\ MaxPending \in Nat
  BY StreamTypes, StreamsAssumption
<1>6. QED
  BY <1>1, <1>3, <1>4, <1>5

\* The connector gives up: the socket goes and the entry stays for now.
LEMMA ConnectFailsKeeps ==
    ASSUME StreamsInv, NEW p \in Public, ConnectFails(p), UNCHANGED <<serving, aborted, transport>>
    PROVE  StreamsInv'
<1>1. StreamTypeOK /\ RegistryInv
  BY DEF StreamsInv
<1>2. handler[p].stage = "connect" /\ forward[p] \notin {"none", "open"}
  BY <1>1 DEF RegistryInv, HandlerShape, ConnectFails
<1>3. /\ handler' \in [Public -> HandlerRec] /\ \A q \in Public \ {p} : handler'[q] = handler[q]
      /\ handler'[p].stage = "withdraw" /\ handler'[p].source = handler[p].source
  BY <1>1, StageMoved DEF ConnectFails, HandlerStage
<1>4. HandlerShape'
  BY <1>1, <1>2, <1>3 DEF RegistryInv, HandlerShape, ConnectFails
<1>5. StreamTypeOK' /\ RegistryInv'
  BY <1>1, <1>2, <1>3, <1>4, HandlerStep, StreamTypes DEF ConnectFails, Connecting, Holds, Withdrawing, GaveUp
<1>6. QED
  BY <1>5, RelayLeftAlone DEF ConnectFails

\* remove_tcp, whoever the entry stands for.
LEMMA WithdrawKeeps ==
    ASSUME StreamsInv, NEW p \in Public, Withdraw(p), UNCHANGED <<serving, aborted, transport>>
    PROVE  StreamsInv'
<1> DEFINE s == handler[p].source
<1>1. StreamTypeOK /\ RegistryInv /\ None \notin Public /\ None \notin Source
  BY FlowsAssumption, StreamsAssumption DEF StreamsInv
<1>2. /\ UNCHANGED <<permits, forward, backlog, served, reused>> /\ handler[p].stage = "withdraw"
      /\ pending' = [pending EXCEPT ![s] = None] /\ HandlerGone(p)
      /\ reply' = [reply EXCEPT ![p] = "err"]
  BY DEF Withdraw
<1>3. s \in Source
  BY <1>1, <1>2 DEF RegistryInv, HandlerShape
<1>4. /\ handler' \in [Public -> HandlerRec] /\ \A q \in Public \ {p} : handler'[q] = handler[q]
      /\ handler'[p].stage = "gone" /\ handler'[p].source = None
  BY <1>1, <1>2, HandlerEnds
<1>5. /\ reply' \in [Public -> {"none", "ok", "err"}] /\ reply'[p] = "err"
      /\ \A q \in Public \ {p} : reply'[q] = reply[q]
  BY <1>1, <1>2, StreamTypes
<1>6. /\ \A q \in Public : Holds(q) /\ handler[q].source = s => q \in reused
      /\ \A b \in backlog : b.source = s => b.owner = p \/ b.owner \in reused
  BY <1>1, <1>2 DEF RegistryInv, SourcesOwn, Withdrawing
<1> HIDE DEF s
<1>7. /\ pending' \in [Source -> Public \cup {None}] /\ Cardinality(Pending') <= MaxPending
      /\ \A r \in Source : pending'[r] = IF r = s THEN None ELSE pending[r]
  BY <1>1, <1>2, <1>3, PendingShrinks
<1>8. StreamTypeOK'
  BY <1>1, <1>2, <1>4, <1>5, <1>7 DEF StreamTypeOK, HandlerRec, HandlerStage
<1>9. HandlerShape'
  BY <1>1, <1>2, <1>4 DEF RegistryInv, HandlerShape
<1>10. \A q \in Public : /\ Holds(q)' \/ Withdrawing(q)' \/ Connecting(q)' => q # p
                         /\ q # p => /\ handler'[q] = handler[q] /\ (Holds(q)' <=> Holds(q))
                                     /\ (Withdrawing(q)' <=> Withdrawing(q)) /\ (Connecting(q)' <=> Connecting(q))
  BY <1>4 DEF Holds, Withdrawing, Connecting
<1>11. SourcesOwn'
  <2>1. \A q, r \in Public : Holds(q)' /\ Holds(r)' /\ handler'[q].source = handler'[r].source => q = r
    BY <1>1, <1>10 DEF RegistryInv, SourcesOwn, Holds, Withdrawing, Connecting
  <2>2. \A b \in backlog, q \in Public : Holds(q)' /\ handler'[q].source = b.source => b.owner = q
    BY <1>1, <1>10 DEF RegistryInv, SourcesOwn, Holds, Withdrawing, Connecting
  <2>3. \A q, r \in Public : Holds(q)' /\ Withdrawing(r)' /\ handler'[q].source = handler'[r].source => q \in reused
    BY <1>1, <1>10 DEF RegistryInv, SourcesOwn, Holds, Withdrawing, Connecting
  <2>4. \A b \in backlog, q \in Public : Withdrawing(q)' /\ handler'[q].source = b.source =>
          b.owner = q \/ b.owner \in reused
    BY <1>1, <1>10 DEF RegistryInv, SourcesOwn, Holds, Withdrawing, Connecting
  <2>5. QED
    BY <1>1, <1>2, <2>1, <2>2, <2>3, <2>4 DEF RegistryInv, SourcesOwn
<1>12. ConnectAnnounced'
  <2>1. ASSUME NEW q \in Public, Connecting(q)'
        PROVE  /\ \A b \in backlog : b.source # handler'[q].source
               /\ pending'[handler'[q].source] # q => pending'[handler'[q].source] = None /\ q \in reused
    <3>1. Connecting(q) /\ handler'[q] = handler[q] /\ Holds(q) /\ handler[q].source \in Source
      BY <1>1, <1>10, <2>1 DEF Connecting, Holds, RegistryInv, HandlerShape, Withdrawing
    <3>2. \/ pending'[handler[q].source] = pending[handler[q].source]
          \/ pending'[handler[q].source] = None /\ handler[q].source = s
      BY <1>7, <3>1
    <3>3. QED
      BY <1>1, <1>6, <3>1, <3>2 DEF RegistryInv, Announced, ConnectAnnounced
  <2>2. QED
    BY <1>2, <2>1 DEF ConnectAnnounced
<1>13. EntriesOwned'
  <2>1. ASSUME NEW r \in Source, NEW q \in Public, pending'[r] = q
        PROVE  \/ Entry(r, q) \in backlog
               \/ (Connecting(q) \/ Withdrawing(q))' /\ handler'[q].source = r
    <3>1. r # s /\ pending[r] = q
      BY <1>1, <1>7, <2>1
    <3>2. \/ Entry(r, q) \in backlog
          \/ (Connecting(q) \/ Withdrawing(q)) /\ handler[q].source = r
      BY <1>1, <3>1 DEF RegistryInv, Announced, EntriesOwned
    <3>3. QED
      BY <1>10, <3>1, <3>2 DEF s
  <2>2. QED
    BY <1>2, <2>1 DEF EntriesOwned, Entry
<1>14. \A o \in Public : Excused(o) => Excused(o)'
  BY <1>2, <1>4, <1>5 DEF Excused, GaveUp
<1>15. Excused(p)' /\ \A o \in reused : Excused(o)'
  BY <1>2, <1>4, <1>5 DEF Excused, GaveUp
<1>16. BacklogAnnounced'
  <2>1. ASSUME NEW b \in backlog
        PROVE  /\ b.owner # Stranger => pending'[b.source] = b.owner \/ (pending'[b.source] = None /\ Excused(b.owner)')
               /\ b.owner = Stranger => pending'[b.source] = None \/ Stranger \in reused
    <3>1. b.source \in Source /\ b.owner \in Public \cup {Stranger}
      BY <1>1, StreamTypes
    <3>2. CASE b.source = s
      BY <1>3, <1>6, <1>7, <1>15, <3>2
    <3>3. CASE b.source # s
      BY <1>1, <1>7, <1>14, <3>1, <3>3 DEF RegistryInv, Announced, BacklogAnnounced
    <3>4. QED
      BY <3>2, <3>3
  <2>2. QED
    BY <1>2, <2>1 DEF BacklogAnnounced
<1>17. ServedTold'
  <2>1. \A r \in served : r.owner \in Public \cup {Stranger}
    BY <1>1, StreamTypes
  <2>2. QED
    BY <1>1, <1>2, <1>14, <2>1 DEF RegistryInv, ServedTold
<1>18. QED
  BY <1>2, <1>8, <1>9, <1>11, <1>12, <1>13, <1>16, <1>17, RelayLeftAlone DEF RegistryInv, Announced

\* A local program connects.
LEMMA IntrudeKeeps ==
    ASSUME StreamsInv, NEW s \in Source, Intrude(s), UNCHANGED <<serving, aborted, transport>>
    PROVE  StreamsInv'
<1> DEFINE e == Entry(s, Stranger)
<1>1. StreamTypeOK /\ RegistryInv /\ None \notin Source /\ Stranger \notin Public
  BY FlowsAssumption, StreamsAssumption DEF StreamsInv
<1>2. /\ UNCHANGED <<permits, forward, handler, reply, pending, served>> /\ Free(s)
      /\ backlog' = backlog \cup {e} /\ Reused(s, Stranger)
  BY DEF Intrude, Entry
<1>3. /\ pending[s] # None => \E q \in Public : Withdrawing(q) /\ handler[q].source = s
      /\ \A q \in Public : handler[q].source = s => Withdrawing(q)
      /\ \A b \in backlog : b.source # s
  BY <1>1, <1>2, FreeUnannounced
<1>4. e \in [source : Source, owner : Public \cup {Stranger}] /\ e.source = s /\ e.owner = Stranger
  BY DEF Entry
<1>5. /\ reused \subseteq reused' /\ reused' \subseteq Public \cup {Stranger}
      /\ (\E q \in Public : Withdrawing(q) /\ handler[q].source = s) => Stranger \in reused'
  BY <1>1, <1>2, ReusedGrows
<1> HIDE DEF e
<1>6. StreamTypeOK'
  BY <1>1, <1>2, <1>4, <1>5 DEF StreamTypeOK, Pending
<1>7. HandlerShape'
  BY <1>1, <1>2 DEF RegistryInv, HandlerShape
<1>8. \A q \in Public : /\ Holds(q)' <=> Holds(q)
                        /\ Withdrawing(q)' <=> Withdrawing(q)
                        /\ Connecting(q)' <=> Connecting(q)
                        /\ Holds(q) => ~ Withdrawing(q)
  BY <1>2 DEF Holds, Withdrawing, Connecting
<1>9. SourcesOwn'
  <2>1. \A q, r \in Public : Holds(q)' /\ Holds(r)' /\ handler'[q].source = handler'[r].source => q = r
    BY <1>1, <1>2, <1>8 DEF RegistryInv, SourcesOwn, Holds, Withdrawing, Connecting
  <2>2. \A b, d \in backlog' : b.source = d.source => b = d
    BY <1>1, <1>2, <1>3, <1>4 DEF RegistryInv, SourcesOwn
  <2>3. \A b \in backlog', q \in Public : Holds(q)' /\ handler'[q].source = b.source => b.owner = q
    BY <1>1, <1>2, <1>3, <1>4, <1>8 DEF RegistryInv, SourcesOwn, Holds, Withdrawing, Connecting
  <2>4. \A q, r \in Public : Holds(q)' /\ Withdrawing(r)' /\ handler'[q].source = handler'[r].source => q \in reused'
    BY <1>1, <1>2, <1>5, <1>8 DEF RegistryInv, SourcesOwn, Holds, Withdrawing, Connecting
  <2>5. \A b \in backlog', q \in Public : Withdrawing(q)' /\ handler'[q].source = b.source =>
          b.owner = q \/ b.owner \in reused'
    BY <1>1, <1>2, <1>4, <1>5, <1>8 DEF RegistryInv, SourcesOwn, Holds, Withdrawing, Connecting
  <2>6. QED
    BY <2>1, <2>2, <2>3, <2>4, <2>5 DEF SourcesOwn
<1>10. ConnectAnnounced'
  <2>1. ASSUME NEW q \in Public, Connecting(q)'
        PROVE  /\ \A b \in backlog' : b.source # handler[q].source
               /\ pending[handler[q].source] # q => pending[handler[q].source] = None /\ q \in reused'
    <3>1. Connecting(q) /\ handler[q].source # s
      BY <1>3, <1>8, <2>1 DEF Connecting, Withdrawing, Holds
    <3>2. QED
      BY <1>1, <1>2, <1>4, <1>5, <3>1 DEF RegistryInv, Announced, ConnectAnnounced
  <2>2. QED
    BY <1>2, <2>1 DEF ConnectAnnounced
<1>11. EntriesOwned'
  BY <1>1, <1>2, <1>8 DEF RegistryInv, Announced, EntriesOwned, Entry, Holds, Withdrawing, Connecting
<1>12. \A o \in Public : Excused(o) => Excused(o)'
  BY <1>2, <1>5 DEF Excused, GaveUp
<1>13. BacklogAnnounced'
  <2>1. \A b \in backlog : b.owner \in Public \cup {Stranger}
    BY <1>1, StreamTypes
  <2>2. QED
    BY <1>1, <1>2, <1>3, <1>4, <1>5, <1>12, <2>1 DEF RegistryInv, Announced, BacklogAnnounced
<1>14. ServedTold'
  <2>1. \A r \in served : r.owner \in Public \cup {Stranger}
    BY <1>1, StreamTypes
  <2>2. QED
    BY <1>1, <1>2, <1>5, <1>12, <2>1 DEF RegistryInv, ServedTold
<1>15. QED
  BY <1>2, <1>6, <1>7, <1>9, <1>10, <1>11, <1>13, <1>14, RelayLeftAlone DEF RegistryInv, Announced

\* take_tcp
LEMMA ServeKeeps ==
    ASSUME StreamsInv, NEW b \in backlog, Serve(b), UNCHANGED <<serving, aborted, transport>>
    PROVE  StreamsInv'
<1> DEFINE s == b.source
           new == [owner |-> b.owner, as |-> pending[s]]
<1>1. StreamTypeOK /\ RegistryInv /\ None \notin Source /\ None \notin Public /\ Stranger \notin Public
  BY FlowsAssumption, StreamsAssumption DEF StreamsInv
<1>2. /\ UNCHANGED <<permits, forward, handler, reply, reused>> /\ backlog' = backlog \ {b}
      /\ served' = served \cup {new} /\ pending' = [pending EXCEPT ![s] = None]
  BY DEF Serve
<1>3. s \in Source /\ b.owner \in Public \cup {Stranger} /\ pending[s] \in Public \cup {None}
  BY <1>1, StreamTypes
<1>4. /\ new \in [owner : Public \cup {Stranger}, as : Public \cup {None}]
      /\ new.owner = b.owner /\ new.as = pending[s]
  BY <1>3
<1> HIDE DEF s, new
<1>5. /\ pending' \in [Source -> Public \cup {None}] /\ Cardinality(Pending') <= MaxPending
      /\ \A r \in Source : pending'[r] = IF r = s THEN None ELSE pending[r]
  BY <1>1, <1>2, <1>3, PendingShrinks
<1>6. StreamTypeOK'
  BY <1>1, <1>2, <1>4, <1>5 DEF StreamTypeOK
<1>7. HandlerShape' /\ SourcesOwn'
  BY <1>1, <1>2 DEF RegistryInv, HandlerShape, SourcesOwn, Holds, Withdrawing
<1>8. \A q \in Public : /\ Withdrawing(q)' <=> Withdrawing(q)
                        /\ Connecting(q)' <=> Connecting(q)
  BY <1>2 DEF Withdrawing, Connecting
<1>9. \A o : Excused(o)' <=> Excused(o)
  BY <1>2 DEF Excused, GaveUp
<1>10. /\ new.owner # Stranger => new.as = new.owner \/ (new.as = None /\ Excused(new.owner))
       /\ new.owner = Stranger => new.as = None \/ Stranger \in reused
  BY <1>1, <1>4 DEF RegistryInv, Announced, BacklogAnnounced, s
<1>11. ServedTold'
  BY <1>1, <1>2, <1>9, <1>10 DEF RegistryInv, ServedTold
<1>12. ConnectAnnounced'
  <2>1. ASSUME NEW q \in Public, Connecting(q)
        PROVE  /\ \A d \in backlog' : d.source # handler[q].source
               /\ pending'[handler[q].source] # q => pending'[handler[q].source] = None /\ q \in reused
    <3>1. handler[q].source \in Source /\ handler[q].source # s
      BY <1>1, <2>1 DEF RegistryInv, HandlerShape, Announced, ConnectAnnounced, Connecting, s
    <3>2. QED
      BY <1>1, <1>2, <1>5, <2>1, <3>1 DEF RegistryInv, Announced, ConnectAnnounced
  <2>2. QED
    BY <1>2, <1>8, <2>1 DEF ConnectAnnounced, Holds, Withdrawing, Connecting
<1>13. EntriesOwned'
  <2>1. ASSUME NEW r \in Source, NEW q \in Public, pending'[r] = q
        PROVE  \/ Entry(r, q) \in backlog'
               \/ (Connecting(q) \/ Withdrawing(q)) /\ handler[q].source = r
    <3>1. r # s /\ pending[r] = q
      BY <1>1, <1>5, <2>1
    <3>2. Entry(r, q) # b
      BY <3>1 DEF Entry, s
    <3>3. QED
      BY <1>1, <1>2, <3>1, <3>2 DEF RegistryInv, Announced, EntriesOwned
  <2>2. QED
    BY <1>2, <1>8, <2>1 DEF EntriesOwned, Entry, Holds, Withdrawing, Connecting
<1>14. BacklogAnnounced'
  <2>1. ASSUME NEW d \in backlog'
        PROVE  d \in backlog /\ pending'[d.source] = pending[d.source]
    <3>1. d \in backlog /\ d.source \in Source /\ d.source # s
      BY <1>1, <1>2, StreamTypes DEF RegistryInv, SourcesOwn, s
    <3>2. QED
      BY <1>5, <3>1
  <2>2. QED
    BY <1>1, <1>2, <1>9, <2>1 DEF RegistryInv, Announced, BacklogAnnounced
<1>15. QED
  BY <1>2, <1>6, <1>7, <1>11, <1>12, <1>13, <1>14, RelayLeftAlone DEF RegistryInv, Announced

-------------------------------------------------------------------------------

\* With TCP leases there are no datagrams, and udp_loop waits for them.
LoopWaits == transport = "tcp" => loop.stage \in {"read", "gone"}

DataInv == FlowsInv /\ StreamsInv /\ LoopWaits

LEMMA OfStreamsKeeps ==
    ASSUME StreamsInv, OfStreams, UNCHANGED <<serving, aborted, transport>>, transport = "tcp"
    PROVE  StreamsInv'
<1>1. StreamTypeOK
  BY DEF StreamsInv
<1>2. ASSUME NEW p \in Public, Refuse(p) PROVE StreamsInv'
  <2>1. reply' \in [Public -> {"none", "ok", "err"}] /\ \A q \in Public \ {p} : reply'[q] = reply[q]
    BY <1>1, <1>2, StreamTypes DEF Refuse
  <2>2. QED
    BY <1>2, <2>1, HandlerTask DEF Refuse, Connecting
<1>3. ASSUME NEW p \in Public, Connected(p) PROVE StreamsInv'
  BY <1>1, <1>3, StreamTypes, HandlerTask DEF Connected, Connecting
<1>4. ASSUME NEW p \in Public, Reply(p) PROVE StreamsInv'
  <2>1. reply' \in [Public -> {"none", "ok", "err"}] /\ \A q \in Public \ {p} : reply'[q] = reply[q]
    BY <1>1, <1>4, StreamTypes DEF Reply
  <2>2. QED
    BY <1>4, <2>1, HandlerTask DEF Reply, Connecting
<1>5. ASSUME NEW p \in Public, SpliceEnds(p) PROVE StreamsInv'
  BY <1>1, <1>5, StreamTypes, HandlerTask DEF SpliceEnds, Connecting
<1>6. ASSUME NEW p \in Public,
             \/ Accept(p) \/ OpenStream(p) \/ Splice(p) \/ ForwardEnds(p) \/ OrphanEnds(p)
             \/ Refuse(p) \/ Established(p) \/ Connected(p) \/ ConnectFails(p) \/ Withdraw(p)
             \/ Reply(p) \/ SpliceEnds(p) \/ \E s \in Source : Begin(p, s)
      PROVE  StreamsInv'
  BY <1>2, <1>3, <1>4, <1>5, <1>6, AcceptKeeps, OpenStreamKeeps, SpliceKeeps, ForwardEndsKeeps,
     OrphanEndsKeeps, EstablishedKeeps, ConnectFailsKeeps, WithdrawKeeps, BeginKeeps
<1>7. QED
  BY <1>6, IntrudeKeeps, ServeKeeps DEF OfStreams

\* Steps of the flows and of the session leave the streams alone, and with TCP leases none of
\* them forgets a lease that is served or was cut off.
LEMMA StreamsStay ==
    ASSUME StreamsInv, UNCHANGED streamVars, UNCHANGED transport,
           transport = "tcp" => serving \cup aborted \subseteq serving' \cup aborted'
    PROVE  StreamsInv'
<1>1. StreamTypeOK'
  BY DEF StreamsInv, StreamTypeOK, Pending, streamVars
<1>2. HandlerShape' /\ SourcesOwn' /\ ServedTold'
  BY DEF StreamsInv, RegistryInv, HandlerShape, SourcesOwn, ServedTold, Excused, GaveUp, Holds, Withdrawing,
         streamVars
<1>3. Announced'
  BY DEF StreamsInv, RegistryInv, Announced, ConnectAnnounced, EntriesOwned, BacklogAnnounced, Excused, GaveUp,
         Connecting, Withdrawing, Entry, streamVars
<1>4. Forwarded' = Forwarded
  BY DEF Forwarded, streamVars
<1>5. PermitsKept'
  BY <1>4 DEF StreamsInv, PermitsKept, streamVars
<1>6. QED
  BY <1>1, <1>2, <1>3, <1>5 DEF StreamsInv, RegistryInv

\* The end of the connector's session when it has no flows.
LEMMA QuietEnd ==
    ASSUME FlowsInv, loop.stage # "insert", session' = "none", loop' = Gone,
           UNCHANGED <<relay, net, sessions, flows, expired, pump, metadata, left>>
    PROVE  FlowsInv'
<1>1. RelayInv /\ ConnectorInv
  BY DEF FlowsInv
<1>2. ConnectorInv'
  BY <1>1, QuietConnector DEF ConnectorInv, ConnectorTypes, LoopSound
<1>3. QED
  BY <1>1, <1>2, RelayStays DEF FlowsInv

LEMMA DataInitInv == DataInit => DataInv
<1> SUFFICES ASSUME DataInit PROVE DataInv
  OBVIOUS
<1>1. FlowsInv
  BY FlowsInit DEF DataInit
<1>2. Forwarded = {} /\ Pending = {} /\ Cardinality({}) = 0
  BY FS_EmptySet DEF DataInit, Forwarded, Pending
<1>3. \A p \in Public : /\ handler[p].stage = "none" /\ handler[p].source = None /\ handler[p] \in HandlerRec
  BY UnboundRec DEF DataInit, HandlerStage
<1>4. handler \in [Public -> HandlerRec]
  BY <1>3 DEF DataInit
<1>5. StreamTypeOK
  BY <1>2, <1>4, StreamsAssumption DEF DataInit, StreamTypeOK, HandlerRec, HandlerStage
<1>6. HandlerShape /\ SourcesOwn /\ ServedTold
  BY <1>3 DEF DataInit, HandlerShape, SourcesOwn, ServedTold, Holds, Withdrawing
<1>7. Announced
  BY <1>3, StreamsAssumption DEF DataInit, Announced, ConnectAnnounced, EntriesOwned, BacklogAnnounced, Connecting
<1>8. PermitsKept
  BY <1>2, StreamsAssumption DEF DataInit, PermitsKept
<1>9. LoopWaits
  BY DEF DataInit, Init, Idle, LoopWaits
<1>10. QED
  BY <1>1, <1>5, <1>6, <1>7, <1>8, <1>9 DEF DataInv, StreamsInv, RegistryInv

LEMMA DataNextInv == DataInv /\ [DataNext]_dataVars => DataInv'
<1> SUFFICES ASSUME DataInv, [DataNext]_dataVars PROVE DataInv'
  OBVIOUS
<1>1. FlowsInv /\ StreamsInv /\ LoopWaits
  BY DEF DataInv
<1>2. Idle.stage = "read" /\ Gone.stage = "gone"
  BY DEF Idle, Gone
<1>3. CASE UNCHANGED dataVars
  <2>1. UNCHANGED vars /\ UNCHANGED streamVars /\ UNCHANGED transport /\ UNCHANGED <<serving, aborted, loop>>
    BY <1>3 DEF dataVars, vars, relay, connector
  <2>2. LoopWaits'
    BY <1>1, <2>1 DEF LoopWaits
  <2>3. QED
    BY <1>1, <2>1, <2>2, FlowsNext, StreamsStay DEF DataInv
<1>4. CASE UNCHANGED transport /\ transport = "udp" /\ Next /\ UNCHANGED streamVars
  BY <1>1, <1>4, FlowsNext, StreamsStay DEF DataInv, LoopWaits
<1>5. CASE UNCHANGED transport /\ transport = "tcp" /\ OfStreams /\ UNCHANGED vars
  <2>1. UNCHANGED <<serving, aborted, loop>>
    BY <1>5 DEF vars, relay, connector
  <2>2. LoopWaits'
    BY <1>1, <1>5, <2>1 DEF LoopWaits
  <2>3. QED
    BY <1>1, <1>5, <2>1, <2>2, FlowsNext, OfStreamsKeeps DEF DataInv
<1>6. CASE UNCHANGED transport /\ transport = "tcp" /\ OfSession /\ UNCHANGED streamVars
  <2>1. CASE /\ session = "closing" /\ session' = "none" /\ loop' = Gone
             /\ UNCHANGED <<relay, net, sessions, flows, expired, pump, metadata, left>>
    <3>1. FlowsInv' /\ LoopWaits'
      BY <1>1, <1>2, <1>6, <2>1, QuietEnd DEF LoopWaits
    <3>2. UNCHANGED <<serving, aborted>>
      BY <2>1 DEF relay
    <3>3. QED
      BY <1>1, <1>6, <3>1, <3>2, StreamsStay DEF DataInv
  <2>2. ASSUME NEW l \in Lease, AbortLease(l) PROVE DataInv'
    <3>1. Next
      BY <2>2 DEF Next, Ending
    <3>2. serving \cup aborted \subseteq serving' \cup aborted' /\ UNCHANGED loop
      BY <2>2 DEF AbortLease, connector
    <3>3. LoopWaits'
      BY <1>1, <1>6, <3>2 DEF LoopWaits
    <3>4. QED
      BY <1>1, <1>6, <3>1, <3>2, <3>3, FlowsNext, StreamsStay DEF DataInv
  <2>3. QED
    BY <1>6, <2>1, <2>2 DEF OfSession
<1>7. CASE UNCHANGED transport /\ EndTcpSession
  <2>1. Next /\ UNCHANGED loop
    BY <1>7 DEF EndTcpSession, EndSession, Next
  <2>2. LoopWaits'
    BY <1>1, <1>7, <2>1 DEF LoopWaits
  <2>3. QED
    BY <1>1, <1>7, <2>1, <2>2, FlowsNext, EndTcpSessionKeeps DEF DataInv
<1>8. CASE UNCHANGED transport /\ ReconnectTcp
  <2>1. Next /\ loop' = Idle
    BY <1>8 DEF ReconnectTcp, Reconnect, Next
  <2>2. LoopWaits'
    BY <1>2, <2>1 DEF LoopWaits
  <2>3. QED
    BY <1>1, <1>8, <2>1, <2>2, FlowsNext, ReconnectTcpKeeps DEF DataInv
<1>9. CASE UNCHANGED transport /\ \E l \in Lease : EndTcpLease(l)
  <2>1. Next /\ UNCHANGED loop
    BY <1>9 DEF EndTcpLease, EndLease, Next, Ending, connector
  <2>2. LoopWaits'
    BY <1>1, <1>9, <2>1 DEF LoopWaits
  <2>3. QED
    BY <1>1, <1>9, <2>1, <2>2, FlowsNext, EndTcpLeaseKeeps DEF DataInv
<1>10. QED
  BY <1>3, <1>4, <1>5, <1>6, <1>7, <1>8, <1>9 DEF DataNext

LEMMA DataAlways == DataSpec => []DataInv
  BY DataInitInv, DataNextInv, PTL DEF DataSpec

\* The flow tables of relay and connector mirror each other within their limits and no TCP
\* permit of a session is lost or invented, whatever sweeps, orderly and aborted ends of leases,
\* ends of sessions and new packets overlap (FlowTables of relay.rs, flows of connector.rs,
\* tcp_permits).
THEOREM DataAlwaysSound == DataSpec => []DataSound
<1>1. DataInv => DataSound
  BY FlowsInvUse DEF DataInv, StreamsInv, PermitsKept, DataSound
<1>2. QED
  BY <1>1, DataAlways, PTL

\* Whoever reaches a listener of the node through a lease is taken for the client it is or for
\* nobody, for nobody only if it was given up or got its address before the entry of a failed
\* connect was withdrawn, and only then a local program for somebody; every registration has its
\* flow but for those that a session cut off left behind (register_tcp, take_tcp, remove_tcp and
\* register_udp of metadata.rs, connect_local_tcp of connector.rs).
THEOREM ClientsAlwaysTold == DataSpec => []ClientsTold
<1>1. DataInv => ClientsTold
  <2> SUFFICES ASSUME DataInv PROVE ClientsTold
    OBVIOUS
  <2>1. Truthful
    BY FlowsInvUse DEF DataInv
  <2>2. \A r \in served :
           /\ r.owner # Stranger => r.as \in {r.owner, None}
           /\ r.owner # Stranger /\ r.as = None =>
                 r.as = r.owner \/ (handler[r.owner].stage = "gone" /\ reply[r.owner] = "err") \/ r.owner \in reused
           /\ r.owner = Stranger /\ r.as # None => Stranger \in reused
    BY DEF DataInv, StreamsInv, RegistryInv, ServedTold, Excused, GaveUp
  <2>3. \A r \in served : r.owner # None
    BY StreamTypes, StreamsAssumption DEF DataInv, StreamsInv
  <2>4. ASSUME NEW s \in Pending
        PROVE  \/ \E p \in Public : handler[p].stage \in {"connect", "withdraw"} /\ handler[p].source = s
               \/ \E b \in backlog : b.source = s
    <3>1. s \in Source /\ pending[s] \in Public
      BY StreamTypes DEF Pending, DataInv, StreamsInv
    <3>2. Entry(s, pending[s]).source = s
      BY DEF Entry
    <3>3. QED
      BY <3>1, <3>2 DEF DataInv, StreamsInv, RegistryInv, Announced, EntriesOwned, Connecting, Withdrawing
  <2>5. QED
    BY <2>1, <2>2, <2>3, <2>4 DEF ClientsTold
<1>2. QED
  BY <1>1, DataAlways, PTL

===============================================================================
