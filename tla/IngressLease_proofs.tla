-------------------------- MODULE IngressLease_proofs --------------------------
(***************************************************************************)
(* Proofs about the sessions and leases of reverse ingress, for every      *)
(* number of nodes, connections and faults, every configuration of targets *)
(* the connector accepts and every set of grants the relay accepts.        *)
(***************************************************************************)
EXTENDS IngressLease, FiniteSetTheorems, TLAPS

ConnRec == [stage : {"idle", "register", "lease", "serve"}, sid : Sid \cup {None}, got : Nat,
            backoff : ReconnectMin .. ReconnectMax, wait : 0 .. ReconnectMax]
LinkRec == [node : Node, open : BOOLEAN,
            stage : {"free", "new", "acking", "registered", "draining"},
            rpc : {"none", "request", "ok"} \cup Code, req : Nat]

\* The stages in which a connection has an entry in the table of sessions, and those
\* in which it may have leases.
Held    == {"acking", "registered", "draining"}
Leasing == {"registered", "draining"}

\* The table of sessions and the connections agree.
SessionsAgree ==
    /\ \A s \in Sid : link[s].stage \in Held => sessions[link[s].node] = s
    /\ \A n \in Node : sessions[n] # None =>
        link[sessions[n]].node = n /\ link[sessions[n]].stage \in Held

\* A lease belongs to a registered connection of its node.
LeasesOwned ==
    /\ IsFiniteSet(leases)
    /\ \A l \in leases : link[l.sid].stage \in Leasing /\ link[l.sid].node = l.key.node

\* A request is about a target, and only a registered connection was told yes.
LinkOK(k) ==
    /\ k.stage = "draining" => ~k.open
    /\ k.open /\ k.rpc = "ok" => k.stage = "registered"
    /\ k.stage \in Leasing /\ k.rpc = "request" => k.req \in DOMAIN Targets[k.node]
LinksInOrder == \A s \in Sid : LinkOK(link[s])

LeasedIn(n, i, s, ls) == \E l \in ls : l.sid = s /\ l.key = KeyOf(n, Targets[n][i])

\* As long as the connection lives, the relay has what the connector counts as leased.
Follows(n, c, k, ls) ==
    /\ k.node = n
    /\ c.stage = "lease" => c.got + 1 \in DOMAIN Targets[n]
    /\ c.stage = "serve" => c.got = Len(Targets[n])
    /\ c.stage \in {"lease", "serve"} /\ k.open =>
        k.stage = "registered" /\ \A i \in 1 .. c.got : LeasedIn(n, i, c.sid, ls)
    /\ c.stage = "lease" /\ k.open => k.req = c.got + 1
    /\ c.stage = "lease" /\ k.open /\ k.rpc = "ok" => LeasedIn(n, c.got + 1, c.sid, ls)
ConnectorsInOrder ==
    \A n \in Node : \/ conn[n].stage = "idle" /\ conn[n].sid = None
                    \/ /\ conn[n].stage # "idle" /\ conn[n].sid \in Sid
                       /\ Follows(n, conn[n], link[conn[n].sid], leases)

\* A key with a fixed port never had another one.
Fixed(k, p) ==
    \A n \in Node : \A i \in DOMAIN Targets[n] :
        k = KeyOf(n, Targets[n][i]) /\ Targets[n][i].public_port # 0 =>
            p = Targets[n][i].public_port

\* What is reserved for a key is what its last lease left, for as long as the grace.
Remembered ==
    /\ \A k \in Key : /\ resv[k].left + ended[k].age = Grace
                      /\ resv[k].left > 0 => /\ resv[k].port = ended[k].port
                                             /\ resv[k].port \in Port
                                             /\ Fixed(k, resv[k].port)
    /\ \A l \in leases : Fixed(l.key, l.port)

IInv == /\ TypeOK /\ SessionsAgree /\ LeasesOwned /\ LinksInOrder /\ ConnectorsInOrder
        /\ Remembered /\ LeaseBound
-------------------------------------------------------------------------------

LEMMA TypeShape == TypeOK => /\ conn \in [Node -> ConnRec] /\ link \in [Sid -> LinkRec]
                             /\ sessions \in [Node -> Sid \cup {None}]
  BY DEF TypeOK, ConnRec, LinkRec

\* A lease lives under the session of its node, and a connector that serves has all.
LEMMA IInvSound == IInv => LeasesSound
  <1>1. SUFFICES ASSUME IInv PROVE OneSessionPerNode
    BY DEF IInv, LeasesSound
  <1>2. ASSUME NEW l \in leases PROVE sessions[l.key.node] = l.sid
    <2>1. l.sid \in Sid
      BY <1>1 DEF IInv, TypeOK
    <2>2. link[l.sid].stage \in Held /\ link[l.sid].node = l.key.node
      BY <1>1, <1>2 DEF IInv, LeasesOwned, Leasing, Held
    <2>3. QED BY <1>1, <2>1, <2>2 DEF IInv, SessionsAgree
  <1>3. ASSUME NEW n \in Node, conn[n].stage = "serve", link[conn[n].sid].open,
               NEW i \in DOMAIN Targets[n]
        PROVE  \E l \in leases : l.sid = conn[n].sid /\ l.key = KeyOf(n, Targets[n][i])
    <2>1. Follows(n, conn[n], link[conn[n].sid], leases)
      BY <1>1, <1>3 DEF IInv, ConnectorsInOrder
    <2>2. i \in 1 .. conn[n].got
      BY <1>3, <2>1, IngressAssumption DEF Follows
    <2>3. QED BY <1>3, <2>1, <2>2 DEF Follows, LeasedIn
  <1>4. QED BY <1>2, <1>3 DEF OneSessionPerNode

LEMMA IInvInit == Init => IInv
  <1>1. SUFFICES ASSUME Init PROVE IInv
    OBVIOUS
  <1>2. ReconnectMin \in Nat /\ ReconnectMax \in Nat /\ ReconnectMin <= ReconnectMax
        /\ Grace \in Nat \ {0} /\ MaxFaults \in Nat
    BY IngressAssumption DEF ValidConnector, ValidRelay
  <1>3. (CHOOSE n \in Node : TRUE) \in Node
    BY IngressAssumption
  <1>4. conn \in [Node -> ConnRec] /\ link \in [Sid -> LinkRec]
    BY <1>1, <1>2, <1>3 DEF Init, ConnRec, LinkRec
  <1>5. resv \in [Key -> [port : Port \cup {0}, left : 0 .. Grace]]
        /\ ended \in [Key -> [port : Port \cup {0}, age : 0 .. Grace]]
    BY <1>1, <1>2 DEF Init, NoPort
  <1>6. TypeOK
    BY <1>1, <1>2, <1>4, <1>5 DEF Init, TypeOK, ConnRec, LinkRec
  <1>7. SessionsAgree /\ LinksInOrder /\ ConnectorsInOrder
    BY <1>1 DEF Init, SessionsAgree, LinksInOrder, LinkOK, ConnectorsInOrder, Held, Leasing
  <1>8. LeasesOwned
    BY <1>1, FS_EmptySet DEF Init, LeasesOwned
  <1>9. Remembered
    BY <1>1, <1>2 DEF Init, Remembered, NoPort
  <1>10. LeaseBound
    <2>1. \A n \in Node : {l \in leases : l.key.node = n} = {}
      BY <1>1 DEF Init
    <2>2. Cardinality({}) = 0
      BY FS_EmptySet
    <2>3. \A n \in Node : 0 <= MaxLeases[n]
      BY IngressAssumption DEF ValidRelay
    <2>4. QED BY <1>1, <2>1, <2>2, <2>3 DEF Init, LeaseBound, Lingers
  <1>11. QED BY <1>6, <1>7, <1>8, <1>9, <1>10 DEF IInv
-------------------------------------------------------------------------------
(* Steps of one connection *)

\* The record of connection s becomes k.
LinkIs(s, k) == link' = [link EXCEPT ![s] = k]

\* What a step may do to a connection that keeps its place in the tables.
LinkChange(s, k) ==
    /\ k \in LinkRec /\ LinkOK(k)
    /\ k.node = link[s].node
    /\ k.stage \in Held <=> link[s].stage \in Held
    /\ link[s].stage \in Leasing => k.stage \in Leasing
    /\ k.open => /\ link[s].open /\ k.req = link[s].req
                 /\ link[s].stage = "registered" =>
                        k.stage = "registered" /\ (k.rpc = "ok" => link[s].rpc = "ok")

LEMMA LinkEffect ==
    ASSUME TypeOK, NEW s \in Sid, NEW k \in LinkRec, LinkIs(s, k)
    PROVE  /\ link' \in [Sid -> LinkRec] /\ link'[s] = k
           /\ \A q \in Sid : q # s => link'[q] = link[q]
  BY TypeShape DEF LinkIs

LEMMA TypeKept ==
    ASSUME TypeOK, link' \in [Sid -> LinkRec], conn' \in [Node -> ConnRec],
           UNCHANGED <<leases, resv, busy, lingering, ended>>,
           sessions' \in [Node -> Sid \cup {None}], faults' \in 0 .. MaxFaults
    PROVE  TypeOK'
  BY DEF TypeOK, ConnRec, LinkRec

LEMMA HistoryKept ==
    ASSUME Remembered, UNCHANGED <<leases, resv, ended>>
    PROVE  Remembered'
  BY DEF Remembered

LEMMA BoundKept ==
    ASSUME LeaseBound, UNCHANGED <<leases, lingering>>
    PROVE  LeaseBound'
  BY DEF LeaseBound, Lingers

LEMMA LinkMoves ==
    ASSUME IInv, NEW s \in Sid, NEW k, LinkIs(s, k), LinkChange(s, k),
           UNCHANGED <<conn, sessions, leases, resv, busy, lingering, ended>>, faults' \in 0 .. MaxFaults
    PROVE  IInv'
  <1>1. TypeOK /\ k \in LinkRec
    BY DEF IInv, LinkChange
  <1>2. /\ link' \in [Sid -> LinkRec] /\ link'[s] = k
        /\ \A q \in Sid : q # s => link'[q] = link[q]
    BY <1>1, LinkEffect
  <1>3. TypeOK'
    BY <1>1, <1>2, TypeShape, TypeKept
  <1>4. SessionsAgree'
    <2>1. \A q \in Sid : /\ link'[q].node = link[q].node
                         /\ link'[q].stage \in Held <=> link[q].stage \in Held
      BY <1>2 DEF LinkChange
    <2>2. \A n \in Node : sessions[n] # None => sessions[n] \in Sid
      BY <1>1, TypeShape
    <2>3. QED BY <2>1, <2>2 DEF IInv, SessionsAgree
  <1>5. LeasesOwned'
    <2>1. \A l \in leases : l.sid \in Sid
      BY <1>1 DEF TypeOK
    <2>2. \A q \in Sid : /\ link'[q].node = link[q].node
                         /\ link[q].stage \in Leasing => link'[q].stage \in Leasing
      BY <1>2 DEF LinkChange
    <2>3. QED BY <2>1, <2>2 DEF IInv, LeasesOwned
  <1>6. LinksInOrder'
    BY <1>2 DEF IInv, LinksInOrder, LinkChange, LinkOK
  <1>7. ConnectorsInOrder'
    <2>1. SUFFICES ASSUME NEW n \in Node, conn[n].stage # "idle", conn[n].sid \in Sid,
                          Follows(n, conn[n], link[conn[n].sid], leases)
                   PROVE  Follows(n, conn[n], link'[conn[n].sid], leases)
      BY DEF IInv, ConnectorsInOrder, Follows, LeasedIn
    <2>2. CASE conn[n].sid = s
      <3>1. Follows(n, conn[n], link[s], leases)
        BY <2>1, <2>2
      <3>2. Follows(n, conn[n], k, leases)
        BY <3>1 DEF Follows, LinkChange
      <3>3. QED BY <1>2, <2>2, <3>2
    <2>3. CASE conn[n].sid # s
      BY <1>2, <2>1, <2>3
    <2>4. QED BY <2>2, <2>3
  <1>8. Remembered' /\ LeaseBound'
    BY HistoryKept, BoundKept DEF IInv
  <1>9. QED BY <1>3, <1>4, <1>5, <1>6, <1>7, <1>8 DEF IInv

\* The steps of a connection that LinkMoves covers.
LEMMA RelayMoves ==
    ASSUME IInv, NEW s \in Sid,
           \/ Ack(s) \/ Abandon(s) \/ RelayNotices(s) \/ AbortRequest(s) \/ LeaseAckFails(s) \/ Lose(s)
    PROVE  IInv'
  <1>1. link \in [Sid -> LinkRec] /\ link[s] \in LinkRec /\ LinkOK(link[s])
    BY TypeShape DEF IInv, LinksInOrder
  <1>2. faults' \in 0 .. MaxFaults /\ UNCHANGED <<conn, sessions, leases, resv, busy, lingering, ended>>
    BY IngressAssumption
       DEF Ack, Abandon, RelayNotices, AbortRequest, LeaseAckFails, Lose, Fault, IInv, TypeOK
  <1>3. ASSUME Ack(s) PROVE \E k : LinkIs(s, k) /\ LinkChange(s, k)
    <2>1. PICK k : k = [link[s] EXCEPT !.stage = "registered", !.rpc = "ok"]
      OBVIOUS
    <2>2. LinkIs(s, k)
      BY <1>3, <2>1 DEF Ack, LinkIs
    <2>3. /\ k \in LinkRec /\ k.stage = "registered" /\ k.rpc = "ok" /\ k.node = link[s].node
          /\ k.open = link[s].open /\ k.req = link[s].req
      BY <1>1, <2>1 DEF LinkRec
    <2>4. LinkChange(s, k)
      BY <1>3, <2>3 DEF Ack, LinkChange, LinkOK, Held, Leasing
    <2>5. QED BY <2>2, <2>4
  <1>4. ASSUME Abandon(s) PROVE \E k : LinkIs(s, k) /\ LinkChange(s, k)
    <2>1. PICK k : k = [link[s] EXCEPT !.stage = "free", !.open = FALSE]
      OBVIOUS
    <2>2. LinkIs(s, k)
      BY <1>4, <2>1 DEF Abandon, Free, LinkIs
    <2>3. k \in LinkRec /\ k.stage = "free" /\ k.node = link[s].node /\ k.open = FALSE
      BY <1>1, <2>1 DEF LinkRec
    <2>4. LinkChange(s, k)
      BY <1>4, <2>3 DEF Abandon, LinkChange, LinkOK, Held, Leasing
    <2>5. QED BY <2>2, <2>4
  <1>5. ASSUME RelayNotices(s) PROVE \E k : LinkIs(s, k) /\ LinkChange(s, k)
    <2>1. PICK k : k = [link[s] EXCEPT !.stage = "draining"]
      OBVIOUS
    <2>2. LinkIs(s, k)
      BY <1>5, <2>1 DEF RelayNotices, LinkIs
    <2>3. /\ k \in LinkRec /\ k.stage = "draining" /\ k.node = link[s].node
          /\ k.open = link[s].open /\ k.rpc = link[s].rpc /\ k.req = link[s].req
      BY <1>1, <2>1 DEF LinkRec
    <2>4. LinkChange(s, k)
      BY <1>1, <1>5, <2>3 DEF RelayNotices, LinkChange, LinkOK, Held, Leasing
    <2>5. QED BY <2>2, <2>4
  <1>6. ASSUME AbortRequest(s) \/ LeaseAckFails(s) PROVE \E k : LinkIs(s, k) /\ LinkChange(s, k)
    <2>1. PICK k : k = [link[s] EXCEPT !.rpc = "none"]
      OBVIOUS
    <2>2. LinkIs(s, k)
      BY <1>6, <2>1 DEF AbortRequest, LeaseAckFails, Answer, LinkIs
    <2>3. /\ k \in LinkRec /\ k.stage = link[s].stage /\ k.node = link[s].node
          /\ k.open = link[s].open /\ k.rpc = "none" /\ k.req = link[s].req
      BY <1>1, <2>1 DEF LinkRec
    <2>4. LinkChange(s, k)
      BY <1>1, <2>3 DEF LinkChange, LinkOK
    <2>5. QED BY <2>2, <2>4
  <1>7. ASSUME Lose(s) PROVE \E k : LinkIs(s, k) /\ LinkChange(s, k)
    <2>1. PICK k : k = [link[s] EXCEPT !.open = FALSE]
      OBVIOUS
    <2>2. LinkIs(s, k)
      BY <1>7, <2>1 DEF Lose, LinkIs
    <2>3. /\ k \in LinkRec /\ k.stage = link[s].stage /\ k.node = link[s].node
          /\ k.open = FALSE /\ k.rpc = link[s].rpc /\ k.req = link[s].req
      BY <1>1, <2>1 DEF LinkRec
    <2>4. LinkChange(s, k)
      BY <1>1, <2>3 DEF LinkChange, LinkOK
    <2>5. QED BY <2>2, <2>4
  <1>8. \E k : LinkIs(s, k) /\ LinkChange(s, k)
    BY <1>3, <1>4, <1>5, <1>6, <1>7
  <1>9. PICK k : LinkIs(s, k) /\ LinkChange(s, k)
    BY <1>8
  <1>10. QED BY <1>2, <1>9, LinkMoves

\* A refusal of a lease.
LEMMA RefusalInv ==
    ASSUME IInv, NEW s \in Sid, NEW code \in Code, Answer(s, code), link[s].stage \in Leasing,
           UNCHANGED <<conn, sessions, leases, resv, busy, lingering, faults, ended>>
    PROVE  IInv'
  <1>1. link \in [Sid -> LinkRec] /\ link[s] \in LinkRec /\ LinkOK(link[s])
    BY TypeShape DEF IInv, LinksInOrder
  <1>2. PICK k : k = [link[s] EXCEPT !.rpc = code]
    OBVIOUS
  <1>3. LinkIs(s, k)
    BY <1>2 DEF Answer, LinkIs
  <1>4. /\ k \in LinkRec /\ k.stage = link[s].stage /\ k.node = link[s].node
        /\ k.open = link[s].open /\ k.rpc = code /\ k.req = link[s].req
    BY <1>1, <1>2 DEF LinkRec
  <1>5. code # "ok" /\ code # "request"
    BY DEF Code
  <1>6. LinkChange(s, k)
    BY <1>1, <1>4, <1>5 DEF LinkChange, LinkOK
  <1>7. faults' \in 0 .. MaxFaults
    BY DEF IInv, TypeOK
  <1>8. QED BY <1>3, <1>6, <1>7, LinkMoves

\* REGISTER: the entry is made, or the connection is refused.
LEMMA RegisterInv ==
    ASSUME IInv, NEW s \in Sid, Register(s)
    PROVE  IInv'
  <1>1. TypeOK /\ link[s] \in LinkRec /\ LinkOK(link[s]) /\ link[s].stage = "new"
    BY TypeShape DEF IInv, LinksInOrder, Register
  <1>2. UNCHANGED <<conn, leases, resv, busy, lingering, faults, ended>> /\ faults' \in 0 .. MaxFaults
    BY <1>1 DEF Register, TypeOK
  <1>3. CASE /\ link' = [link EXCEPT ![s].stage = "free", ![s].rpc = "duplicate"]
             /\ UNCHANGED sessions
    <2>1. PICK k : k = [link[s] EXCEPT !.stage = "free", !.rpc = "duplicate"]
      OBVIOUS
    <2>2. LinkIs(s, k)
      BY <1>3, <2>1 DEF LinkIs
    <2>3. /\ k \in LinkRec /\ k.stage = "free" /\ k.node = link[s].node
          /\ k.open = link[s].open /\ k.rpc = "duplicate" /\ k.req = link[s].req
      BY <1>1, <2>1 DEF LinkRec, Code
    <2>4. LinkChange(s, k)
      BY <1>1, <2>3 DEF LinkChange, LinkOK, Held, Leasing
    <2>5. QED BY <1>2, <1>3, <2>2, <2>4, LinkMoves
  <1>4. CASE /\ sessions[link[s].node] = None
             /\ sessions' = [sessions EXCEPT ![link[s].node] = s]
             /\ link' = [link EXCEPT ![s].stage = "acking"]
    <2>1. PICK n \in Node : n = link[s].node
      BY <1>1 DEF LinkRec
    <2>2. PICK k : k = [link[s] EXCEPT !.stage = "acking"]
      OBVIOUS
    <2>3. LinkIs(s, k)
      BY <1>4, <2>2 DEF LinkIs
    <2>4. /\ k \in LinkRec /\ k.stage = "acking" /\ k.node = n
          /\ k.open = link[s].open /\ k.rpc = link[s].rpc /\ k.req = link[s].req
      BY <1>1, <2>1, <2>2 DEF LinkRec
    <2>5. /\ link' \in [Sid -> LinkRec] /\ link'[s] = k
          /\ \A q \in Sid : q # s => link'[q] = link[q]
      BY <1>1, <2>3, <2>4, LinkEffect
    <2>6. /\ sessions \in [Node -> Sid \cup {None}] /\ sessions' \in [Node -> Sid \cup {None}]
          /\ sessions'[n] = s /\ sessions[n] = None
          /\ \A m \in Node : m # n => sessions'[m] = sessions[m]
      BY <1>1, <1>4, <2>1, TypeShape
    <2>7. TypeOK'
      BY <1>1, <1>2, <2>5, <2>6, TypeShape, TypeKept
    <2>8. SessionsAgree'
      <3>1. ASSUME NEW q \in Sid, link'[q].stage \in Held PROVE sessions'[link'[q].node] = q
        <4>1. CASE q = s
          BY <2>4, <2>5, <2>6, <4>1
        <4>2. CASE q # s
          <5>1. sessions[link[q].node] = q /\ link[q].node \in Node /\ q # None
            BY <1>1, <2>5, <3>1, <4>2, TypeShape, IngressAssumption DEF IInv, SessionsAgree, LinkRec
          <5>2. QED BY <2>5, <2>6, <4>2, <5>1
        <4>3. QED BY <4>1, <4>2
      <3>2. ASSUME NEW m \in Node, sessions'[m] # None
            PROVE  link'[sessions'[m]].node = m /\ link'[sessions'[m]].stage \in Held
        <4>1. CASE m = n
          BY <2>4, <2>5, <2>6, <4>1 DEF Held
        <4>2. CASE m # n
          <5>1. /\ sessions[m] \in Sid /\ sessions'[m] = sessions[m]
                /\ link[sessions[m]].node = m /\ link[sessions[m]].stage \in Held
            BY <2>6, <3>2, <4>2 DEF IInv, SessionsAgree
          <5>2. sessions[m] # s
            BY <1>1, <5>1 DEF Held
          <5>3. QED BY <2>5, <5>1, <5>2
        <4>3. QED BY <4>1, <4>2
      <3>3. QED BY <3>1, <3>2 DEF SessionsAgree
    <2>9. LeasesOwned'
      <3>1. \A l \in leases : l.sid \in Sid /\ l.sid # s
        BY <1>1 DEF IInv, TypeOK, LeasesOwned, Leasing
      <3>2. QED BY <1>2, <2>5, <3>1 DEF IInv, LeasesOwned
    <2>10. LinksInOrder'
      <3>1. LinkOK(k)
        BY <1>1, <2>4 DEF LinkOK, Leasing
      <3>2. QED BY <2>5, <3>1 DEF IInv, LinksInOrder, LinkOK
    <2>11. ConnectorsInOrder'
      <3>1. SUFFICES ASSUME NEW m \in Node, conn[m].stage # "idle", conn[m].sid \in Sid,
                            Follows(m, conn[m], link[conn[m].sid], leases)
                     PROVE  Follows(m, conn[m], link'[conn[m].sid], leases)
        BY <1>2 DEF IInv, ConnectorsInOrder, Follows, LeasedIn
      <3>2. CASE conn[m].sid = s
        <4>1. Follows(m, conn[m], link[s], leases)
          BY <3>1, <3>2
        <4>2. Follows(m, conn[m], k, leases)
          BY <1>1, <2>1, <2>4, <4>1 DEF Follows
        <4>3. QED BY <2>5, <3>2, <4>2
      <3>3. CASE conn[m].sid # s
        BY <2>5, <3>1, <3>3
      <3>4. QED BY <3>2, <3>3
    <2>12. Remembered' /\ LeaseBound'
      BY <1>2, HistoryKept, BoundKept DEF IInv
    <2>13. QED BY <2>7, <2>8, <2>9, <2>10, <2>11, <2>12 DEF IInv
  <1>5. QED BY <1>3, <1>4 DEF Register

\* The connection task ends with its entry, after its leases.
LEMMA LeavesInv ==
    ASSUME IInv, NEW s \in Sid, link[s].stage \in Held, LeasesOf(s) = {}, Deregister(s), Free(s),
           UNCHANGED <<conn, leases, resv, busy, lingering, faults, ended>>
    PROVE  IInv'
  <1>1. /\ TypeOK /\ link[s] \in LinkRec /\ sessions \in [Node -> Sid \cup {None}]
        /\ faults' \in 0 .. MaxFaults
    BY TypeShape DEF IInv, TypeOK
  <1>2. PICK n \in Node : n = link[s].node
    BY <1>1 DEF LinkRec
  <1>3. sessions[n] = s /\ s # None
    BY <1>2, IngressAssumption DEF IInv, SessionsAgree
  <1>4. /\ sessions'[n] = None /\ \A m \in Node : m # n => sessions'[m] = sessions[m]
        /\ sessions' \in [Node -> Sid \cup {None}]
    BY <1>1, <1>2, <1>3 DEF Deregister
  <1>5. PICK k : k = [link[s] EXCEPT !.stage = "free", !.open = FALSE]
    OBVIOUS
  <1>6. LinkIs(s, k)
    BY <1>5 DEF Free, LinkIs
  <1>7. k \in LinkRec /\ k.stage = "free" /\ k.node = n /\ k.open = FALSE
    BY <1>1, <1>2, <1>5 DEF LinkRec
  <1>8. /\ link' \in [Sid -> LinkRec] /\ link'[s] = k
        /\ \A q \in Sid : q # s => link'[q] = link[q]
    BY <1>1, <1>6, <1>7, LinkEffect
  <1>9. TypeOK'
    BY <1>1, <1>4, <1>8, TypeShape, TypeKept
  <1>10. SessionsAgree'
    <2>1. ASSUME NEW q \in Sid, link'[q].stage \in Held PROVE sessions'[link'[q].node] = q
      <3>1. q # s
        BY <1>7, <1>8, <2>1 DEF Held
      <3>2. sessions[link[q].node] = q /\ link[q].node \in Node
        BY <1>1, <1>8, <2>1, <3>1, TypeShape DEF IInv, SessionsAgree, LinkRec
      <3>3. link[q].node # n
        BY <1>3, <3>1, <3>2
      <3>4. QED BY <1>4, <1>8, <3>1, <3>2, <3>3
    <2>2. ASSUME NEW m \in Node, sessions'[m] # None
          PROVE  link'[sessions'[m]].node = m /\ link'[sessions'[m]].stage \in Held
      <3>1. m # n
        BY <1>4, <2>2
      <3>2. /\ sessions[m] \in Sid /\ sessions'[m] = sessions[m]
            /\ link[sessions[m]].node = m /\ link[sessions[m]].stage \in Held
        BY <1>1, <1>4, <2>2, <3>1 DEF IInv, SessionsAgree
      <3>3. sessions[m] # s
        BY <1>2, <3>1, <3>2
      <3>4. QED BY <1>8, <3>2, <3>3
    <2>3. QED BY <2>1, <2>2 DEF SessionsAgree
  <1>11. LeasesOwned'
    <2>1. \A l \in leases : l.sid \in Sid /\ l.sid # s
      BY <1>1 DEF TypeOK, LeasesOf
    <2>2. QED BY <1>8, <2>1 DEF IInv, LeasesOwned
  <1>12. LinksInOrder'
    <2>1. LinkOK(k)
      BY <1>7 DEF LinkOK, Leasing
    <2>2. QED BY <1>8, <2>1 DEF IInv, LinksInOrder, LinkOK
  <1>13. ConnectorsInOrder'
    <2>1. SUFFICES ASSUME NEW m \in Node, conn[m].stage # "idle", conn[m].sid \in Sid,
                          Follows(m, conn[m], link[conn[m].sid], leases)
                   PROVE  Follows(m, conn[m], link'[conn[m].sid], leases)
      BY DEF IInv, ConnectorsInOrder, Follows, LeasedIn
    <2>2. CASE conn[m].sid = s
      <3>1. Follows(m, conn[m], link[s], leases)
        BY <2>1, <2>2
      <3>2. Follows(m, conn[m], k, leases)
        BY <1>2, <1>7, <3>1 DEF Follows
      <3>3. QED BY <1>8, <2>2, <3>2
    <2>3. CASE conn[m].sid # s
      BY <1>8, <2>1, <2>3
    <2>4. QED BY <2>2, <2>3
  <1>14. Remembered' /\ LeaseBound'
    BY HistoryKept, BoundKept DEF IInv
  <1>15. QED BY <1>9, <1>10, <1>11, <1>12, <1>13, <1>14 DEF IInv

LEMMA EndOfTaskInv ==
    ASSUME IInv, NEW s \in Sid, AckFails(s) \/ Leave(s)
    PROVE  IInv'
  <1>1. link[s].stage \in Held
    BY DEF AckFails, Leave, Held
  <1>2. LeasesOf(s) = {}
    BY DEF AckFails, Leave, LeasesOf, IInv, LeasesOwned, Leasing
  <1>3. QED BY <1>1, <1>2, LeavesInv DEF AckFails, Leave
-------------------------------------------------------------------------------
(* Steps of a connector *)

\* Connector n becomes c; connection s becomes k.
Advances(n, c, s, k) == conn' = [conn EXCEPT ![n] = c] /\ LinkIs(s, k)

\* A step of a connector on its own connection, which the tables of the relay do not
\* notice: they only ask for the node and the stage of a connection.
ConnectorChange(n, c, s, k) ==
    /\ c \in ConnRec /\ k \in LinkRec /\ LinkOK(k)
    /\ k.node = link[s].node /\ k.stage = link[s].stage
    /\ conn[n].sid = s /\ link[s].node = n
    /\ \/ c.stage = "idle" /\ c.sid = None
       \/ c.stage # "idle" /\ c.sid = s /\ Follows(n, c, k, leases)

LEMMA ConnectorMoves ==
    ASSUME IInv, NEW n \in Node, NEW s \in Sid, NEW c, NEW k, Advances(n, c, s, k),
           ConnectorChange(n, c, s, k),
           UNCHANGED <<sessions, leases, resv, busy, lingering, faults, ended>>
    PROVE  IInv'
  <1>1. TypeOK /\ k \in LinkRec /\ c \in ConnRec /\ faults' \in 0 .. MaxFaults
    BY DEF IInv, ConnectorChange, TypeOK
  <1>2. /\ link' \in [Sid -> LinkRec] /\ link'[s] = k
        /\ \A q \in Sid : q # s => link'[q] = link[q]
    BY <1>1, LinkEffect DEF Advances
  <1>3. /\ conn' \in [Node -> ConnRec] /\ conn'[n] = c
        /\ \A m \in Node : m # n => conn'[m] = conn[m]
    BY <1>1, TypeShape DEF Advances
  <1>4. TypeOK'
    BY <1>1, <1>2, <1>3, TypeShape, TypeKept
  <1>5. \A q \in Sid : link'[q].node = link[q].node /\ link'[q].stage = link[q].stage
    BY <1>2 DEF ConnectorChange
  <1>6. SessionsAgree'
    <2>1. \A m \in Node : sessions[m] # None => sessions[m] \in Sid
      BY <1>1, TypeShape
    <2>2. QED BY <1>5, <2>1 DEF IInv, SessionsAgree
  <1>7. LeasesOwned'
    <2>1. \A l \in leases : l.sid \in Sid
      BY <1>1 DEF TypeOK
    <2>2. QED BY <1>5, <2>1 DEF IInv, LeasesOwned
  <1>8. LinksInOrder'
    BY <1>2 DEF IInv, LinksInOrder, ConnectorChange, LinkOK
  <1>9. ConnectorsInOrder'
    <2>1. ASSUME NEW m \in Node
          PROVE  \/ conn'[m].stage = "idle" /\ conn'[m].sid = None
                 \/ /\ conn'[m].stage # "idle" /\ conn'[m].sid \in Sid
                    /\ Follows(m, conn'[m], link'[conn'[m].sid], leases)
      <3>1. CASE m = n
        <4>1. conn'[m] = c
          BY <1>3, <3>1
        <4>2. CASE c.stage = "idle" /\ c.sid = None
          BY <4>1, <4>2
        <4>3. CASE c.stage # "idle" /\ c.sid = s /\ Follows(n, c, k, leases)
          BY <1>2, <3>1, <4>1, <4>3
        <4>4. QED BY <4>2, <4>3 DEF ConnectorChange
      <3>2. CASE m # n
        <4>1. \/ conn[m].stage = "idle" /\ conn[m].sid = None
              \/ /\ conn[m].stage # "idle" /\ conn[m].sid \in Sid
                 /\ Follows(m, conn[m], link[conn[m].sid], leases)
          BY DEF IInv, ConnectorsInOrder
        <4>2. conn'[m] = conn[m]
          BY <1>3, <3>2
        <4>3. ASSUME conn[m].sid \in Sid, Follows(m, conn[m], link[conn[m].sid], leases)
              PROVE  link'[conn[m].sid] = link[conn[m].sid]
          <5>1. conn[m].sid # s
            BY <3>2, <4>3 DEF Follows, ConnectorChange
          <5>2. QED BY <1>2, <4>3, <5>1
        <4>4. QED BY <4>1, <4>2, <4>3
      <3>3. QED BY <3>1, <3>2
    <2>2. QED BY <2>1 DEF ConnectorsInOrder, Follows, LeasedIn
  <1>10. Remembered' /\ LeaseBound'
    BY HistoryKept, BoundKept DEF IInv
  <1>11. QED BY <1>4, <1>6, <1>7, <1>8, <1>9, <1>10 DEF IInv

\* The connection of a connector that is not idle.
LEMMA OwnLink ==
    ASSUME IInv, NEW n \in Node, conn[n].stage # "idle"
    PROVE  /\ conn[n] \in ConnRec /\ conn[n].sid \in Sid /\ link[conn[n].sid] \in LinkRec
           /\ LinkOK(link[conn[n].sid]) /\ link[conn[n].sid].node = n
           /\ Follows(n, conn[n], link[conn[n].sid], leases)
  <1>1. conn[n].sid \in Sid /\ Follows(n, conn[n], link[conn[n].sid], leases)
    BY DEF IInv, ConnectorsInOrder
  <1>2. QED BY <1>1, TypeShape DEF IInv, LinksInOrder, Follows

LEMMA EndSessionInv ==
    ASSUME IInv, NEW n \in Node, conn[n].stage # "idle", EndSession(n),
           UNCHANGED <<sessions, leases, resv, busy, lingering, faults, ended>>
    PROVE  IInv'
  <1>1. PICK s \in Sid : s = conn[n].sid
    BY OwnLink
  <1>2. conn[n] \in ConnRec /\ link[s] \in LinkRec /\ LinkOK(link[s]) /\ link[s].node = n
    BY <1>1, OwnLink
  <1>3. ReconnectMin \in Nat /\ ReconnectMax \in Nat /\ ReconnectMin <= ReconnectMax
    BY IngressAssumption DEF ValidConnector
  <1>4. PICK b \in {conn[n].backoff, ReconnectMin} :
           /\ conn' = [conn EXCEPT ![n] =
                  [stage |-> "idle", sid |-> None, got |-> 0, wait |-> b,
                   backoff |-> IF 2 * b < ReconnectMax THEN 2 * b ELSE ReconnectMax]]
           /\ link' = [link EXCEPT ![s].open = FALSE]
    BY <1>1 DEF EndSession
  <1>5. b \in ReconnectMin .. ReconnectMax
    BY <1>2, <1>3, <1>4 DEF ConnRec
  <1>6. PICK d : d = IF 2 * b < ReconnectMax THEN 2 * b ELSE ReconnectMax
    OBVIOUS
  <1>7. d \in ReconnectMin .. ReconnectMax /\ b \in 0 .. ReconnectMax
    BY <1>3, <1>5, <1>6
  <1>8. PICK c : c = [stage |-> "idle", sid |-> None, got |-> 0, wait |-> b, backoff |-> d]
    OBVIOUS
  <1>9. c \in ConnRec /\ c.stage = "idle" /\ c.sid = None
    BY <1>7, <1>8 DEF ConnRec
  <1>10. PICK k : k = [link[s] EXCEPT !.open = FALSE]
    OBVIOUS
  <1>11. /\ k \in LinkRec /\ k.stage = link[s].stage /\ k.node = n /\ k.open = FALSE
         /\ k.rpc = link[s].rpc /\ k.req = link[s].req
    BY <1>2, <1>10 DEF LinkRec
  <1>12. LinkOK(k)
    BY <1>2, <1>11 DEF LinkOK
  <1>13. Advances(n, c, s, k)
    BY <1>4, <1>6, <1>8, <1>10 DEF Advances, LinkIs
  <1>14. ConnectorChange(n, c, s, k)
    BY <1>1, <1>2, <1>9, <1>11, <1>12 DEF ConnectorChange
  <1>15. QED BY <1>13, <1>14, ConnectorMoves

\* An answer is read: the next lease is asked for, or all are there.
LEMMA ReadReplyInv ==
    ASSUME IInv, NEW n \in Node, ReadReply(n)
    PROVE  IInv'
  <1>1. /\ conn[n].stage \in {"register", "lease"} /\ link[conn[n].sid].open
        /\ link[conn[n].sid].rpc = "ok"
        /\ UNCHANGED <<sessions, leases, resv, busy, lingering, faults, ended>>
    BY DEF ReadReply
  <1>2. PICK s \in Sid : s = conn[n].sid
    BY <1>1, OwnLink
  <1>3. /\ conn[n] \in ConnRec /\ link[s] \in LinkRec /\ LinkOK(link[s]) /\ link[s].node = n
        /\ Follows(n, conn[n], link[s], leases)
    BY <1>1, <1>2, OwnLink
  <1>4. link[s].open /\ link[s].rpc = "ok" /\ link[s].stage = "registered"
    BY <1>1, <1>2, <1>3 DEF LinkOK
  <1>5. Len(Targets[n]) \in Nat /\ DOMAIN Targets[n] = 1 .. Len(Targets[n]) /\ Len(Targets[n]) # 0
    <2>1. Len(Targets[n]) \in Nat /\ DOMAIN Targets[n] = 1 .. Len(Targets[n]) /\ Targets[n] # <<>>
      BY IngressAssumption DEF ValidConnector
    <2>2. QED BY <2>1
  <1>6. conn[n].got \in Nat
    BY <1>3 DEF ConnRec
  \* Whatever was leased so far stays so, and i is asked for.
  <1>7. ASSUME NEW i \in DOMAIN Targets[n], Ask(n, i),
               \A j \in 1 .. i - 1 : LeasedIn(n, j, s, leases)
        PROVE  IInv'
    <2>0. i \in Nat /\ i - 1 \in Nat
      BY <1>5, <1>7
    <2>1. PICK c : c = [conn[n] EXCEPT !.stage = "lease", !.got = i - 1]
      OBVIOUS
    <2>2. c \in ConnRec /\ c.stage = "lease" /\ c.got = i - 1 /\ c.sid = s
      BY <1>2, <1>3, <2>0, <2>1 DEF ConnRec
    <2>3. PICK k : k = [link[s] EXCEPT !.rpc = "request", !.req = i]
      OBVIOUS
    <2>4. /\ k \in LinkRec /\ k.stage = "registered" /\ k.node = n /\ k.rpc = "request"
          /\ k.req = i
      BY <1>3, <1>4, <2>0, <2>3 DEF LinkRec
    <2>5. LinkOK(k)
      BY <2>4, <1>7 DEF LinkOK
    <2>6. Advances(n, c, s, k)
      BY <1>2, <1>7, <2>1, <2>3 DEF Advances, LinkIs, Ask
    <2>7. c.got + 1 = i
      BY <1>5, <2>2
    <2>8. Follows(n, c, k, leases)
      BY <1>7, <2>2, <2>4, <2>7 DEF Follows
    <2>9. ConnectorChange(n, c, s, k)
      BY <1>2, <1>3, <1>4, <2>2, <2>4, <2>5, <2>8 DEF ConnectorChange
    <2>10. QED BY <1>1, <2>6, <2>9, ConnectorMoves
  <1>8. CASE conn[n].stage = "register"
    <2>1. Ask(n, 1)
      BY <1>8 DEF ReadReply
    <2>2. 1 \in DOMAIN Targets[n] /\ \A j \in 1 .. 1 - 1 : LeasedIn(n, j, s, leases)
      BY <1>5
    <2>3. QED BY <1>7, <2>1, <2>2
  <1>9. CASE conn[n].stage = "lease"
    <2>1. PICK g \in Nat : g = conn[n].got
      BY <1>6
    <2>2. /\ g + 1 \in DOMAIN Targets[n] /\ LeasedIn(n, g + 1, s, leases)
          /\ \A i \in 1 .. g : LeasedIn(n, i, s, leases)
      BY <1>2, <1>3, <1>4, <1>9, <2>1 DEF Follows
    <2>3. \A i \in 1 .. g + 1 : LeasedIn(n, i, s, leases)
      <3>1. \A i \in 1 .. g + 1 : i \in 1 .. g \/ i = g + 1
        BY <2>1
      <3>2. QED BY <2>2, <3>1
    <2>4. CASE g + 1 < Len(Targets[n])
      <3>1. Ask(n, g + 2)
        BY <1>9, <2>1, <2>4 DEF ReadReply
      <3>2. g + 2 \in DOMAIN Targets[n] /\ (g + 2) - 1 = g + 1
        BY <1>5, <2>1, <2>4
      <3>3. QED BY <1>7, <2>3, <3>1, <3>2
    <2>5. CASE ~(g + 1 < Len(Targets[n]))
      <3>1. Serve(n)
        BY <1>9, <2>1, <2>5 DEF ReadReply
      <3>2. g + 1 = Len(Targets[n])
        BY <1>5, <2>1, <2>2, <2>5
      <3>3. PICK c : c = [conn[n] EXCEPT !.stage = "serve", !.got = Len(Targets[n])]
        OBVIOUS
      <3>4. c \in ConnRec /\ c.stage = "serve" /\ c.got = Len(Targets[n]) /\ c.sid = s
        BY <1>2, <1>3, <1>5, <3>3 DEF ConnRec
      <3>5. PICK k : k = [link[s] EXCEPT !.rpc = "none"]
        OBVIOUS
      <3>6. k \in LinkRec /\ k.stage = "registered" /\ k.node = n /\ k.rpc = "none"
        BY <1>3, <1>4, <3>5 DEF LinkRec
      <3>7. LinkOK(k)
        BY <3>6 DEF LinkOK
      <3>8. Advances(n, c, s, k)
        BY <1>2, <3>1, <3>3, <3>5 DEF Advances, LinkIs, Serve
      <3>9. Follows(n, c, k, leases)
        BY <2>3, <3>2, <3>4, <3>6 DEF Follows
      <3>10. ConnectorChange(n, c, s, k)
        BY <1>2, <1>3, <1>4, <3>4, <3>6, <3>7, <3>9 DEF ConnectorChange
      <3>11. QED BY <1>1, <3>8, <3>10, ConnectorMoves
    <2>6. QED BY <2>4, <2>5
  <1>10. QED BY <1>1, <1>8, <1>9

\* A connection slot nobody refers to is taken.
LEMMA DialInv ==
    ASSUME IInv, NEW n \in Node, Dial(n)
    PROVE  IInv'
  <1>1. PICK s \in Sid :
           /\ link[s].stage = "free" /\ \A m \in Node : conn[m].sid # s
           /\ link' = [link EXCEPT ![s] = [node |-> n, open |-> TRUE, stage |-> "new",
                                           rpc |-> "request", req |-> 0]]
           /\ conn' = [conn EXCEPT ![n].stage = "register", ![n].sid = s]
    BY DEF Dial
  <1>2. /\ TypeOK /\ conn[n] \in ConnRec /\ faults' \in 0 .. MaxFaults /\ s \in Sid
        /\ link[s].stage = "free" /\ \A m \in Node : conn[m].sid # s
        /\ UNCHANGED <<sessions, leases, resv, busy, lingering, ended>>
    BY <1>1, TypeShape DEF IInv, TypeOK, Dial
  <1>3. PICK k : k = [node |-> n, open |-> TRUE, stage |-> "new", rpc |-> "request", req |-> 0]
    OBVIOUS
  <1>4. k \in LinkRec /\ k.stage = "new" /\ k.node = n /\ k.rpc = "request"
    BY <1>3 DEF LinkRec
  <1>5. LinkIs(s, k)
    BY <1>1, <1>3 DEF LinkIs
  <1>6. /\ link' \in [Sid -> LinkRec] /\ link'[s] = k
        /\ \A q \in Sid : q # s => link'[q] = link[q]
    BY <1>2, <1>4, <1>5, LinkEffect
  <1>7. PICK c : c = [conn[n] EXCEPT !.stage = "register", !.sid = s]
    OBVIOUS
  <1>8. c \in ConnRec /\ c.stage = "register" /\ c.sid = s
    BY <1>2, <1>7 DEF ConnRec
  <1>9. /\ conn' \in [Node -> ConnRec] /\ conn'[n] = c
        /\ \A m \in Node : m # n => conn'[m] = conn[m]
    BY <1>1, <1>2, <1>7, <1>8, TypeShape
  <1>10. TypeOK'
    BY <1>2, <1>6, <1>9, TypeShape, TypeKept
  <1>11. SessionsAgree'
    <2>1. \A m \in Node : sessions[m] # None => sessions[m] \in Sid /\ sessions[m] # s
      BY <1>2, TypeShape DEF IInv, SessionsAgree, Held
    <2>2. k.stage \notin Held
      BY <1>4 DEF Held
    <2>3. QED BY <1>2, <1>6, <2>1, <2>2 DEF IInv, SessionsAgree
  <1>12. LeasesOwned'
    <2>1. \A l \in leases : l.sid \in Sid /\ l.sid # s
      BY <1>2 DEF TypeOK, IInv, LeasesOwned, Leasing
    <2>2. QED BY <1>2, <1>6, <2>1 DEF IInv, LeasesOwned
  <1>13. LinksInOrder'
    <2>1. LinkOK(k)
      BY <1>4 DEF LinkOK, Leasing
    <2>2. QED BY <1>6, <2>1 DEF IInv, LinksInOrder, LinkOK
  <1>14. ConnectorsInOrder'
    <2>1. Follows(n, c, k, leases)
      BY <1>4, <1>8 DEF Follows
    <2>2. ASSUME NEW m \in Node, m # n
          PROVE  conn'[m].sid \in Sid => link'[conn'[m].sid] = link[conn[m].sid]
      BY <1>2, <1>6, <1>9, <2>2
    <2>3. ASSUME NEW m \in Node
          PROVE  \/ conn'[m].stage = "idle" /\ conn'[m].sid = None
                 \/ /\ conn'[m].stage # "idle" /\ conn'[m].sid \in Sid
                    /\ Follows(m, conn'[m], link'[conn'[m].sid], leases)
      <3>1. CASE m = n
        BY <1>2, <1>6, <1>8, <1>9, <2>1, <3>1
      <3>2. CASE m # n
        BY <1>9, <2>2, <3>2 DEF IInv, ConnectorsInOrder
      <3>3. QED BY <3>1, <3>2
    <2>4. QED BY <1>2, <2>3 DEF ConnectorsInOrder, Follows, LeasedIn
  <1>15. Remembered' /\ LeaseBound'
    BY <1>2, HistoryKept, BoundKept DEF IInv
  <1>16. QED BY <1>10, <1>11, <1>12, <1>13, <1>14, <1>15 DEF IInv

LEMMA ConnectorInv ==
    ASSUME IInv, NEW n \in Node, Connector(n)
    PROVE  IInv'
  <1>1. CASE Refused(n) \/ ConnectorNotices(n)
    BY <1>1, EndSessionInv DEF Refused, ConnectorNotices
  <1>2. QED BY <1>1, DialInv, ReadReplyInv DEF Connector
-------------------------------------------------------------------------------
(* Leases *)

\* What a granted lease is: of the target asked for, on a port that nobody holds.
Grants(s, k, b) ==
    /\ link[s].stage \in Leasing /\ link[s].rpc = "request"
    /\ k = KeyOf(link[s].node, Targets[link[s].node][link[s].req])
    /\ HasPermit(s) /\ b \in Port /\ Fixed(k, b) /\ Bindable(k.transport, b)
    /\ ended[k].age < Grace => \/ b = ended[k].port
                               \/ ~Bindable(k.transport, ended[k].port)
    /\ Answer(s, "ok")
    /\ leases' = leases \cup {[sid |-> s, key |-> k, port |-> b]}
    /\ UNCHANGED <<conn, sessions, resv, busy, lingering, faults, ended>>

\* The key of a request, its grant and its targets.
LEMMA AskedKey ==
    ASSUME IInv, NEW s \in Sid, link[s].stage \in Leasing, link[s].rpc = "request", NEW k,
           k = KeyOf(link[s].node, Targets[link[s].node][link[s].req])
    PROVE  /\ link[s].node \in Node /\ link[s].req \in DOMAIN Targets[link[s].node]
           /\ k \in Key /\ k.node = link[s].node /\ Grant[k] \subseteq Port
           /\ \A p : Targets[link[s].node][link[s].req].public_port \in {0, p} => Fixed(k, p)
  <1>1. link[s].node \in Node /\ link[s].req \in DOMAIN Targets[link[s].node]
    BY TypeShape DEF IInv, LinkRec, LinksInOrder, LinkOK
  <1>2. k \in Key /\ k.node = link[s].node
    BY <1>1 DEF Key, KeyOf
  <1>3. Grant[k] \subseteq Port
    BY <1>2, IngressAssumption DEF ValidRelay
  <1>4. ASSUME NEW p, Targets[link[s].node][link[s].req].public_port \in {0, p}
        PROVE  Fixed(k, p)
    <2>1. SUFFICES ASSUME NEW n \in Node, NEW i \in DOMAIN Targets[n],
                          k = KeyOf(n, Targets[n][i]), Targets[n][i].public_port # 0
                   PROVE  p = Targets[n][i].public_port
      BY DEF Fixed
    <2>2. n = link[s].node
      BY <1>2, <2>1 DEF KeyOf
    <2>3. i = link[s].req
      BY <1>1, <2>1, <2>2, IngressAssumption DEF ValidConnector
    <2>4. QED BY <1>4, <2>1, <2>2, <2>3
  <1>5. QED BY <1>1, <1>2, <1>3, <1>4

LEMMA HandleLeaseGrants ==
    ASSUME IInv, NEW s \in Sid, HandleLease(s)
    PROVE  \/ /\ \E code \in Code : Answer(s, code)
              /\ link[s].stage \in Leasing
              /\ UNCHANGED <<conn, sessions, leases, resv, busy, lingering, faults, ended>>
           \/ \E k \in Key, b \in Port : Grants(s, k, b)
  <1>1. /\ link[s].stage \in Leasing /\ link[s].rpc = "request"
        /\ UNCHANGED <<conn, sessions, resv, busy, lingering, faults, ended>>
    BY DEF HandleLease, Leasing
  <1>2. PICK n, i : n = link[s].node /\ i = link[s].req
    OBVIOUS
  <1>3. PICK k, requested : k = KeyOf(n, Targets[n][i]) /\ requested = Targets[n][i].public_port
    OBVIOUS
  <1>4. /\ k \in Key /\ Grant[k] \subseteq Port
        /\ \A p : requested \in {0, p} => Fixed(k, p)
    BY <1>1, <1>2, <1>3, AskedKey
  <1>5. \/ /\ UNCHANGED leases
           /\ \E code \in Code : Answer(s, code)
        \/ \E p \in ReservePort(k, requested) : \E b \in BoundPort(k, p, requested # 0) :
              /\ HasPermit(s) /\ Answer(s, "ok")
              /\ leases' = leases \cup {[sid |-> s, key |-> k, port |-> b]}
    BY <1>2, <1>3 DEF HandleLease, Code
  <1>6. ASSUME NEW p \in ReservePort(k, requested), NEW b \in BoundPort(k, p, requested # 0),
               HasPermit(s), Answer(s, "ok"),
               leases' = leases \cup {[sid |-> s, key |-> k, port |-> b]}
        PROVE  \E j \in Key, d \in Port : Grants(s, j, d)
    <2>1. Remembered /\ resv[k].left \in Nat /\ ended[k].age \in Nat /\ Grace \in Nat
      BY <1>4, IngressAssumption DEF IInv, TypeOK, ValidRelay
    <2>2. /\ resv[k].left + ended[k].age = Grace
          /\ Reserved(k) => resv[k].port = ended[k].port /\ resv[k].port \in Port
      BY <1>4, <2>1 DEF Remembered, Reserved
    <2>3. ended[k].age < Grace => Reserved(k) /\ resv[k].port = ended[k].port
      BY <2>1, <2>2 DEF Reserved
    <2>4. Bindable(k.transport, b)
      BY <1>6 DEF BoundPort
    <2>5. CASE requested # 0
      <3>1. p = requested /\ p \in Port /\ b = p
        BY <1>4, <1>6, <2>5 DEF ReservePort, BoundPort
      <3>2. Fixed(k, b)
        BY <1>4, <3>1
      <3>3. ended[k].age < Grace => b = ended[k].port
        <4>1. SUFFICES ASSUME ended[k].age < Grace PROVE b = resv[k].port
          BY <2>3
        <4>2. Fixed(k, resv[k].port)
          BY <1>4, <2>1, <2>3, <4>1 DEF Remembered, Reserved
        <4>3. n \in Node /\ i \in DOMAIN Targets[n]
          BY <1>1, <1>2, <1>3, AskedKey
        <4>4. QED BY <1>3, <2>5, <3>1, <4>2, <4>3 DEF Fixed
      <3>4. Grants(s, k, b)
        BY <1>1, <1>2, <1>3, <1>6, <2>4, <3>1, <3>2, <3>3 DEF Grants
      <3>5. QED BY <1>4, <3>1, <3>4
    <2>6. CASE requested = 0
      <3>1. Fixed(k, b)
        BY <1>4, <2>6
      <3>2. b \in Port
        BY <1>4, <1>6, <2>2, <2>6 DEF ReservePort, BoundPort
      <3>3. ended[k].age < Grace => \/ b = ended[k].port
                                    \/ ~Bindable(k.transport, ended[k].port)
        BY <1>6, <2>3, <2>6 DEF ReservePort, BoundPort
      <3>4. Grants(s, k, b)
        BY <1>1, <1>2, <1>3, <1>6, <2>4, <3>1, <3>2, <3>3 DEF Grants
      <3>5. QED BY <1>4, <3>2, <3>4
    <2>7. QED BY <2>5, <2>6
  <1>7. QED BY <1>1, <1>5, <1>6

\* A granted lease.
LEMMA GrantsInv ==
    ASSUME IInv, NEW s \in Sid, NEW k \in Key, NEW b \in Port, Grants(s, k, b)
    PROVE  IInv'
  <1>1. /\ TypeOK /\ link[s] \in LinkRec /\ LinkOK(link[s]) /\ link[s].stage \in Leasing
        /\ UNCHANGED <<conn, sessions, resv, busy, lingering, faults, ended>>
    BY TypeShape DEF IInv, LinksInOrder, Grants
  <1>2. PICK n \in Node : n = link[s].node /\ k.node = n
    BY AskedKey DEF Grants
  <1>3. PICK l : l = [sid |-> s, key |-> k, port |-> b]
    OBVIOUS
  <1>4. /\ l.sid = s /\ l.key = k /\ l.port = b
        /\ l \in [sid : Sid, key : Key, port : Port]
        /\ leases' = leases \cup {l}
    BY <1>3 DEF Grants
  <1>5. PICK a : a = [link[s] EXCEPT !.rpc = "ok"]
    OBVIOUS
  <1>6. LinkIs(s, a)
    BY <1>5 DEF Grants, Answer, LinkIs
  <1>7. /\ a \in LinkRec /\ a.stage = link[s].stage /\ a.node = n
        /\ a.open = link[s].open /\ a.rpc = "ok" /\ a.req = link[s].req
    BY <1>1, <1>2, <1>5 DEF LinkRec
  <1>8. /\ link' \in [Sid -> LinkRec] /\ link'[s] = a
        /\ \A q \in Sid : q # s => link'[q] = link[q]
    BY <1>1, <1>6, <1>7, LinkEffect
  <1>9. TypeOK'
    <2>1. leases' \subseteq [sid : Sid, key : Key, port : Port]
      BY <1>1, <1>4 DEF TypeOK
    <2>2. QED BY <1>1, <1>8, <2>1 DEF TypeOK, LinkRec
  <1>10. \A q \in Sid : link'[q].node = link[q].node /\ link'[q].stage = link[q].stage
    BY <1>2, <1>7, <1>8
  <1>11. SessionsAgree'
    <2>1. \A m \in Node : sessions[m] # None => sessions[m] \in Sid
      BY <1>1, TypeShape
    <2>2. QED BY <1>1, <1>10, <2>1 DEF IInv, SessionsAgree
  <1>12. LeasesOwned'
    <2>1. IsFiniteSet(leases')
      BY <1>4, FS_AddElement DEF IInv, LeasesOwned
    <2>2. \A j \in leases' : j.sid \in Sid
      BY <1>9 DEF TypeOK
    <2>3. link'[s].stage \in Leasing /\ link'[s].node = k.node
      BY <1>1, <1>2, <1>10
    <2>4. \A j \in leases' : j \in leases \/ (j.sid = s /\ j.key = k)
      BY <1>4
    <2>5. QED BY <1>10, <2>1, <2>2, <2>3, <2>4 DEF IInv, LeasesOwned
  <1>13. LinksInOrder'
    <2>1. LinkOK(a)
      BY <1>1, <1>7 DEF LinkOK, Leasing
    <2>2. QED BY <1>8, <2>1 DEF IInv, LinksInOrder, LinkOK
  <1>14. ConnectorsInOrder'
    <2>1. SUFFICES ASSUME NEW m \in Node, conn[m].stage # "idle", conn[m].sid \in Sid,
                          Follows(m, conn[m], link[conn[m].sid], leases)
                   PROVE  Follows(m, conn[m], link'[conn[m].sid], leases')
      BY <1>1 DEF IInv, ConnectorsInOrder, Follows, LeasedIn
    <2>2. \A i, q : LeasedIn(m, i, q, leases) => LeasedIn(m, i, q, leases')
      BY <1>4 DEF LeasedIn
    <2>3. CASE conn[m].sid = s
      <3>1. Follows(m, conn[m], link[s], leases)
        BY <2>1, <2>3
      <3>2. m = n
        BY <1>2, <3>1 DEF Follows
      <3>3. conn[m].stage = "lease" /\ a.open => LeasedIn(m, conn[m].got + 1, s, leases')
        <4>1. SUFFICES ASSUME conn[m].stage = "lease", a.open
                       PROVE  LeasedIn(m, conn[m].got + 1, s, leases')
          OBVIOUS
        <4>2. link[s].req = conn[m].got + 1
          BY <1>7, <3>1, <4>1 DEF Follows
        <4>3. k = KeyOf(m, Targets[m][conn[m].got + 1])
          BY <1>2, <3>2, <4>2 DEF Grants
        <4>4. QED BY <1>4, <4>3 DEF LeasedIn
      <3>4. Follows(m, conn[m], a, leases')
        BY <1>7, <2>2, <2>3, <3>1, <3>2, <3>3 DEF Follows
      <3>5. QED BY <1>8, <2>3, <3>4
    <2>4. CASE conn[m].sid # s
      <3>1. link'[conn[m].sid] = link[conn[m].sid]
        BY <1>8, <2>1, <2>4
      <3>2. QED BY <2>1, <2>2, <3>1 DEF Follows
    <2>5. QED BY <2>3, <2>4
  <1>15. Remembered'
    <2>1. \A j \in leases' : Fixed(j.key, j.port)
      BY <1>4 DEF IInv, Remembered, Grants
    <2>2. QED BY <1>1, <2>1 DEF IInv, Remembered
  <1>16. \A m \in Node : Cardinality({j \in leases' : j.key.node = m}) <= MaxLeases[m]
    <2>1. ASSUME NEW m \in Node, m # n
          PROVE  {j \in leases' : j.key.node = m} = {j \in leases : j.key.node = m}
      BY <1>2, <1>4, <2>1
    <2>2. \A j \in leases : j.key.node = n <=> j.sid = s
      <3>1. link[s].stage \in Held
        BY <1>1 DEF Leasing, Held
      <3>2. sessions[n] = s
        BY <1>2, <3>1 DEF IInv, SessionsAgree
      <3>3. \A j \in leases : sessions[j.key.node] = j.sid
        BY IInvSound DEF LeasesSound, OneSessionPerNode
      <3>4. \A j \in leases : link[j.sid].node = j.key.node
        BY DEF IInv, LeasesOwned
      <3>5. QED BY <1>2, <3>2, <3>3, <3>4
    <2>3. {j \in leases' : j.key.node = n} = LeasesOf(s) \cup {l}
      BY <1>2, <1>4, <2>2 DEF LeasesOf
    <2>4. IsFiniteSet(LeasesOf(s))
      BY FS_Subset DEF LeasesOf, IInv, LeasesOwned
    <2>5. /\ Cardinality(LeasesOf(s)) \in Nat
          /\ Cardinality(LeasesOf(s) \cup {l}) <= Cardinality(LeasesOf(s)) + 1
      <3>1. Cardinality(LeasesOf(s)) \in Nat
        BY <2>4, FS_CardinalityType
      <3>2. \/ Cardinality(LeasesOf(s) \cup {l}) = Cardinality(LeasesOf(s))
            \/ Cardinality(LeasesOf(s) \cup {l}) = Cardinality(LeasesOf(s)) + 1
        BY <2>4, FS_AddElement
      <3>3. QED BY <3>1, <3>2
    <2>6. Cardinality(LeasesOf(s) \cup {l}) \in Nat
      BY <2>4, FS_AddElement, FS_CardinalityType
    <2>7. Cardinality(LeasesOf(s)) < MaxLeases[n] /\ MaxLeases[n] \in Nat
      BY <1>2, IngressAssumption DEF Grants, HasPermit, ValidRelay
    <2>8. Cardinality(LeasesOf(s) \cup {l}) <= MaxLeases[n]
      BY <2>5, <2>6, <2>7
    <2>9. QED BY <2>1, <2>3, <2>8 DEF IInv, LeaseBound
  <1>17. \A j, m \in leases' : j.key.transport = m.key.transport /\ j.port = m.port => j = m
    <2>1. ASSUME NEW j \in leases, j.key.transport = k.transport, j.port = b PROVE FALSE
      BY <2>1 DEF Grants, Bindable
    <2>2. QED BY <1>4, <2>1 DEF IInv, LeaseBound
  <1>18. LeaseBound'
    <2>1. ASSUME NEW j \in leases' PROVE ~Lingers(j.key.transport, j.port)'
      <3>1. j \in leases \/ (j.key = k /\ j.port = b)
        BY <1>4
      <3>2. ~Lingers(j.key.transport, j.port)
        BY <3>1 DEF IInv, LeaseBound, Grants, Bindable
      <3>3. QED BY <1>1, <3>2 DEF Lingers
    <2>2. QED BY <1>16, <1>17, <2>1 DEF LeaseBound
  <1>19. QED BY <1>9, <1>11, <1>12, <1>13, <1>14, <1>15, <1>18 DEF IInv

LEMMA HandleLeaseInv ==
    ASSUME IInv, NEW s \in Sid, HandleLease(s)
    PROVE  IInv'
  BY HandleLeaseGrants, GrantsInv, RefusalInv

\* A lease task ends: the port is remembered, flows may still hold its socket.
LEMMA EndLeaseInv ==
    ASSUME IInv, NEW l \in leases, EndLease(l)
    PROVE  IInv'
  <1>1. /\ TypeOK /\ l.sid \in Sid /\ l.key \in Key /\ l.port \in Port /\ ~link[l.sid].open
        /\ Grace \in Nat \ {0}
        /\ UNCHANGED <<conn, link, sessions, busy, faults>>
    BY IngressAssumption DEF IInv, TypeOK, EndLease, ValidRelay
  <1>2. PICK k \in Key, p \in Port : k = l.key /\ p = l.port
    BY <1>1
  <1>3. /\ leases' = leases \ {l}
        /\ resv' = [resv EXCEPT ![k] = [port |-> p, left |-> Grace]]
        /\ ended' = [ended EXCEPT ![k] = [port |-> p, age |-> 0]]
        /\ \A g \in lingering' : \/ g \in lingering
                                 \/ /\ g = [key |-> k, port |-> p]
                                    /\ k.transport = "udp"
    BY <1>2 DEF EndLease, RememberPort
  <1>4. /\ resv \in [Key -> [port : Port \cup {0}, left : 0 .. Grace]]
        /\ ended \in [Key -> [port : Port \cup {0}, age : 0 .. Grace]]
    BY <1>1 DEF TypeOK
  <1>5. /\ resv'[k] = [port |-> p, left |-> Grace] /\ ended'[k] = [port |-> p, age |-> 0]
        /\ \A j \in Key : j # k => resv'[j] = resv[j] /\ ended'[j] = ended[j]
    BY <1>3, <1>4
  <1>6. /\ resv' \in [Key -> [port : Port \cup {0}, left : 0 .. Grace]]
        /\ ended' \in [Key -> [port : Port \cup {0}, age : 0 .. Grace]]
    BY <1>1, <1>3, <1>4
  <1>7. TypeOK'
    <2>1. leases' \subseteq [sid : Sid, key : Key, port : Port]
      BY <1>1, <1>3 DEF TypeOK
    <2>2. lingering' \subseteq [key : Key, port : Port]
      BY <1>1, <1>2, <1>3 DEF TypeOK
    <2>3. QED BY <1>1, <1>6, <2>1, <2>2 DEF TypeOK
  <1>8. SessionsAgree' /\ LinksInOrder'
    BY <1>1 DEF IInv, SessionsAgree, LinksInOrder, LinkOK
  <1>9. LeasesOwned'
    <2>1. IsFiniteSet(leases')
      BY <1>3, FS_Subset DEF IInv, LeasesOwned
    <2>2. QED BY <1>1, <1>3, <2>1 DEF IInv, LeasesOwned
  <1>10. ConnectorsInOrder'
    <2>1. SUFFICES ASSUME NEW m \in Node, conn[m].stage # "idle", conn[m].sid \in Sid,
                          Follows(m, conn[m], link[conn[m].sid], leases)
                   PROVE  Follows(m, conn[m], link[conn[m].sid], leases')
      BY <1>1 DEF IInv, ConnectorsInOrder, Follows, LeasedIn
    <2>2. CASE conn[m].sid = l.sid
      <3>1. ~link[conn[m].sid].open
        BY <1>1, <2>2
      <3>2. QED BY <2>1, <3>1 DEF Follows
    <2>3. CASE conn[m].sid # l.sid
      <3>1. \A i : LeasedIn(m, i, conn[m].sid, leases) => LeasedIn(m, i, conn[m].sid, leases')
        BY <1>3, <2>3 DEF LeasedIn
      <3>2. QED BY <2>1, <3>1 DEF Follows
    <2>4. QED BY <2>2, <2>3
  <1>11. Remembered'
    <2>1. Fixed(k, p)
      BY <1>2 DEF IInv, Remembered
    <2>2. resv'[k].left + ended'[k].age = Grace /\ resv'[k].port = p /\ ended'[k].port = p
      BY <1>1, <1>5
    <2>3. \A j \in leases' : Fixed(j.key, j.port)
      BY <1>3 DEF IInv, Remembered
    <2>4. QED BY <1>2, <1>5, <2>1, <2>2, <2>3 DEF IInv, Remembered
  <1>12. LeaseBound'
    <2>1. ASSUME NEW n \in Node PROVE Cardinality({j \in leases' : j.key.node = n}) <= MaxLeases[n]
      <3>1. {j \in leases' : j.key.node = n} \subseteq {j \in leases : j.key.node = n}
        BY <1>3
      <3>2. IsFiniteSet({j \in leases : j.key.node = n})
        BY FS_Subset DEF IInv, LeasesOwned
      <3>3. /\ Cardinality({j \in leases' : j.key.node = n}) <=
                 Cardinality({j \in leases : j.key.node = n})
            /\ IsFiniteSet({j \in leases' : j.key.node = n})
        BY <3>1, <3>2, FS_Subset
      <3>4. /\ Cardinality({j \in leases' : j.key.node = n}) \in Nat
            /\ Cardinality({j \in leases : j.key.node = n}) \in Nat
        BY <3>2, <3>3, FS_CardinalityType
      <3>5. Cardinality({j \in leases : j.key.node = n}) <= MaxLeases[n] /\ MaxLeases[n] \in Nat
        BY IngressAssumption DEF IInv, LeaseBound, ValidRelay
      <3>6. QED BY <3>3, <3>4, <3>5
    <2>2. ASSUME NEW j \in leases' PROVE ~Lingers(j.key.transport, j.port)'
      <3>1. j \in leases /\ j # l /\ ~Lingers(j.key.transport, j.port)
        BY <1>3 DEF IInv, LeaseBound
      <3>2. ~(j.key.transport = k.transport /\ j.port = p)
        BY <1>2, <3>1 DEF IInv, LeaseBound
      <3>3. QED BY <1>3, <3>1, <3>2 DEF Lingers
    <2>3. QED BY <1>3, <2>1, <2>2 DEF IInv, LeaseBound
  <1>13. QED BY <1>7, <1>8, <1>9, <1>10, <1>11, <1>12 DEF IInv

LEMMA DropFlowsInv ==
    ASSUME IInv, NEW g \in lingering, DropFlows(g)
    PROVE  IInv'
  <1>1. /\ UNCHANGED <<conn, link, sessions, leases, resv, busy, faults, ended>>
        /\ lingering' \subseteq lingering
    BY DEF DropFlows
  <1>2. TypeOK' /\ ConnectorsInOrder'
    BY <1>1 DEF IInv, TypeOK, ConnectorsInOrder, Follows, LeasedIn
  <1>3. SessionsAgree' /\ LinksInOrder' /\ LeasesOwned' /\ Remembered'
    BY <1>1 DEF IInv, SessionsAgree, LinksInOrder, LinkOK, LeasesOwned, Remembered
  <1>4. LeaseBound'
    BY <1>1 DEF IInv, LeaseBound, Lingers
  <1>5. QED BY <1>2, <1>3, <1>4 DEF IInv
-------------------------------------------------------------------------------
(* Time and faults *)

\* A tick takes from a reservation what it adds to the age of the lease.
LEMMA TickInv ==
    ASSUME IInv, Tick
    PROVE  IInv'
  <1>1. /\ TypeOK /\ Grace \in Nat \ {0}
        /\ conn' = [n \in Node |-> [conn[n] EXCEPT !.wait = Less(@)]]
        /\ UNCHANGED <<link, sessions, leases, busy, lingering, faults>>
    BY IngressAssumption DEF IInv, Tick, ValidRelay
  <1>2. ASSUME NEW n \in Node
        PROVE  /\ conn'[n] \in ConnRec /\ conn'[n].stage = conn[n].stage
               /\ conn'[n].sid = conn[n].sid /\ conn'[n].got = conn[n].got
    <2>1. conn[n] \in ConnRec /\ ReconnectMax \in Nat
      BY <1>1, TypeShape, IngressAssumption DEF ValidConnector
    <2>2. PICK w : w = Less(conn[n].wait)
      OBVIOUS
    <2>3. w \in 0 .. ReconnectMax
      BY <2>1, <2>2 DEF ConnRec, Less
    <2>4. conn'[n] = [conn[n] EXCEPT !.wait = w]
      BY <1>1, <2>2
    <2>5. QED BY <2>1, <2>3, <2>4 DEF ConnRec
  <1>3. conn' \in [Node -> ConnRec]
    <2>1. conn' = [n \in Node |-> conn'[n]]
      BY <1>1
    <2>2. QED BY <1>2, <2>1
  <1>4. ASSUME NEW k \in Key
        PROVE  /\ resv'[k] \in [port : Port \cup {0}, left : 0 .. Grace]
               /\ ended'[k] \in [port : Port \cup {0}, age : 0 .. Grace]
               /\ resv'[k].left + ended'[k].age = Grace
               /\ resv'[k].left > 0 => /\ resv[k].left > 0
                                       /\ resv'[k].port = resv[k].port
               /\ ended'[k].port = ended[k].port
    <2>1. /\ resv[k] \in [port : Port \cup {0}, left : 0 .. Grace]
          /\ ended[k] \in [port : Port \cup {0}, age : 0 .. Grace]
          /\ resv[k].left + ended[k].age = Grace
      BY <1>1 DEF TypeOK, IInv, Remembered
    <2>0. PICK left \in 0 .. Grace, age \in 0 .. Grace :
             left = resv[k].left /\ age = ended[k].age /\ left + age = Grace
      BY <2>1
    <2>2. PICK a : a = IF age < Grace THEN age + 1 ELSE age
      OBVIOUS
    <2>3. ended'[k] = [ended[k] EXCEPT !.age = a]
      BY <2>0, <2>2 DEF Tick
    <2>4. a \in 0 .. Grace
      BY <1>1, <2>0, <2>2
    <2>5. /\ ended'[k] \in [port : Port \cup {0}, age : 0 .. Grace]
          /\ ended'[k].age = a /\ ended'[k].port = ended[k].port
      BY <2>1, <2>3, <2>4
    <2>6. CASE resv[k].left > 1
      <3>1. resv'[k] = [port |-> resv[k].port, left |-> resv[k].left - 1]
        BY <2>6 DEF Tick
      <3>2. left - 1 \in 0 .. Grace /\ (left - 1) + a = Grace
        BY <1>1, <2>0, <2>2, <2>6
      <3>3. resv'[k] = [port |-> resv[k].port, left |-> left - 1]
        BY <2>0, <3>1
      <3>4. QED BY <2>0, <2>1, <2>5, <2>6, <3>2, <3>3
    <2>7. CASE ~(resv[k].left > 1)
      <3>1. resv'[k] = [port |-> 0, left |-> 0]
        BY <2>7 DEF Tick, NoPort
      <3>2. a = Grace
        BY <1>1, <2>0, <2>2, <2>7
      <3>3. QED BY <1>1, <2>5, <3>1, <3>2
    <2>8. QED BY <2>6, <2>7
  <1>5. resv' \in [Key -> [port : Port \cup {0}, left : 0 .. Grace]]
    <2>1. resv' = [k \in Key |-> resv'[k]]
      BY DEF Tick
    <2>2. QED BY <1>4, <2>1
  <1>6. ended' \in [Key -> [port : Port \cup {0}, age : 0 .. Grace]]
    <2>1. ended' = [k \in Key |-> ended'[k]]
      BY DEF Tick
    <2>2. QED BY <1>4, <2>1
  <1>7. TypeOK'
    BY <1>1, <1>3, <1>5, <1>6 DEF TypeOK, ConnRec
  <1>8. SessionsAgree' /\ LinksInOrder' /\ LeasesOwned' /\ LeaseBound'
    BY <1>1 DEF IInv, SessionsAgree, LinksInOrder, LinkOK, LeasesOwned, LeaseBound, Lingers
  <1>9. ConnectorsInOrder'
    BY <1>1, <1>2 DEF IInv, ConnectorsInOrder, Follows, LeasedIn
  <1>10. Remembered'
    BY <1>1, <1>4 DEF IInv, Remembered
  <1>11. QED BY <1>7, <1>8, <1>9, <1>10 DEF IInv

LEMMA PortsInv ==
    ASSUME IInv, Vacate \/ (\E t \in Transport, p \in Port : Occupy(t, p))
    PROVE  IInv'
  <1>1. UNCHANGED <<conn, link, sessions, leases, resv, lingering, ended>>
    BY DEF Vacate, Occupy
  <1>2. busy' \subseteq Transport \X Port /\ faults' \in 0 .. MaxFaults
    BY IngressAssumption DEF Vacate, Occupy, Fault, IInv, TypeOK
  <1>3. TypeOK'
    BY <1>1, <1>2 DEF IInv, TypeOK
  <1>4. SessionsAgree' /\ LinksInOrder' /\ LeasesOwned' /\ LeaseBound' /\ Remembered'
    BY <1>1 DEF IInv, SessionsAgree, LinksInOrder, LinkOK, LeasesOwned, LeaseBound, Remembered,
                Lingers
  <1>5. ConnectorsInOrder'
    BY <1>1 DEF IInv, ConnectorsInOrder, Follows, LeasedIn
  <1>6. QED BY <1>3, <1>4, <1>5 DEF IInv

\* The relay forgets everything; the connectors find their connections closed.
LEMMA RelayRestartInv ==
    ASSUME IInv, RelayRestart
    PROVE  IInv'
  <1>1. /\ TypeOK /\ Grace \in Nat \ {0} /\ faults' \in 0 .. MaxFaults
        /\ UNCHANGED <<conn, busy>> /\ leases' = {} /\ lingering' = {}
        /\ sessions' = [n \in Node |-> None]
    <2>1. TypeOK /\ faults \in 0 .. MaxFaults
      BY DEF IInv, TypeOK
    <2>2. faults' \in 0 .. MaxFaults
      <3>1. MaxFaults \in Nat
        BY IngressAssumption
      <3>2. faults < MaxFaults /\ faults' = faults + 1
        BY DEF RelayRestart, Fault
      <3>3. QED BY <2>1, <3>1, <3>2
    <2>3. Grace \in Nat \ {0}
      BY IngressAssumption DEF ValidRelay
    <2>4. QED BY <2>1, <2>2, <2>3 DEF RelayRestart
  <1>2. ASSUME NEW s \in Sid
        PROVE  /\ link'[s] \in LinkRec /\ link'[s].stage = "free" /\ link'[s].open = FALSE
               /\ link'[s].node = link[s].node
    <2>1. link[s] \in LinkRec /\ link'[s] = [link[s] EXCEPT !.stage = "free", !.open = FALSE]
      BY <1>1, TypeShape DEF RelayRestart
    <2>2. QED BY <2>1 DEF LinkRec
  <1>3. link' \in [Sid -> LinkRec]
    <2>1. link' = [s \in Sid |-> link'[s]]
      BY DEF RelayRestart
    <2>2. QED BY <1>2, <2>1
  <1>4. /\ resv' \in [Key -> [port : Port \cup {0}, left : 0 .. Grace]]
        /\ ended' \in [Key -> [port : Port \cup {0}, age : 0 .. Grace]]
        /\ \A k \in Key : resv'[k].left = 0 /\ ended'[k].age = Grace
    <2>1. /\ resv' = [k \in Key |-> [port |-> 0, left |-> 0]]
          /\ ended' = [k \in Key |-> [port |-> 0, age |-> Grace]]
      BY DEF RelayRestart, NoPort
    <2>2. 0 \in 0 .. Grace /\ Grace \in 0 .. Grace
      BY <1>1
    <2>3. QED BY <2>1, <2>2
  <1>5. TypeOK'
    BY <1>1, <1>3, <1>4 DEF TypeOK, LinkRec
  <1>6. SessionsAgree' /\ LinksInOrder'
    BY <1>1, <1>2 DEF SessionsAgree, LinksInOrder, LinkOK, Held, Leasing
  <1>7. LeasesOwned'
    BY <1>1, FS_EmptySet DEF LeasesOwned
  <1>8. ConnectorsInOrder'
    BY <1>1, <1>2 DEF IInv, ConnectorsInOrder, Follows
  <1>9. Remembered'
    BY <1>1, <1>4 DEF Remembered
  <1>10. LeaseBound'
    <2>1. \A n \in Node : {l \in leases' : l.key.node = n} = {}
      BY <1>1
    <2>2. Cardinality({}) = 0
      BY FS_EmptySet
    <2>3. \A n \in Node : 0 <= MaxLeases[n]
      BY IngressAssumption DEF ValidRelay
    <2>4. QED BY <1>1, <2>1, <2>2, <2>3 DEF LeaseBound
  <1>11. QED BY <1>5, <1>6, <1>7, <1>8, <1>9, <1>10 DEF IInv
-------------------------------------------------------------------------------

LEMMA IInvNext == IInv /\ [Next]_vars => IInv'
  <1>1. SUFFICES ASSUME IInv, [Next]_vars PROVE IInv'
    OBVIOUS
  <1>2. ASSUME NEW s \in Sid, Relay(s) \/ Lose(s) PROVE IInv'
    BY <1>1, <1>2, RegisterInv, RelayMoves, EndOfTaskInv, HandleLeaseInv DEF Relay
  <1>3. CASE UNCHANGED vars
    <2>1. UNCHANGED <<conn, link, sessions, leases, resv, busy, lingering, faults, ended>>
      BY <1>3 DEF vars
    <2>2. TypeOK' /\ ConnectorsInOrder'
      BY <1>1, <2>1 DEF IInv, TypeOK, ConnectorsInOrder, Follows, LeasedIn
    <2>3. SessionsAgree' /\ LinksInOrder' /\ LeasesOwned' /\ LeaseBound' /\ Remembered'
      BY <1>1, <2>1 DEF IInv, SessionsAgree, LinksInOrder, LinkOK, LeasesOwned, LeaseBound,
                        Remembered, Lingers
    <2>4. QED BY <2>2, <2>3 DEF IInv
  <1>4. CASE Next
    BY <1>1, <1>2, <1>4, ConnectorInv, EndLeaseInv, DropFlowsInv, TickInv, PortsInv, RelayRestartInv DEF Next
  <1>5. QED BY <1>1, <1>3, <1>4

\* Whatever connections are lost, however late each side notices and whether a lease
\* task ends by itself or is aborted, a lease only lives under the registered session
\* of its node, a connector that serves over a living connection has every lease it
\* was configured with, no node has more than it may, and no lease shares its public
\* socket with another or with what an ended one left (handle_connection, handle_lease).
THEOREM LeasesStaySound == Spec => []LeasesSound
  <1>1. QED BY IInvInit, IInvNext, IInvSound, PTL DEF Spec

\* A lease that comes back within the grace gets the port it had, unless that port
\* cannot be bound because another program or the flows the lost lease left behind
\* hold it: no other node is given it meanwhile (reserve_port, remember_port).
THEOREM PortsAreRestored == Spec => PortRestored
  <1> DEFINE Restores == \A l \in leases' \ leases :
                            ended[l.key].age < Grace =>
                                \/ l.port = ended[l.key].port
                                \/ ~Bindable(l.key.transport, ended[l.key].port)
  <1>1. IInv /\ [Next]_vars => [Restores]_vars
    <2>1. SUFFICES ASSUME IInv, Next PROVE Restores
      OBVIOUS
    <2>2. ASSUME leases' \subseteq leases PROVE Restores
      BY <2>2
    <2>3. ASSUME NEW s \in Sid, HandleLease(s) PROVE Restores
      <3>1. CASE UNCHANGED leases
        BY <2>2, <3>1
      <3>2. ASSUME NEW k \in Key, NEW b \in Port, Grants(s, k, b) PROVE Restores
        <4>1. ASSUME NEW l \in leases' \ leases, ended[l.key].age < Grace
              PROVE  \/ l.port = ended[l.key].port
                     \/ ~Bindable(l.key.transport, ended[l.key].port)
          <5>1. leases' = leases \cup {[sid |-> s, key |-> k, port |-> b]}
            BY <3>2 DEF Grants
          <5>2. l = [sid |-> s, key |-> k, port |-> b]
            BY <4>1, <5>1
          <5>3. l.key = k /\ l.port = b
            BY <5>2
          <5>4. QED BY <3>2, <4>1, <5>3 DEF Grants
        <4>2. QED BY <4>1
      <3>3. QED BY <2>1, <2>3, <3>1, <3>2, HandleLeaseGrants
    <2>4. ASSUME NEW s \in Sid, Relay(s) \/ Lose(s), ~HandleLease(s) PROVE UNCHANGED leases
      BY <2>4 DEF Relay, Register, Ack, AckFails, Abandon, RelayNotices, AbortRequest, Leave,
                  LeaseAckFails, Lose
    <2>5. ASSUME NEW n \in Node, Connector(n) PROVE UNCHANGED leases
      BY <2>5 DEF Connector, Dial, ReadReply, Refused, ConnectorNotices
    <2>6. ASSUME NEW l \in leases, EndLease(l) PROVE leases' \subseteq leases
      BY <2>6 DEF EndLease
    <2>7. Tick \/ Vacate \/ RelayRestart => leases' \subseteq leases
      BY DEF Tick, Vacate, RelayRestart
    <2>8. ASSUME NEW t \in Transport, NEW p \in Port, Occupy(t, p) PROVE UNCHANGED leases
      BY <2>8 DEF Occupy
    <2>9. ASSUME NEW g \in lingering, DropFlows(g) PROVE UNCHANGED leases
      BY <2>9 DEF DropFlows
    <2>10. QED BY <2>1, <2>2, <2>3, <2>4, <2>5, <2>6, <2>7, <2>8, <2>9 DEF Next
  <1>2. QED BY <1>1, IInvInit, IInvNext, PTL DEF Spec, PortRestored
===============================================================================
