------------------------- MODULE ReverseTunnel_proofs -------------------------
(***************************************************************************)
(* Proofs about reverse tunnels: the registries of the edges and the three *)
(* layers of permits, for every number of edges, connections and tunnels,  *)
(* every pair of capacities and every duplicate policy.                    *)
(***************************************************************************)
EXTENDS ReverseTunnel, FiniteSetTheorems, TLAPS

ConnRec == [edge : Edge, open : BOOLEAN,
            stage : {"free", "new", "acking", "registered"},
            reply : {"none", "ok", "duplicate"}]
StreamRec == [c : Conn \cup {None}, edge : Edge \cup {None},
              e : {"free", "opening", "asked", "open", "gone"},
              h : {"none", "pending", "serving", "spliced", "held", "closing", "done"},
              reply : {"none", "ok", "err"}]

EdgeHolds == {"opening", "asked", "open"}
HopHolds  == {"serving", "spliced", "held", "closing"}

\* The hop's session loop is on a connection of its own edge, and serves only one
\* that was acknowledged.
HopOnItsConn ==
    \A e \in Edge :
        /\ hop[e].stage # "idle" => hop[e].c \in Conn /\ conn[hop[e].c].edge = e
        /\ hop[e].stage = "serve" => conn[hop[e].c].reply = "ok"

\* A connection that has not registered yet has no reply and no tunnels; one that
\* lives and was acknowledged is registered; and the one registered connection
\* that lives is the one in the registry, since a replaced one is closed.
LiveIsListed ==
    \A c \in Conn :
        /\ conn[c].stage = "new" =>
              conn[c].reply = "none" /\ \A s \in Stream : stream[s].c # c
        /\ conn[c].open /\ conn[c].reply = "ok" => conn[c].stage = "registered"
        /\ conn[c].open /\ conn[c].stage \in {"acking", "registered"} =>
              registry[conn[c].edge] = c

\* A tunnel belongs to an edge from its lookup on, to a connection as long as the
\* edge's call lasts, and the hop knows of it from the request on.
TunnelOrder ==
    \A s \in Stream :
        /\ stream[s].e # "free" => stream[s].edge \in Edge
        /\ stream[s].e \in EdgeHolds => stream[s].c \in Conn
        /\ stream[s].e \in {"free", "opening"} => stream[s].h = "none"

IInv == SessionsSound /\ HopOnItsConn /\ LiveIsListed /\ TunnelOrder
-------------------------------------------------------------------------------
(* Counting *)

LEMMA OneMore ==
    ASSUME NEW A, IsFiniteSet(A), NEW x, x \notin A, NEW B, B = A \cup {x}
    PROVE  Cardinality(A) \in Nat /\ Cardinality(B) = Cardinality(A) + 1
  BY FS_AddElement, FS_CardinalityType

LEMMA OneLess ==
    ASSUME NEW A, IsFiniteSet(A), NEW x \in A, NEW B, B = A \ {x}
    PROVE  Cardinality(B) \in Nat /\ Cardinality(A) = Cardinality(B) + 1
  <1>1. IsFiniteSet(B) /\ Cardinality(B) = Cardinality(A) - 1 /\ Cardinality(A) \in Nat
    BY FS_RemoveElement, FS_CardinalityType
  <1>2. Cardinality(B) \in Nat
    BY <1>1, FS_CardinalityType
  <1>3. QED BY <1>1, <1>2

LEMMA HeldFinite ==
    /\ \A c \in Conn : IsFiniteSet(HeldByEdge(c))
    /\ \A e \in Edge : IsFiniteSet(HeldFor(e))
    /\ IsFiniteSet(HeldByHop)
  <1>1. \A T \in SUBSET Stream : IsFiniteSet(T)
    BY TunnelAssumption, FS_Subset
  <1>2. QED BY <1>1 DEF HeldByEdge, HeldFor, HeldByHop

-------------------------------------------------------------------------------
(* The steps *)

LEMMA InitInv == Init => IInv
  <1> SUFFICES ASSUME Init PROVE IInv
    OBVIOUS
  <1>1. TypeOK
    <2>1. (CHOOSE e \in Edge : TRUE) \in Edge
      BY TunnelAssumption
    <2>2. NoStream \in StreamRec
      BY DEF NoStream, StreamRec
    <2>3. conn \in [Conn -> ConnRec] /\ stream \in [Stream -> StreamRec]
      BY <2>1, <2>2 DEF Init, ConnRec
    <2>4. QED BY <2>3, TunnelAssumption DEF Init, TypeOK, ConnRec, StreamRec
  <1>2. /\ \A c \in Conn : HeldByEdge(c) = {}
        /\ \A e \in Edge : HeldFor(e) = {}
        /\ HeldByHop = {}
    BY DEF Init, NoStream, HeldByEdge, HeldFor, HeldByHop
  <1>3. PermitsBalance
    <2>1. Cardinality({}) = 0
      BY FS_EmptySet
    <2>2. /\ \A c \in Conn : permits[c] = EdgeCap
          /\ \A e \in Edge : per_edge[e] = PerEdge
          /\ global = Global
      BY DEF Init
    <2>3. \A n \in Nat : n + 0 = n
      OBVIOUS
    <2>4. QED BY <1>2, <2>1, <2>2, <2>3, TunnelAssumption DEF PermitsBalance
  <1>4. RegistryOwned
    BY DEF Init, RegistryOwned
  <1>5. HopOnItsConn /\ LiveIsListed
    BY DEF Init, HopOnItsConn, LiveIsListed
  <1>6. TunnelOrder
    BY DEF Init, TunnelOrder, NoStream, EdgeHolds
  <1>7. QED BY <1>1, <1>3, <1>4, <1>5, <1>6 DEF IInv, SessionsSound

\* The permits stay balanced while tunnels and counters rest.
LEMMA BalanceKept ==
    ASSUME IInv, UNCHANGED <<permits, per_edge, global, stream>>
    PROVE  PermitsBalance'
  <1>1. \A c \in Conn : HeldByEdge(c)' = HeldByEdge(c)
    BY DEF HeldByEdge
  <1>2. HeldByHop' = HeldByHop
    BY DEF HeldByHop
  <1>3. \A e \in Edge : HeldFor(e)' = HeldFor(e)
    BY <1>2 DEF HeldFor, HeldByHop
  <1>4. QED BY <1>1, <1>2, <1>3 DEF IInv, SessionsSound, PermitsBalance

\* The name of a connection nobody uses any more is taken: what it carried keeps its
\* permits of the hop, and has none of the edge.
LEMMA DialInv ==
    ASSUME IInv, NEW e \in Edge, Dial(e) PROVE IInv'
  <1>1. PICK c \in Conn :
        /\ Unused(c) /\ hop[e].stage = "idle"
        /\ conn' = [conn EXCEPT ![c] = [edge |-> e, open |-> TRUE, stage |-> "new",
                                        reply |-> "none"]]
        /\ hop' = [hop EXCEPT ![e] = [stage |-> "register", c |-> c]]
        /\ stream' = [s \in Stream |-> IF stream[s].c = c THEN [stream[s] EXCEPT !.c = None]
                                       ELSE stream[s]]
        /\ UNCHANGED <<registry, permits, per_edge, global, lost>>
    BY DEF Dial
  <1>2. TypeOK /\ conn \in [Conn -> ConnRec] /\ stream \in [Stream -> StreamRec]
    BY DEF IInv, SessionsSound, TypeOK, ConnRec, StreamRec
  <1>3. /\ conn[c].stage = "free" /\ \A f \in Edge : hop[f].c # c
        /\ \A s \in Stream : stream[s].c = c => stream[s].e = "gone"
        /\ c # None
    BY <1>1, TunnelAssumption DEF Unused
  <1>4. /\ conn'[c] = [edge |-> e, open |-> TRUE, stage |-> "new", reply |-> "none"]
        /\ \A d \in Conn : d # c => conn'[d] = conn[d]
        /\ hop'[e] = [stage |-> "register", c |-> c]
        /\ \A f \in Edge : f # e => hop'[f] = hop[f]
    BY <1>1, <1>2 DEF TypeOK
  <1>5. /\ stream' \in [Stream -> StreamRec]
        /\ \A s \in Stream :
              /\ stream'[s].edge = stream[s].edge /\ stream'[s].e = stream[s].e
              /\ stream'[s].h = stream[s].h
              /\ stream'[s].c = IF stream[s].c = c THEN None ELSE stream[s].c
    <2>1. ASSUME NEW s \in Stream
          PROVE  /\ stream'[s] \in StreamRec
                 /\ stream'[s].edge = stream[s].edge /\ stream'[s].e = stream[s].e
                 /\ stream'[s].h = stream[s].h
                 /\ stream'[s].c = IF stream[s].c = c THEN None ELSE stream[s].c
      <3>1. stream[s] \in StreamRec
        BY <1>2
      <3>2. stream'[s] = IF stream[s].c = c THEN [stream[s] EXCEPT !.c = None] ELSE stream[s]
        BY <1>1
      <3>3. QED BY <3>1, <3>2 DEF StreamRec
    <2>2. QED BY <1>1, <2>1
  <1>6. TypeOK'
    <2>1. conn' \in [Conn -> ConnRec]
      BY <1>1, <1>2 DEF ConnRec
    <2>2. QED BY <1>1, <1>2, <1>5, <2>1 DEF TypeOK, ConnRec, StreamRec
  <1>7. \A f \in Edge : registry[f] # c
    BY <1>3, TunnelAssumption DEF IInv, SessionsSound, RegistryOwned
  <1>8. RegistryOwned'
    BY <1>1, <1>2, <1>3, <1>4, <1>7 DEF IInv, SessionsSound, TypeOK, RegistryOwned, HopOnItsConn
  <1>9. PermitsBalance'
    <2>1. \A d \in Conn : HeldByEdge(d)' = HeldByEdge(d)
      BY <1>3, <1>5, TunnelAssumption DEF HeldByEdge
    <2>2. HeldByHop' = HeldByHop
      BY <1>5 DEF HeldByHop
    <2>3. \A f \in Edge : HeldFor(f)' = HeldFor(f)
      BY <1>5, <2>2 DEF HeldFor, HeldByHop
    <2>4. QED BY <1>1, <2>1, <2>2, <2>3 DEF IInv, SessionsSound, PermitsBalance
  <1>10. HopOnItsConn'
    BY <1>1, <1>2, <1>3, <1>4 DEF IInv, HopOnItsConn
  <1>11. LiveIsListed'
    BY <1>1, <1>3, <1>4, <1>5, TunnelAssumption DEF IInv, LiveIsListed
  <1>12. TunnelOrder'
    BY <1>3, <1>5 DEF IInv, TunnelOrder, EdgeHolds
  <1>13. QED BY <1>6, <1>8, <1>9, <1>10, <1>11, <1>12 DEF IInv, SessionsSound

LEMMA RegisteredInv ==
    ASSUME IInv, NEW e \in Edge, Registered(e) PROVE IInv'
  <1>1. /\ hop[e].stage = "register"
        /\ conn[hop[e].c].open /\ conn[hop[e].c].reply = "ok"
        /\ hop' = [hop EXCEPT ![e].stage = "serve"]
        /\ UNCHANGED <<registry, conn, permits, per_edge, global, stream, lost>>
    BY DEF Registered
  <1>2. TypeOK
    BY DEF IInv, SessionsSound
  <1>3. /\ hop'[e].stage = "serve" /\ hop'[e].c = hop[e].c
        /\ \A f \in Edge : f # e => hop'[f] = hop[f]
    BY <1>1, <1>2 DEF TypeOK
  <1>4. hop[e].c \in Conn /\ conn[hop[e].c].edge = e
    BY <1>1 DEF IInv, HopOnItsConn
  <1>5. TypeOK'
    BY <1>1, <1>2 DEF TypeOK
  <1>6. registry[e] = hop[e].c
    BY <1>1, <1>4 DEF IInv, LiveIsListed
  <1>7. RegistryOwned'
    BY <1>1, <1>3, <1>6 DEF IInv, SessionsSound, RegistryOwned
  <1>8. PermitsBalance'
    BY <1>1, BalanceKept
  <1>9. HopOnItsConn' /\ LiveIsListed' /\ TunnelOrder'
    BY <1>1, <1>3, <1>4 DEF IInv, HopOnItsConn, LiveIsListed, TunnelOrder
  <1>10. QED BY <1>5, <1>7, <1>8, <1>9 DEF IInv, SessionsSound

\* A connection is closed, and the hop may leave it.
LEMMA ClosedInv ==
    ASSUME IInv, NEW c \in Conn, conn' = [conn EXCEPT ![c].open = FALSE],
           \/ UNCHANGED hop
           \/ \E e \in Edge : hop' = [hop EXCEPT ![e] = [stage |-> "idle", c |-> None]],
           lost' \in 0 .. MaxLost,
           UNCHANGED <<registry, permits, per_edge, global, stream>>
    PROVE  IInv'
  <1>1. TypeOK /\ conn \in [Conn -> ConnRec]
    BY DEF IInv, SessionsSound, TypeOK, ConnRec
  <1>2. /\ \A d \in Conn : /\ conn'[d].edge = conn[d].edge /\ conn'[d].stage = conn[d].stage
                           /\ conn'[d].reply = conn[d].reply
                           /\ conn'[d].open => conn[d].open
        /\ conn' \in [Conn -> ConnRec]
    <2>0. conn[c] \in ConnRec
      BY <1>1
    <2>1. PICK k : k = [conn[c] EXCEPT !.open = FALSE]
      OBVIOUS
    <2>2. /\ k.edge = conn[c].edge /\ k.stage = conn[c].stage
          /\ k.reply = conn[c].reply /\ k.open = FALSE /\ k \in ConnRec
      BY <2>0, <2>1 DEF ConnRec
    <2>3. conn' = [conn EXCEPT ![c] = k]
      BY <1>1, <2>1
    <2>4. conn' \in [Conn -> ConnRec] /\ conn'[c] = k /\ \A d \in Conn : d # c => conn'[d] = conn[d]
      BY <1>1, <2>2, <2>3
    <2>5. QED BY <2>2, <2>4
  <1>3. /\ \A e \in Edge : hop'[e] = hop[e] \/ hop'[e] = [stage |-> "idle", c |-> None]
        /\ hop' \in [Edge -> [stage : {"idle", "register", "serve"}, c : Conn \cup {None}]]
    <2>1. CASE UNCHANGED hop
      BY <1>1, <2>1 DEF TypeOK
    <2>2. ASSUME NEW e \in Edge, hop' = [hop EXCEPT ![e] = [stage |-> "idle", c |-> None]]
          PROVE  <1>3!1 /\ <1>3!2
      BY <1>1, <2>2 DEF TypeOK
    <2>3. QED BY <2>1, <2>2
  <1>4. TypeOK'
    BY <1>1, <1>2, <1>3 DEF TypeOK, ConnRec
  <1>5. PermitsBalance'
    BY <1>2, BalanceKept
  <1>6. RegistryOwned'
    BY <1>1, <1>2, <1>3 DEF IInv, SessionsSound, TypeOK, RegistryOwned, HopOnItsConn
  <1>7. HopOnItsConn' /\ LiveIsListed' /\ TunnelOrder'
    BY <1>2, <1>3 DEF IInv, HopOnItsConn, LiveIsListed, TunnelOrder
  <1>8. QED BY <1>4, <1>5, <1>6, <1>7 DEF IInv, SessionsSound
LEMMA RegisterInv ==
    ASSUME IInv, NEW c \in Conn, Register(c) PROVE IInv'
  <1> DEFINE e == conn[c].edge
             old == registry[e]
  <1>0. TypeOK /\ conn \in [Conn -> ConnRec] /\ e \in Edge
    BY DEF IInv, SessionsSound, TypeOK, ConnRec
  <1>1. /\ conn[c].stage = "new" /\ conn[c].reply = "none"
        /\ \A s \in Stream : stream[s].c # c
        /\ UNCHANGED <<hop, per_edge, global, stream, lost>>
    BY DEF Register, IInv, LiveIsListed
  <1>2. \A f \in Edge : registry[f] # c
    BY <1>1, TunnelAssumption DEF IInv, SessionsSound, RegistryOwned
  <1>3. CASE /\ conn' = [conn EXCEPT ![c].stage = "free", ![c].reply = "duplicate"]
             /\ UNCHANGED <<registry, permits>>
    <2>1. /\ conn'[c].edge = e /\ conn'[c].open = conn[c].open
          /\ conn'[c].stage = "free" /\ conn'[c].reply = "duplicate"
          /\ \A d \in Conn : d # c => conn'[d] = conn[d]
          /\ conn' \in [Conn -> ConnRec]
      BY <1>0, <1>3 DEF ConnRec
    <2>2. TypeOK'
      BY <1>0, <1>1, <1>3, <2>1 DEF TypeOK, ConnRec
    <2>3. \A f \in Edge : hop[f].stage = "serve" => hop[f].c # c
      BY <1>1 DEF IInv, HopOnItsConn
    <2>4. RegistryOwned'
      BY <1>0, <1>1, <1>2, <1>3, <2>1, <2>3
         DEF IInv, SessionsSound, TypeOK, RegistryOwned, HopOnItsConn
    <2>5. PermitsBalance'
      BY <1>1, <1>3, <2>1, BalanceKept
    <2>6. HopOnItsConn' /\ LiveIsListed' /\ TunnelOrder'
      BY <1>1, <1>3, <2>1, <2>3 DEF IInv, HopOnItsConn, LiveIsListed, TunnelOrder
    <2>7. QED BY <2>2, <2>4, <2>5, <2>6 DEF IInv, SessionsSound
  <1>4. CASE /\ conn' = [d \in Conn |->
                            IF d = c THEN [conn[c] EXCEPT !.stage = "acking"]
                            ELSE IF d = old THEN [conn[d] EXCEPT !.open = FALSE]
                            ELSE conn[d]]
             /\ registry' = [registry EXCEPT ![e] = c]
             /\ permits' = [permits EXCEPT ![c] = EdgeCap]
    <2>1. /\ conn'[c].edge = e /\ conn'[c].stage = "acking" /\ conn'[c].reply = "none"
          /\ \A d \in Conn : /\ conn'[d].edge = conn[d].edge
                             /\ conn'[d].reply = conn[d].reply
                             /\ d # c => conn'[d].stage = conn[d].stage
                             /\ conn'[d].open => conn[d].open
          /\ old \in Conn => ~conn'[old].open
          /\ conn' \in [Conn -> ConnRec]
      BY <1>0, <1>1, <1>2, <1>4 DEF ConnRec
    <2>2. /\ registry'[e] = c /\ \A f \in Edge : f # e => registry'[f] = registry[f]
          /\ registry' \in [Edge -> Conn \cup {None}]
      BY <1>0, <1>4 DEF TypeOK
    <2>3. HeldByEdge(c) = {}
      BY <1>1 DEF HeldByEdge
    <2>4. permits[c] = EdgeCap
      <3>1. permits[c] + Cardinality(HeldByEdge(c)) = EdgeCap /\ permits[c] \in Int
        BY <1>0 DEF IInv, SessionsSound, PermitsBalance, TypeOK
      <3>2. Cardinality({}) = 0
        BY FS_EmptySet
      <3>3. QED BY <2>3, <3>1, <3>2
    <2>5. permits' = permits
      BY <1>0, <1>4, <2>4 DEF TypeOK
    <2>6. TypeOK'
      BY <1>0, <1>1, <2>1, <2>2, <2>5 DEF TypeOK, ConnRec
    <2>7. PermitsBalance'
      BY <1>1, <2>1, <2>5, BalanceKept
    <2>8. \A f \in Edge : hop[f].stage = "serve" => hop[f].c # c /\ hop[f].c \in Conn
      BY <1>1 DEF IInv, HopOnItsConn
    <2>9. RegistryOwned'
      <3>1. ASSUME NEW f \in Edge, hop'[f].stage = "serve", conn'[hop'[f].c].open
            PROVE  registry'[f] = hop'[f].c
        <4>1. registry[f] = hop[f].c
          BY <1>1, <2>1, <2>8, <3>1 DEF IInv, SessionsSound, RegistryOwned
        <4>2. f # e
          BY <1>1, <2>1, <2>8, <3>1, <4>1
        <4>3. QED BY <1>1, <2>2, <4>1, <4>2
      <3>2. ASSUME NEW f \in Edge, registry'[f] # None
            PROVE  /\ conn'[registry'[f]].edge = f
                   /\ conn'[registry'[f]].stage \in {"acking", "registered"}
        BY <1>0, <2>1, <2>2, <3>2 DEF TypeOK, IInv, SessionsSound, RegistryOwned
      <3>3. QED BY <3>1, <3>2 DEF RegistryOwned
    <2>10. HopOnItsConn' /\ TunnelOrder'
      BY <1>1, <2>1, <2>8 DEF IInv, HopOnItsConn, TunnelOrder
    <2>11. LiveIsListed'
      BY <1>0, <1>1, <2>1, <2>2 DEF IInv, LiveIsListed, ConnRec
    <2>12. QED BY <2>6, <2>7, <2>9, <2>10, <2>11 DEF IInv, SessionsSound
  <1>5. QED BY <1>3, <1>4 DEF Register

LEMMA AckInv ==
    ASSUME IInv, NEW c \in Conn, Ack(c) PROVE IInv'
  <1>1. /\ conn[c].stage = "acking"
        /\ conn' = [conn EXCEPT ![c].stage = "registered", ![c].reply = "ok"]
        /\ UNCHANGED <<registry, permits, hop, per_edge, global, stream, lost>>
    BY DEF Ack
  <1>2. TypeOK /\ conn \in [Conn -> ConnRec]
    BY DEF IInv, SessionsSound, TypeOK, ConnRec
  <1>3. /\ conn'[c].edge = conn[c].edge /\ conn'[c].open = conn[c].open
        /\ conn'[c].stage = "registered" /\ conn'[c].reply = "ok"
        /\ \A d \in Conn : d # c => conn'[d] = conn[d]
        /\ conn' \in [Conn -> ConnRec]
    BY <1>1, <1>2 DEF ConnRec
  <1>4. TypeOK'
    BY <1>1, <1>2, <1>3 DEF TypeOK, ConnRec
  <1>5. RegistryOwned'
    BY <1>1, <1>2, <1>3 DEF IInv, SessionsSound, TypeOK, RegistryOwned, HopOnItsConn
  <1>6. PermitsBalance'
    BY <1>1, <1>3, BalanceKept
  <1>7. HopOnItsConn' /\ LiveIsListed' /\ TunnelOrder'
    BY <1>1, <1>3 DEF IInv, HopOnItsConn, LiveIsListed, TunnelOrder
  <1>8. QED BY <1>4, <1>5, <1>6, <1>7 DEF IInv, SessionsSound

\* The handler that ends takes its own entry with it and no other's.
LEMMA HandlerEndsInv ==
    ASSUME IInv, NEW c \in Conn, HandlerEnds(c) PROVE IInv'
  <1>1. /\ conn[c].stage # "free" /\ ~conn[c].open
        /\ registry' = [e \in Edge |-> IF e = conn[c].edge /\ registry[e] = c THEN None
                                       ELSE registry[e]]
        /\ conn' = [conn EXCEPT ![c].stage = "free"]
        /\ UNCHANGED <<permits, hop, per_edge, global, stream, lost>>
    BY DEF HandlerEnds, Deregister
  <1>2. TypeOK /\ conn \in [Conn -> ConnRec]
    BY DEF IInv, SessionsSound, TypeOK, ConnRec
  <1>3. /\ conn'[c].edge = conn[c].edge /\ conn'[c].open = conn[c].open
        /\ conn'[c].stage = "free" /\ conn'[c].reply = conn[c].reply
        /\ \A d \in Conn : d # c => conn'[d] = conn[d]
        /\ conn' \in [Conn -> ConnRec]
    BY <1>1, <1>2 DEF ConnRec
  <1>4. \A e \in Edge : registry'[e] = IF registry[e] = c THEN None ELSE registry[e]
    BY <1>1, TunnelAssumption DEF IInv, SessionsSound, RegistryOwned
  <1>5. TypeOK'
    <2>1. registry' \in [Edge -> Conn \cup {None}]
      BY <1>1, <1>2 DEF TypeOK
    <2>2. QED BY <1>1, <1>2, <1>3, <2>1 DEF TypeOK, ConnRec
  <1>6. RegistryOwned'
    <2>1. ASSUME NEW e \in Edge, hop'[e].stage = "serve", conn'[hop'[e].c].open
          PROVE  registry'[e] = hop'[e].c
      BY <1>1, <1>3, <1>4, <2>1 DEF IInv, SessionsSound, RegistryOwned, HopOnItsConn
    <2>2. ASSUME NEW e \in Edge, registry'[e] # None
          PROVE  /\ conn'[registry'[e]].edge = e
                 /\ conn'[registry'[e]].stage \in {"acking", "registered"}
      <3>1. registry'[e] = registry[e] /\ registry[e] \in Conn \ {c}
        BY <1>2, <1>4, <2>2 DEF TypeOK
      <3>2. QED BY <1>3, <2>2, <3>1 DEF IInv, SessionsSound, RegistryOwned
    <2>3. QED BY <2>1, <2>2 DEF RegistryOwned
  <1>7. PermitsBalance'
    BY <1>1, <1>3, BalanceKept
  <1>8. HopOnItsConn' /\ TunnelOrder'
    BY <1>1, <1>3 DEF IInv, HopOnItsConn, TunnelOrder
  <1>9. LiveIsListed'
    BY <1>1, <1>2, <1>3, <1>4 DEF IInv, LiveIsListed, ConnRec
  <1>10. QED BY <1>5, <1>6, <1>7, <1>8, <1>9 DEF IInv, SessionsSound
\* What a change of one tunnel leaves alone, the permits aside.
LEMMA TunnelChanges ==
    ASSUME IInv, NEW s \in Stream, NEW r \in StreamRec, stream' = [stream EXCEPT ![s] = r],
           UNCHANGED <<registry, conn, hop, lost>>,
           r.e # "free" => r.edge \in Edge,
           r.e \in EdgeHolds => r.c \in Conn,
           r.e \in {"free", "opening"} => r.h = "none",
           r.c \in Conn /\ r.c # stream[s].c => conn[r.c].stage # "new"
    PROVE  /\ RegistryOwned' /\ HopOnItsConn' /\ LiveIsListed' /\ TunnelOrder'
           /\ stream' \in [Stream -> StreamRec]
           /\ stream'[s] = r /\ \A t \in Stream : t # s => stream'[t] = stream[t]
  <1>1. stream \in [Stream -> StreamRec]
    BY DEF IInv, SessionsSound, TypeOK, StreamRec
  <1>2. /\ stream' \in [Stream -> StreamRec]
        /\ stream'[s] = r /\ \A t \in Stream : t # s => stream'[t] = stream[t]
    BY <1>1
  <1>3. RegistryOwned' /\ HopOnItsConn'
    BY DEF IInv, SessionsSound, RegistryOwned, HopOnItsConn
  <1>4. TunnelOrder'
    BY <1>2 DEF IInv, TunnelOrder
  <1>5. LiveIsListed'
    BY <1>2 DEF IInv, LiveIsListed
  <1>6. QED BY <1>2, <1>3, <1>4, <1>5

\* A step of a tunnel that neither takes nor returns a permit.
LEMMA TunnelMovesInv ==
    ASSUME IInv, NEW s \in Stream, NEW r \in StreamRec, stream' = [stream EXCEPT ![s] = r],
           UNCHANGED <<registry, conn, permits, hop, per_edge, global, lost>>,
           r.e # "free" => r.edge \in Edge,
           r.e \in EdgeHolds => r.c \in Conn,
           r.e \in {"free", "opening"} => r.h = "none",
           r.e \in EdgeHolds <=> stream[s].e \in EdgeHolds,
           r.h \in HopHolds <=> stream[s].h \in HopHolds,
           (r.c = stream[s].c /\ r.edge = stream[s].edge) \/ r = NoStream
    PROVE  IInv'
  <1>1. /\ RegistryOwned' /\ HopOnItsConn' /\ LiveIsListed' /\ TunnelOrder'
        /\ stream' \in [Stream -> StreamRec]
        /\ stream'[s] = r /\ \A t \in Stream : t # s => stream'[t] = stream[t]
    BY TunnelChanges, TunnelAssumption DEF NoStream
  <1>2. TypeOK'
    BY <1>1 DEF IInv, SessionsSound, TypeOK, StreamRec
  <1>3. \A c \in Conn : HeldByEdge(c)' = HeldByEdge(c)
    BY <1>1, TunnelAssumption DEF HeldByEdge, EdgeHolds, NoStream
  <1>4. HeldByHop' = HeldByHop
    BY <1>1 DEF HeldByHop, HopHolds
  <1>5. \A e \in Edge : HeldFor(e)' = HeldFor(e)
    BY <1>1, <1>4 DEF HeldFor, HeldByHop, HopHolds, NoStream
  <1>6. PermitsBalance'
    BY <1>3, <1>4, <1>5 DEF IInv, SessionsSound, PermitsBalance
  <1>7. QED BY <1>1, <1>2, <1>6 DEF IInv, SessionsSound

LEMMA QuietStepsInv ==
    ASSUME IInv, NEW s \in Stream,
           \/ Request(s) \/ Opened(s) \/ Forget(s) \/ Unaccepted(s) \/ Serve(s)
           \/ ServeFails(s) \/ TargetEnds(s) \/ HeldEnds(s) \/ SpliceEnds(s)
    PROVE  IInv'
  <1>1. stream \in [Stream -> StreamRec] /\ TunnelOrder
    BY DEF IInv, SessionsSound, TypeOK, StreamRec
  <1>2. /\ stream[s] \in StreamRec
        /\ stream[s].e # "free" => stream[s].edge \in Edge
        /\ stream[s].e \in EdgeHolds => stream[s].c \in Conn
        /\ stream[s].e \in {"free", "opening"} => stream[s].h = "none"
    BY <1>1 DEF TunnelOrder
  <1>3. UNCHANGED <<registry, conn, permits, hop, per_edge, global, lost>>
    BY DEF Request, Opened, Forget, Unaccepted, Serve, ServeFails, TargetEnds, HeldEnds,
           SpliceEnds
  <1>4. CASE Request(s)
    <2> DEFINE r == [stream[s] EXCEPT !.e = "asked", !.h = "pending"]
    <2>1. /\ stream' = [stream EXCEPT ![s] = r] /\ stream[s].e = "opening"
      BY <1>1, <1>4 DEF Request
    <2>2. /\ r \in StreamRec /\ r.c = stream[s].c /\ r.edge = stream[s].edge
          /\ r.e = "asked" /\ r.h = "pending"
      BY <1>2 DEF StreamRec
    <2>3. QED BY <1>2, <1>3, <2>1, <2>2, TunnelMovesInv DEF EdgeHolds, HopHolds
  <1>5. CASE Opened(s)
    <2> DEFINE r == [stream[s] EXCEPT !.e = "open"]
    <2>1. /\ stream' = [stream EXCEPT ![s] = r] /\ stream[s].e = "asked"
      BY <1>1, <1>5 DEF Opened
    <2>2. /\ r \in StreamRec /\ r.c = stream[s].c /\ r.edge = stream[s].edge
          /\ r.e = "open" /\ r.h = stream[s].h
      BY <1>2 DEF StreamRec
    <2>3. QED BY <1>2, <1>3, <2>1, <2>2, TunnelMovesInv DEF EdgeHolds, HopHolds
  <1>6. CASE Forget(s)
    <2>1. /\ stream' = [stream EXCEPT ![s] = NoStream]
          /\ stream[s].e = "gone" /\ stream[s].h \in {"none", "done"}
      BY <1>6 DEF Forget
    <2>2. NoStream \in StreamRec /\ NoStream.e = "free" /\ NoStream.h = "none"
      BY DEF NoStream, StreamRec
    <2>3. QED BY <1>2, <1>3, <2>1, <2>2, TunnelMovesInv DEF EdgeHolds, HopHolds
  <1>7. CASE Unaccepted(s)
    <2> DEFINE r == [stream[s] EXCEPT !.h = "done"]
    <2>1. /\ stream' = [stream EXCEPT ![s] = r] /\ stream[s].h = "pending"
      BY <1>1, <1>7 DEF Unaccepted
    <2>2. /\ r \in StreamRec /\ r.c = stream[s].c /\ r.edge = stream[s].edge
          /\ r.e = stream[s].e /\ r.h = "done"
      BY <1>2 DEF StreamRec
    <2>3. QED BY <1>2, <1>3, <2>1, <2>2, TunnelMovesInv DEF EdgeHolds, HopHolds
  <1>8. CASE Serve(s) \/ ServeFails(s) \/ TargetEnds(s) \/ HeldEnds(s) \/ SpliceEnds(s)
    <2>1. PICK ph \in HopHolds, a \in {"none", "ok", "err"} :
          stream' = [stream EXCEPT ![s] = [stream[s] EXCEPT !.h = ph, !.reply = a]]
      <3>1. CASE Serve(s)
        <4>1. PICK h \in {"spliced", "held"} :
              stream' = [stream EXCEPT ![s].h = h, ![s].reply = "ok"]
          BY <3>1 DEF Serve
        <4>2. QED BY <1>1, <4>1 DEF HopHolds
      <3>2. CASE ServeFails(s)
        BY <1>1, <3>2 DEF ServeFails, HopHolds
      <3>3. CASE TargetEnds(s) \/ HeldEnds(s) \/ SpliceEnds(s)
        <4>1. PICK h \in {"held", "closing"} : stream' = [stream EXCEPT ![s].h = h]
          BY <3>3 DEF TargetEnds, HeldEnds, SpliceEnds
        <4>2. stream' = [stream EXCEPT ![s] = [stream[s] EXCEPT !.h = h,
                                                                !.reply = stream[s].reply]]
          BY <1>1, <1>2, <4>1 DEF StreamRec
        <4>3. stream[s].reply \in {"none", "ok", "err"}
          BY <1>2 DEF StreamRec
        <4>4. QED BY <4>2, <4>3 DEF HopHolds
      <3>4. QED BY <1>8, <3>1, <3>2, <3>3
    <2> DEFINE r == [stream[s] EXCEPT !.h = ph, !.reply = a]
    <2>2. stream[s].h \in HopHolds
      BY <1>8 DEF Serve, ServeFails, TargetEnds, HeldEnds, SpliceEnds, HopHolds
    <2>3. /\ r \in StreamRec /\ r.c = stream[s].c /\ r.edge = stream[s].edge
          /\ r.e = stream[s].e /\ r.h = ph
      BY <1>2 DEF StreamRec, HopHolds
    <2>4. r.e \in {"free", "opening"} => r.h = "none"
      BY <1>2, <2>2, <2>3 DEF HopHolds
    <2>5. QED BY <1>2, <1>3, <2>1, <2>2, <2>3, <2>4, TunnelMovesInv
  <1>9. QED BY <1>4, <1>5, <1>6, <1>7, <1>8
\* open takes one permit of the session it looked up.
LEMMA OpenInv ==
    ASSUME IInv, NEW e \in Edge, NEW s \in Stream, Open(s, e) PROVE IInv'
  <1>0. PICK c \in Conn : c = registry[e]
    BY DEF Open, IInv, SessionsSound, TypeOK
  <1> DEFINE r == [NoStream EXCEPT !.c = c, !.edge = e, !.e = "opening"]
  <1>1. /\ stream[s].e = "free" /\ c # None /\ permits[c] > 0
        /\ permits' = [permits EXCEPT ![c] = permits[c] - 1]
        /\ stream' = [stream EXCEPT ![s] = r]
        /\ UNCHANGED <<registry, conn, hop, per_edge, global, lost>>
    BY <1>0 DEF Open
  <1>2. TypeOK /\ PermitsBalance /\ TunnelOrder
    BY DEF IInv, SessionsSound
  <1>3. c \in Conn /\ conn[c].stage # "new"
    BY <1>0, <1>1, <1>2 DEF TypeOK, IInv, SessionsSound, RegistryOwned
  <1>4. r \in StreamRec /\ r.c = c /\ r.edge = e /\ r.e = "opening" /\ r.h = "none"
    BY <1>3 DEF NoStream, StreamRec
  <1>5. /\ RegistryOwned' /\ HopOnItsConn' /\ LiveIsListed' /\ TunnelOrder'
        /\ stream' \in [Stream -> StreamRec]
        /\ stream'[s] = r /\ \A t \in Stream : t # s => stream'[t] = stream[t]
    BY <1>1, <1>3, <1>4, TunnelChanges
  <1>6. stream[s].h = "none"
    BY <1>1, <1>2 DEF TunnelOrder
  <1>7. /\ HeldByEdge(c)' = HeldByEdge(c) \cup {s} /\ s \notin HeldByEdge(c)
        /\ \A d \in Conn : d # c => HeldByEdge(d)' = HeldByEdge(d)
    BY <1>1, <1>4, <1>5 DEF HeldByEdge
  <1>8. HeldByHop' = HeldByHop
    BY <1>4, <1>5, <1>6 DEF HeldByHop
  <1>9. \A f \in Edge : HeldFor(f)' = HeldFor(f)
    BY <1>1, <1>4, <1>5, <1>6, <1>8 DEF HeldFor, HeldByHop
  <1>10. /\ Cardinality(HeldByEdge(c)) \in Nat
         /\ Cardinality(HeldByEdge(c)') = Cardinality(HeldByEdge(c)) + 1
    BY <1>3, <1>7, HeldFinite, OneMore
  <1>11. /\ permits'[c] = permits[c] - 1 /\ permits[c] \in 0 .. EdgeCap
         /\ \A d \in Conn : d # c => permits'[d] = permits[d]
    BY <1>1, <1>2, <1>3 DEF TypeOK
  <1>12. \A d \in Conn : permits'[d] + Cardinality(HeldByEdge(d)') = EdgeCap
    <2>1. permits[c] + Cardinality(HeldByEdge(c)) = EdgeCap
      BY <1>2, <1>3 DEF PermitsBalance
    <2>2. permits'[c] + Cardinality(HeldByEdge(c)') = EdgeCap
      BY <1>10, <1>11, <2>1
    <2>3. ASSUME NEW d \in Conn, d # c
          PROVE  permits'[d] + Cardinality(HeldByEdge(d)') = EdgeCap
      <3>1. permits'[d] = permits[d] /\ HeldByEdge(d)' = HeldByEdge(d)
        BY <1>7, <1>11, <2>3
      <3>2. permits[d] + Cardinality(HeldByEdge(d)) = EdgeCap
        BY <1>2 DEF PermitsBalance
      <3>3. QED BY <3>1, <3>2
    <2>4. QED BY <2>2, <2>3
  <1>13. PermitsBalance'
    BY <1>1, <1>2, <1>8, <1>9, <1>12 DEF PermitsBalance
  <1>14. TypeOK'
    <2>1. permits'[c] \in 0 .. EdgeCap
      BY <1>1, <1>11, TunnelAssumption
    <2>2. permits' \in [Conn -> 0 .. EdgeCap]
      BY <1>1, <1>2, <1>11, <2>1 DEF TypeOK
    <2>3. QED BY <1>1, <1>2, <1>5, <2>2 DEF TypeOK, StreamRec
  <1>15. QED BY <1>5, <1>13, <1>14 DEF IInv, SessionsSound

\* However the edge's call ends, its permit goes back to the session it came from.
LEMMA GiveUpInv ==
    ASSUME IInv, NEW s \in Stream, GiveUp(s) PROVE IInv'
  <1>0. PICK c \in Conn : c = stream[s].c
    BY DEF GiveUp, IInv, TunnelOrder, EdgeHolds
  <1> DEFINE r == [stream[s] EXCEPT !.e = "gone"]
  <1>1. /\ stream[s].e \in {"opening", "asked", "open"}
        /\ stream' = [stream EXCEPT ![s] = r]
        /\ permits' = [permits EXCEPT ![c] = permits[c] + 1]
        /\ UNCHANGED <<registry, conn, hop, per_edge, global, lost>>
    BY <1>0 DEF GiveUp, IInv, SessionsSound, TypeOK
  <1>2. TypeOK /\ PermitsBalance /\ TunnelOrder /\ stream \in [Stream -> StreamRec]
    BY DEF IInv, SessionsSound, TypeOK, StreamRec
  <1>3. /\ r \in StreamRec /\ r.c = c /\ r.edge = stream[s].edge
        /\ r.e = "gone" /\ r.h = stream[s].h
    BY <1>0, <1>2 DEF StreamRec
  <1>4. /\ RegistryOwned' /\ HopOnItsConn' /\ LiveIsListed' /\ TunnelOrder'
        /\ stream' \in [Stream -> StreamRec]
        /\ stream'[s] = r /\ \A t \in Stream : t # s => stream'[t] = stream[t]
    BY <1>0, <1>1, <1>2, <1>3, TunnelChanges DEF TunnelOrder, EdgeHolds
  <1>5. /\ HeldByEdge(c)' = HeldByEdge(c) \ {s} /\ s \in HeldByEdge(c)
        /\ \A d \in Conn : d # c => HeldByEdge(d)' = HeldByEdge(d)
    BY <1>0, <1>1, <1>3, <1>4 DEF HeldByEdge
  <1>6. HeldByHop' = HeldByHop
    BY <1>3, <1>4 DEF HeldByHop
  <1>7. \A f \in Edge : HeldFor(f)' = HeldFor(f)
    BY <1>0, <1>1, <1>3, <1>4, <1>6 DEF HeldFor, HeldByHop
  <1>8. /\ Cardinality(HeldByEdge(c)') \in Nat
        /\ Cardinality(HeldByEdge(c)) = Cardinality(HeldByEdge(c)') + 1
    BY <1>5, HeldFinite, OneLess
  <1>9. /\ permits'[c] = permits[c] + 1 /\ permits[c] \in 0 .. EdgeCap
        /\ \A d \in Conn : d # c => permits'[d] = permits[d]
    BY <1>1, <1>2 DEF TypeOK
  <1>10. permits'[c] + Cardinality(HeldByEdge(c)') = EdgeCap
    <2>1. permits[c] + Cardinality(HeldByEdge(c)) = EdgeCap
      BY <1>2 DEF PermitsBalance
    <2>2. QED BY <1>8, <1>9, <2>1
  <1>11. \A d \in Conn : permits'[d] + Cardinality(HeldByEdge(d)') = EdgeCap
    <2>1. ASSUME NEW d \in Conn, d # c
          PROVE  permits'[d] + Cardinality(HeldByEdge(d)') = EdgeCap
      <3>1. permits'[d] = permits[d] /\ HeldByEdge(d)' = HeldByEdge(d)
        BY <1>5, <1>9, <2>1
      <3>2. permits[d] + Cardinality(HeldByEdge(d)) = EdgeCap
        BY <1>2 DEF PermitsBalance
      <3>3. QED BY <3>1, <3>2
    <2>2. QED BY <1>10, <2>1
  <1>12. PermitsBalance'
    BY <1>1, <1>2, <1>6, <1>7, <1>11 DEF PermitsBalance
  <1>13. TypeOK'
    <2>1. permits'[c] \in 0 .. EdgeCap
      BY <1>8, <1>9, <1>10, TunnelAssumption
    <2>2. permits' \in [Conn -> 0 .. EdgeCap]
      BY <1>1, <1>2, <1>9, <2>1 DEF TypeOK
    <2>3. QED BY <1>1, <1>2, <1>4, <2>2 DEF TypeOK, StreamRec
  <1>14. QED BY <1>4, <1>12, <1>13 DEF IInv, SessionsSound

\* The hop serves a tunnel with both permits in hand, or refuses it with neither.
LEMMA AcceptInv ==
    ASSUME IInv, NEW s \in Stream, Accept(s) PROVE IInv'
  <1>0. TypeOK /\ PermitsBalance /\ TunnelOrder /\ stream \in [Stream -> StreamRec]
    BY DEF IInv, SessionsSound, TypeOK, StreamRec
  <1>1. PICK e \in Edge : e = stream[s].edge
    <2>1. stream[s].e \notin {"free", "opening"}
      BY <1>0 DEF Accept, TunnelOrder
    <2>2. QED BY <1>0, <2>1 DEF TunnelOrder
  <1>2. /\ stream[s].h = "pending"
        /\ UNCHANGED <<registry, conn, permits, hop, lost>>
    BY DEF Accept
  <1>3. stream[s].e \notin {"free", "opening"} /\ e \in Edge
    BY <1>0, <1>2 DEF TunnelOrder
  <1>4. CASE /\ stream' = [stream EXCEPT ![s].h = "done", ![s].reply = "err"]
             /\ UNCHANGED <<per_edge, global>>
    <2> DEFINE r == [stream[s] EXCEPT !.h = "done", !.reply = "err"]
    <2>1. stream' = [stream EXCEPT ![s] = r]
      BY <1>0, <1>4
    <2>2. r \in StreamRec /\ r.c = stream[s].c /\ r.edge = e /\ r.e = stream[s].e /\ r.h = "done"
      <3>1. stream[s] \in StreamRec
        BY <1>0
      <3>2. QED BY <1>1, <3>1 DEF StreamRec
    <2>3. /\ r.e # "free" => r.edge \in Edge
          /\ r.e \in EdgeHolds => r.c \in Conn
          /\ r.e \in {"free", "opening"} => r.h = "none"
          /\ r.e \in EdgeHolds <=> stream[s].e \in EdgeHolds
          /\ r.h \in HopHolds <=> stream[s].h \in HopHolds
          /\ r.c = stream[s].c /\ r.edge = stream[s].edge
      BY <1>0, <1>1, <1>2, <1>3, <2>2 DEF HopHolds, TunnelOrder
    <2>4. UNCHANGED <<registry, conn, permits, hop, per_edge, global, lost>>
      BY <1>2, <1>4
    <2> HIDE DEF r
    <2>5. QED BY <2>1, <2>2, <2>3, <2>4, TunnelMovesInv
  <1>5. CASE /\ per_edge[e] > 0 /\ (Global = 0 \/ global > 0)
             /\ per_edge' = [per_edge EXCEPT ![e] = per_edge[e] - 1]
             /\ global' = IF Global = 0 THEN 0 ELSE global - 1
             /\ stream' = [stream EXCEPT ![s].h = "serving"]
    <2> DEFINE r == [stream[s] EXCEPT !.h = "serving"]
    <2>1. stream' = [stream EXCEPT ![s] = r]
      BY <1>0, <1>5
    <2>2. /\ r \in StreamRec /\ r.c = stream[s].c /\ r.edge = e
          /\ r.e = stream[s].e /\ r.h = "serving"
      BY <1>0, <1>1 DEF StreamRec
    <2>3. /\ RegistryOwned' /\ HopOnItsConn' /\ LiveIsListed' /\ TunnelOrder'
          /\ stream' \in [Stream -> StreamRec]
          /\ stream'[s] = r /\ \A t \in Stream : t # s => stream'[t] = stream[t]
      BY <1>0, <1>1, <1>2, <1>3, <2>1, <2>2, TunnelChanges DEF TunnelOrder
    <2>4. \A d \in Conn : HeldByEdge(d)' = HeldByEdge(d)
      BY <1>1, <2>2, <2>3 DEF HeldByEdge
    <2>5. HeldByHop' = HeldByHop \cup {s} /\ s \notin HeldByHop
      BY <1>1, <1>2, <2>2, <2>3 DEF HeldByHop
    <2>6. /\ HeldFor(e)' = HeldFor(e) \cup {s} /\ s \notin HeldFor(e)
          /\ \A f \in Edge : f # e => HeldFor(f)' = HeldFor(f)
      <3>1. /\ HeldFor(e)' = {t \in HeldByHop \cup {s} : stream'[t].edge = e}
            /\ \A f \in Edge :
                 HeldFor(f)' = {t \in HeldByHop \cup {s} : stream'[t].edge = f}
        BY <1>2, <2>5 DEF HeldFor
      <3>2. /\ stream'[s].edge = e
            /\ \A t \in HeldByHop : stream'[t] = stream[t]
        BY <2>2, <2>3, <2>5 DEF HeldByHop
      <3>3. \A f \in Edge : f # e => HeldFor(f)' = HeldFor(f)
        BY <1>1, <2>5, <3>1, <3>2 DEF HeldFor
      <3>4. HeldFor(e)' = HeldFor(e) \cup {s} /\ s \notin HeldFor(e)
        BY <1>1, <2>5, <3>1, <3>2 DEF HeldFor
      <3>5. QED BY <3>3, <3>4
    <2>7. /\ Cardinality(HeldFor(e)) \in Nat /\ Cardinality(HeldByHop) \in Nat
          /\ Cardinality(HeldFor(e)') = Cardinality(HeldFor(e)) + 1
          /\ Cardinality(HeldByHop') = Cardinality(HeldByHop) + 1
      BY <1>3, <2>5, <2>6, HeldFinite, OneMore
    <2>8. /\ per_edge'[e] = per_edge[e] - 1 /\ per_edge[e] \in 0 .. PerEdge
          /\ \A f \in Edge : f # e => per_edge'[f] = per_edge[f]
          /\ global \in 0 .. Global
      BY <1>0, <1>3, <1>5 DEF TypeOK
    <2>9. per_edge'[e] + Cardinality(HeldFor(e)') = PerEdge
      <3>1. per_edge[e] + Cardinality(HeldFor(e)) = PerEdge
        BY <1>0, <1>3 DEF PermitsBalance
      <3>2. QED BY <2>7, <2>8, <3>1
    <2>10. Global # 0 => global' + Cardinality(HeldByHop') = Global
      <3>1. Global # 0 => global + Cardinality(HeldByHop) = Global
        BY <1>0 DEF PermitsBalance
      <3>2. QED BY <1>5, <2>7, <2>8, <3>1, TunnelAssumption
    <2>11. PermitsBalance'
      <3>1. \A d \in Conn : permits'[d] + Cardinality(HeldByEdge(d)') = EdgeCap
        BY <1>0, <1>2, <2>4 DEF PermitsBalance
      <3>2. ASSUME NEW f \in Edge PROVE per_edge'[f] + Cardinality(HeldFor(f)') = PerEdge
        <4>1. CASE f = e
          BY <2>9, <4>1
        <4>2. CASE f # e
          BY <1>0, <2>6, <2>8, <4>2 DEF PermitsBalance
        <4>3. QED BY <4>1, <4>2
      <3>3. QED BY <2>10, <3>1, <3>2 DEF PermitsBalance
    <2>12. per_edge' \in [Edge -> 0 .. PerEdge] /\ global' \in 0 .. Global
      BY <1>0, <1>3, <1>5, <2>8, TunnelAssumption DEF TypeOK
    <2>13. TypeOK'
      BY <1>0, <1>2, <2>3, <2>12 DEF TypeOK, StreamRec
    <2>14. QED BY <2>3, <2>11, <2>13 DEF IInv, SessionsSound
  <1>6. QED BY <1>1, <1>4, <1>5 DEF Accept

\* Both permits of a tunnel the hop closes go back together.
LEMMA ReleaseInv ==
    ASSUME IInv, NEW s \in Stream, Release(s) PROVE IInv'
  <1> DEFINE r == [stream[s] EXCEPT !.h = "done"]
  <1>0. TypeOK /\ PermitsBalance /\ TunnelOrder /\ stream \in [Stream -> StreamRec]
    BY DEF IInv, SessionsSound, TypeOK, StreamRec
  <1>1. PICK e \in Edge : e = stream[s].edge
    <2>1. stream[s].e \notin {"free", "opening"}
      BY <1>0 DEF Release, TunnelOrder
    <2>2. QED BY <1>0, <2>1 DEF TunnelOrder
  <1>2. /\ stream[s].h = "closing"
        /\ stream' = [stream EXCEPT ![s] = r]
        /\ per_edge' = [per_edge EXCEPT ![e] = per_edge[e] + 1]
        /\ global' = IF Global = 0 THEN 0 ELSE global + 1
        /\ UNCHANGED <<registry, conn, permits, hop, lost>>
    BY <1>0, <1>1 DEF Release
  <1>3. stream[s].e \notin {"free", "opening"} /\ e \in Edge
    BY <1>0, <1>2 DEF TypeOK, TunnelOrder
  <1>4. r \in StreamRec /\ r.c = stream[s].c /\ r.edge = e /\ r.e = stream[s].e /\ r.h = "done"
    BY <1>0, <1>1 DEF StreamRec
  <1>5. /\ RegistryOwned' /\ HopOnItsConn' /\ LiveIsListed' /\ TunnelOrder'
        /\ stream' \in [Stream -> StreamRec]
        /\ stream'[s] = r /\ \A t \in Stream : t # s => stream'[t] = stream[t]
    BY <1>0, <1>1, <1>2, <1>3, <1>4, TunnelChanges DEF TunnelOrder
  <1>6. \A d \in Conn : HeldByEdge(d)' = HeldByEdge(d)
    BY <1>1, <1>4, <1>5 DEF HeldByEdge
  <1>7. HeldByHop' = HeldByHop \ {s} /\ s \in HeldByHop
    BY <1>2, <1>4, <1>5 DEF HeldByHop
  <1>8. /\ HeldFor(e)' = HeldFor(e) \ {s} /\ s \in HeldFor(e)
        /\ \A f \in Edge : f # e => HeldFor(f)' = HeldFor(f)
    BY <1>1, <1>2, <1>4, <1>5, <1>7 DEF HeldFor, HeldByHop
  <1>9. /\ Cardinality(HeldFor(e)') \in Nat /\ Cardinality(HeldByHop') \in Nat
        /\ Cardinality(HeldFor(e)) = Cardinality(HeldFor(e)') + 1
        /\ Cardinality(HeldByHop) = Cardinality(HeldByHop') + 1
    BY <1>3, <1>7, <1>8, HeldFinite, OneLess
  <1>10. /\ per_edge'[e] = per_edge[e] + 1 /\ per_edge[e] \in 0 .. PerEdge
         /\ \A f \in Edge : f # e => per_edge'[f] = per_edge[f]
         /\ global \in 0 .. Global
    BY <1>0, <1>2, <1>3 DEF TypeOK
  <1>11. per_edge'[e] + Cardinality(HeldFor(e)') = PerEdge
    <2>1. per_edge[e] + Cardinality(HeldFor(e)) = PerEdge
      BY <1>0, <1>3 DEF PermitsBalance
    <2>2. QED BY <1>9, <1>10, <2>1
  <1>12. Global # 0 => global' + Cardinality(HeldByHop') = Global
    <2>1. Global # 0 => global + Cardinality(HeldByHop) = Global
      BY <1>0 DEF PermitsBalance
    <2>2. Global # 0 => global' = global + 1
      BY <1>2
    <2>3. global \in Int /\ Global \in Int
      BY <1>10, TunnelAssumption
    <2>4. QED BY <1>9, <2>1, <2>2, <2>3
  <1>13. PermitsBalance'
    BY <1>0, <1>2, <1>6, <1>8, <1>10, <1>11, <1>12 DEF PermitsBalance
  <1>14. per_edge'[e] \in 0 .. PerEdge /\ global' \in 0 .. Global
    <2>1. per_edge'[e] \in 0 .. PerEdge
      BY <1>9, <1>10, <1>11, TunnelAssumption
    <2>2. global' \in Nat /\ (Global = 0 => global' = 0)
      BY <1>2, <1>10, TunnelAssumption
    <2>3. global' \in 0 .. Global
      BY <1>9, <1>12, <2>2, TunnelAssumption
    <2>4. QED BY <2>1, <2>3
  <1>15. per_edge' \in [Edge -> 0 .. PerEdge]
    BY <1>0, <1>2, <1>10, <1>14 DEF TypeOK
  <1>16. TypeOK'
    BY <1>0, <1>2, <1>5, <1>14, <1>15 DEF TypeOK, StreamRec
  <1>17. QED BY <1>5, <1>13, <1>16 DEF IInv, SessionsSound

LEMMA NextInv == IInv /\ [Next]_vars => IInv'
  <1> SUFFICES ASSUME IInv, [Next]_vars PROVE IInv'
    OBVIOUS
  <1>1. ASSUME NEW e \in Edge, HopLoop(e) PROVE IInv'
    <2>1. CASE SessionEnds(e)
      <3>1. hop[e].c \in Conn /\ lost \in 0 .. MaxLost
        BY <2>1 DEF SessionEnds, IInv, HopOnItsConn, SessionsSound, TypeOK
      <3>2. QED BY <2>1, <3>1, ClosedInv DEF SessionEnds
    <2>2. QED BY <1>1, <2>1, DialInv, RegisteredInv DEF HopLoop
  <1>2. ASSUME NEW e \in Edge, NEW s \in Stream, Open(s, e) PROVE IInv'
    BY <1>2, OpenInv
  <1>3. ASSUME NEW c \in Conn, Handler(c) PROVE IInv'
    BY <1>3, RegisterInv, AckInv, HandlerEndsInv DEF Handler
  <1>4. ASSUME NEW c \in Conn, Lose(c) PROVE IInv'
    <2>1. lost' \in 0 .. MaxLost
      BY <1>4, TunnelAssumption DEF Lose, IInv, SessionsSound, TypeOK
    <2>2. QED BY <1>4, <2>1, ClosedInv DEF Lose
  <1>5. ASSUME NEW s \in Stream, EdgeCall(s) PROVE IInv'
    BY <1>5, QuietStepsInv, GiveUpInv DEF EdgeCall
  <1>6. ASSUME NEW s \in Stream, HopTask(s) PROVE IInv'
    BY <1>6, QuietStepsInv, AcceptInv, ReleaseInv DEF HopTask
  <1>7. ASSUME NEW s \in Stream, TargetEnds(s) \/ HeldEnds(s) PROVE IInv'
    BY <1>7, QuietStepsInv
  <1>8. CASE UNCHANGED vars
    <2>1. PermitsBalance'
      BY <1>8, BalanceKept DEF vars
    <2>2. QED
      BY <1>8, <2>1 DEF vars, IInv, SessionsSound, TypeOK, RegistryOwned, HopOnItsConn,
                        LiveIsListed, TunnelOrder
  <1>9. QED BY <1>1, <1>2, <1>3, <1>4, <1>5, <1>6, <1>7, <1>8 DEF Next

-------------------------------------------------------------------------------

\* What both ends keep of sessions and tunnels is sound for every number of edges,
\* connections and tunnels: a hop that serves a living connection is the one its
\* edge routes to, no dead session stays in a registry, and on every path of open,
\* accept, refusal, timeout, replacement and reconnect each of the three layers of
\* permits has exactly as many free as are not held.
THEOREM SessionsStaySound == Spec => []SessionsSound
  <1>1. IInv => SessionsSound
    BY DEF IInv
  <1>2. QED BY <1>1, InitInv, NextInv, PTL DEF Spec
===============================================================================
