----------------------------- MODULE ReverseTunnel -----------------------------
(***************************************************************************)
(* Reverse tunnels: the registries of the edges (src/src/reverse/edge.rs), *)
(* the hop that registers with every one of them (src/src/reverse/hop.rs), *)
(* and the streams the edges open to it.                                   *)
(*                                                                         *)
(* Three layers of permits bound the tunnels: the edge's per session, the  *)
(* hop's per edge, which survives reconnects, and the hop's global one.    *)
(* Each end gives up, times out and notices a lost connection on its own,  *)
(* so a stream can be over at one end and alive at the other.              *)
(*                                                                         *)
(* One hop id is modelled.  Frames are taken to parse and tokens to match. *)
(* The reconnect backoff is an arbitrary delay before the next Dial.       *)
(***************************************************************************)
EXTENDS Integers, FiniteSets

CONSTANTS
    Edge,            \* the edges the hop is configured with
    Conn,            \* bound: QUIC connections that exist at the same time
    Stream,          \* bound: tunnels that exist at the same time
    None,            \* no connection
    Duplicate,       \* DuplicatePolicy of each edge: "reject" or "replace"
    EdgeCap,         \* max_streams_per_hop of the edges
    PerEdge,         \* max_streams of the hop's edge sessions
    Global,          \* global_max_streams of the hop; 0 is unlimited
    MaxLost          \* bound: connections lost

ASSUME TunnelAssumption ==
    /\ Edge # {} /\ IsFiniteSet(Stream)
    /\ None \notin Conn
    /\ Duplicate \in [Edge -> {"reject", "replace"}]
    /\ EdgeCap \in Nat \ {0} /\ PerEdge \in Nat \ {0} /\ Global \in Nat
    /\ MaxLost \in Nat

VARIABLES
    registry,        \* ReverseHopManager.registry of each edge
    conn,            \* each connection: its edge, whether it lives, the edge's
                     \* handler and the registration reply
    permits,         \* HopSession.permits: free tunnels of each session
    hop,             \* the hop's session loop for each edge
    per_edge,        \* free per-edge permits of the hop
    global,          \* free global permits of the hop
    stream,          \* each tunnel: its edge, its connection (None once that is
                     \* forgotten), the edge's call (e), the hop's task (h), the reply
    lost             \* connections lost so far

vars == <<registry, conn, permits, hop, per_edge, global, stream, lost>>

NoStream == [c |-> None, edge |-> None, e |-> "free", h |-> "none", reply |-> "none"]

TypeOK ==
    /\ registry \in [Edge -> Conn \cup {None}]
    /\ conn \in [Conn -> [edge : Edge, open : BOOLEAN,
                          stage : {"free", "new", "acking", "registered"},
                          reply : {"none", "ok", "duplicate"}]]
    /\ permits \in [Conn -> 0 .. EdgeCap]
    /\ hop \in [Edge -> [stage : {"idle", "register", "serve"}, c : Conn \cup {None}]]
    /\ per_edge \in [Edge -> 0 .. PerEdge]
    /\ global \in 0 .. Global
    /\ stream \in [Stream -> [c : Conn \cup {None}, edge : Edge \cup {None},
                              e : {"free", "opening", "asked", "open", "gone"},
                              h : {"none", "pending", "serving", "spliced",
                                   "held", "closing", "done"},
                              reply : {"none", "ok", "err"}]]
    /\ lost \in 0 .. MaxLost

Init ==
    /\ registry = [e \in Edge |-> None]
    /\ conn = [c \in Conn |-> [edge |-> CHOOSE e \in Edge : TRUE, open |-> FALSE,
                               stage |-> "free", reply |-> "none"]]
    /\ permits = [c \in Conn |-> EdgeCap]
    /\ hop = [e \in Edge |-> [stage |-> "idle", c |-> None]]
    /\ per_edge = [e \in Edge |-> PerEdge]
    /\ global = Global
    /\ stream = [s \in Stream |-> NoStream]
    /\ lost = 0

-------------------------------------------------------------------------------
(* Hop: edge_session_loop and connect_and_serve *)

\* No session of either end has the connection any more, and no call of the edge; a
\* task of the hop may still wait for its target.
Unused(c) ==
    /\ conn[c].stage = "free"
    /\ \A e \in Edge : hop[e].c # c
    /\ \A s \in Stream : stream[s].c = c => stream[s].e = "gone"

\* The handshake succeeds and REGISTER is written.  The name of an unused connection
\* is taken for the new one.
Dial(e) ==
    /\ hop[e].stage = "idle"
    /\ \E c \in Conn :
        /\ Unused(c)
        /\ conn' = [conn EXCEPT ![c] = [edge |-> e, open |-> TRUE, stage |-> "new",
                                        reply |-> "none"]]
        /\ hop' = [hop EXCEPT ![e] = [stage |-> "register", c |-> c]]
        /\ stream' = [s \in Stream |-> IF stream[s].c = c THEN [stream[s] EXCEPT !.c = None]
                                       ELSE stream[s]]
    /\ UNCHANGED <<registry, permits, per_edge, global, lost>>

\* OK: the hop starts to accept streams.
Registered(e) ==
    /\ hop[e].stage = "register"
    /\ conn[hop[e].c].open /\ conn[hop[e].c].reply = "ok"
    /\ hop' = [hop EXCEPT ![e].stage = "serve"]
    /\ UNCHANGED <<registry, conn, permits, per_edge, global, stream, lost>>

\* ERR, or the connection ended: it is dropped and the loop backs off.
SessionEnds(e) ==
    /\ hop[e].stage # "idle"
    /\ ~conn[hop[e].c].open \/ conn[hop[e].c].reply = "duplicate"
    /\ conn' = [conn EXCEPT ![hop[e].c].open = FALSE]
    /\ hop' = [hop EXCEPT ![e] = [stage |-> "idle", c |-> None]]
    /\ UNCHANGED <<registry, permits, per_edge, global, stream, lost>>

-------------------------------------------------------------------------------
(* Edge: handle_connection *)

\* register: with a session in the way the policy decides.  A replaced session's
\* connection is closed; the new one gets a fresh set of permits.
Register(c) ==
    LET e   == conn[c].edge
        old == registry[e]
    IN  /\ conn[c].stage = "new"
        /\ \/ /\ old # None /\ Duplicate[e] = "reject"
              /\ conn' = [conn EXCEPT ![c].stage = "free", ![c].reply = "duplicate"]
              /\ UNCHANGED <<registry, permits>>
           \/ /\ old = None \/ Duplicate[e] = "replace"
              /\ conn' = [d \in Conn |->
                            IF d = c THEN [conn[c] EXCEPT !.stage = "acking"]
                            ELSE IF d = old THEN [conn[d] EXCEPT !.open = FALSE]
                            ELSE conn[d]]
              /\ registry' = [registry EXCEPT ![e] = c]
              /\ permits' = [permits EXCEPT ![c] = EdgeCap]
        /\ UNCHANGED <<hop, per_edge, global, stream, lost>>

\* OK is written.
Ack(c) ==
    /\ conn[c].stage = "acking"
    /\ conn' = [conn EXCEPT ![c].stage = "registered", ![c].reply = "ok"]
    /\ UNCHANGED <<registry, permits, hop, per_edge, global, stream, lost>>

\* Faulty variant: whoever holds the slot is removed.
DeregisterAny(c) == registry' = [registry EXCEPT ![conn[c].edge] = None]

\* deregister: only if the connection still owns the slot.
Deregister(c) ==
    registry' = [e \in Edge |-> IF e = conn[c].edge /\ registry[e] = c THEN None
                                ELSE registry[e]]

\* Faulty variant: the session is left in the registry.
HandlerEndsKeeping(c) ==
    /\ conn[c].stage # "free" /\ ~conn[c].open
    /\ conn' = [conn EXCEPT ![c].stage = "free"]
    /\ UNCHANGED <<registry, permits, hop, per_edge, global, stream, lost>>

\* The handler ends: no control stream came, OK could not be written, or
\* connection.closed() resolved.
HandlerEnds(c) ==
    /\ conn[c].stage # "free" /\ ~conn[c].open
    /\ Deregister(c)
    /\ conn' = [conn EXCEPT ![c].stage = "free"]
    /\ UNCHANGED <<permits, hop, per_edge, global, stream, lost>>

-------------------------------------------------------------------------------
(* Edge: open, open_udp and the guarded tunnel *)

\* The session is looked up and a permit taken; without either the call fails.
Open(s, e) ==
    LET c == registry[e]
    IN  /\ stream[s].e = "free" /\ c # None
        /\ permits[c] > 0
        /\ permits' = [permits EXCEPT ![c] = @ - 1]
        /\ stream' = [stream EXCEPT ![s] = [NoStream EXCEPT !.c = c, !.edge = e, !.e = "opening"]]
        /\ UNCHANGED <<registry, conn, hop, per_edge, global, lost>>

\* The transport grants at most PerEdge concurrent streams.
StreamCredit(c) ==
    Cardinality({s \in Stream :
        /\ stream[s].c = c
        /\ \/ stream[s].e \in {"asked", "open"}
           \/ stream[s].h \in {"pending", "serving", "spliced", "held"}}) < PerEdge

\* open_bi succeeds and CONNECT or ASSOCIATE is written.
Request(s) ==
    /\ stream[s].e = "opening"
    /\ conn[stream[s].c].open
    /\ StreamCredit(stream[s].c)
    /\ stream' = [stream EXCEPT ![s].e = "asked", ![s].h = "pending"]
    /\ UNCHANGED <<registry, conn, permits, hop, per_edge, global, lost>>

\* OK is read: the tunnel carries the permit.
Opened(s) ==
    /\ stream[s].e = "asked" /\ stream[s].reply = "ok"
    /\ stream' = [stream EXCEPT ![s].e = "open"]
    /\ UNCHANGED <<registry, conn, permits, hop, per_edge, global, lost>>

\* open_bi or the reply fails or times out, the reply is ERR, or the tunnel is
\* dropped: the stream is closed and the permit returned.
GiveUp(s) ==
    /\ stream[s].e \in {"opening", "asked", "open"}
    /\ stream' = [stream EXCEPT ![s].e = "gone"]
    /\ permits' = [permits EXCEPT ![stream[s].c] = @ + 1]
    /\ UNCHANGED <<registry, conn, hop, per_edge, global, lost>>

\* Both ends are done with the tunnel.
Forget(s) ==
    /\ stream[s].e = "gone" /\ stream[s].h \in {"none", "done"}
    /\ stream' = [stream EXCEPT ![s] = NoStream]
    /\ UNCHANGED <<registry, conn, permits, hop, per_edge, global, lost>>

-------------------------------------------------------------------------------
(* Hop: the stream loop and serve_stream *)

\* Does the connection of the tunnel live?
Live(s) == stream[s].c # None /\ conn[stream[s].c].open

\* Faulty variant: a per-edge permit is kept although there is no global one.
AcceptLeaking(s) ==
    LET e == stream[s].edge
    IN  /\ stream[s].h = "pending"
        /\ Live(s) /\ hop[e].c = stream[s].c /\ hop[e].stage = "serve"
        /\ per_edge[e] > 0
        /\ per_edge' = [per_edge EXCEPT ![e] = @ - 1]
        /\ IF Global = 0 \/ global > 0
           THEN /\ global' = IF Global = 0 THEN 0 ELSE global - 1
                /\ stream' = [stream EXCEPT ![s].h = "serving"]
           ELSE /\ stream' = [stream EXCEPT ![s].h = "done", ![s].reply = "err"]
                /\ UNCHANGED global
        /\ UNCHANGED <<registry, conn, permits, hop, lost>>

\* Faulty variant: a refusal gives back a permit it never got.
AcceptReturning(s) ==
    LET e == stream[s].edge
    IN  /\ stream[s].h = "pending"
        /\ Live(s) /\ hop[e].c = stream[s].c /\ hop[e].stage = "serve"
        /\ \/ /\ per_edge[e] > 0 /\ (Global = 0 \/ global > 0)
              /\ per_edge' = [per_edge EXCEPT ![e] = @ - 1]
              /\ global' = IF Global = 0 THEN 0 ELSE global - 1
              /\ stream' = [stream EXCEPT ![s].h = "serving"]
           \/ /\ per_edge[e] = 0 \/ (Global # 0 /\ global = 0)
              /\ stream' = [stream EXCEPT ![s].h = "closing", ![s].reply = "err"]
              /\ UNCHANGED <<per_edge, global>>
        /\ UNCHANGED <<registry, conn, permits, hop, lost>>

\* The loop of another edge may have the last global permit in its hands without
\* having one of its own edge, and put it back.
Borrowed(e) ==
    global = 1 /\ \E s \in Stream : /\ stream[s].h = "pending" /\ stream[s].edge # e
                                   /\ per_edge[stream[s].edge] = 0

\* accept_bi: both permits are there and the stream is served, or it alone is
\* answered AT_CAPACITY.
Accept(s) ==
    LET e == stream[s].edge
    IN  /\ stream[s].h = "pending"
        /\ Live(s) /\ hop[e].c = stream[s].c /\ hop[e].stage = "serve"
        /\ \/ /\ per_edge[e] > 0 /\ (Global = 0 \/ global > 0)
              /\ per_edge' = [per_edge EXCEPT ![e] = @ - 1]
              /\ global' = IF Global = 0 THEN 0 ELSE global - 1
              /\ stream' = [stream EXCEPT ![s].h = "serving"]
           \/ /\ per_edge[e] = 0 \/ (Global # 0 /\ (global = 0 \/ Borrowed(e)))
              /\ stream' = [stream EXCEPT ![s].h = "done", ![s].reply = "err"]
              /\ UNCHANGED <<per_edge, global>>
        /\ UNCHANGED <<registry, conn, permits, hop, lost>>

\* The connection ended before the stream was accepted.
Unaccepted(s) ==
    /\ stream[s].h = "pending" /\ ~Live(s)
    /\ stream' = [stream EXCEPT ![s].h = "done"]
    /\ UNCHANGED <<registry, conn, permits, hop, per_edge, global, lost>>

\* OK is written, and the target is connected and spliced; or the UDP socket bound
\* and the stream held for the edge.
Serve(s) ==
    /\ stream[s].h = "serving"
    /\ \E h \in {"spliced", "held"} :
        stream' = [stream EXCEPT ![s].h = h, ![s].reply = "ok"]
    /\ UNCHANGED <<registry, conn, permits, hop, per_edge, global, lost>>

\* A bad frame, a target that cannot be reached, or an OK that cannot be written.
ServeFails(s) ==
    /\ stream[s].h = "serving"
    /\ stream' = [stream EXCEPT ![s].h = "closing", ![s].reply = "err"]
    /\ UNCHANGED <<registry, conn, permits, hop, per_edge, global, lost>>

\* splice: the target closes, or sends what the edge takes no more; only the edge
\* holds the stream from then on.  Nothing bounds how long the target is silent, and
\* when reading from the edge failed it is not even told.
TargetEnds(s) ==
    /\ stream[s].h = "spliced"
    /\ stream' = [stream EXCEPT ![s].h = "held"]
    /\ UNCHANGED <<registry, conn, permits, hop, per_edge, global, lost>>

\* What the edge sends ends a held stream: bytes the target takes no more, or
\* DISSOCIATE or no frame on a control stream.
HeldEnds(s) ==
    /\ stream[s].h = "held"
    /\ stream' = [stream EXCEPT ![s].h = "closing"]
    /\ UNCHANGED <<registry, conn, permits, hop, per_edge, global, lost>>

\* Faulty variant: only the end of the connection is noticed.
SpliceEndsWithConnection(s) ==
    /\ stream[s].h = "held" /\ ~Live(s)
    /\ stream' = [stream EXCEPT ![s].h = "closing"]
    /\ UNCHANGED <<registry, conn, permits, hop, per_edge, global, lost>>

\* The edge or the connection closed.  The streams are dropped before the permits are.
SpliceEnds(s) ==
    /\ stream[s].h = "held"
    /\ stream[s].e = "gone" \/ ~Live(s)
    /\ stream' = [stream EXCEPT ![s].h = "closing"]
    /\ UNCHANGED <<registry, conn, permits, hop, per_edge, global, lost>>

\* drop(per_permit), drop(global_permit)
Release(s) ==
    /\ stream[s].h = "closing"
    /\ stream' = [stream EXCEPT ![s].h = "done"]
    /\ per_edge' = [per_edge EXCEPT ![stream[s].edge] = @ + 1]
    /\ global' = IF Global = 0 THEN 0 ELSE global + 1
    /\ UNCHANGED <<registry, conn, permits, hop, lost>>

-------------------------------------------------------------------------------

\* A connection is lost or, before REGISTER, timed out by the edge; each end
\* notices in its own time.
Lose(c) ==
    /\ lost < MaxLost /\ conn[c].open
    /\ lost' = lost + 1
    /\ conn' = [conn EXCEPT ![c].open = FALSE]
    /\ UNCHANGED <<registry, permits, hop, per_edge, global, stream>>

HopLoop(e) == Dial(e) \/ Registered(e) \/ SessionEnds(e)

Handler(c) == Register(c) \/ Ack(c) \/ HandlerEnds(c)

EdgeCall(s) == Request(s) \/ Opened(s) \/ GiveUp(s) \/ Forget(s)

HopTask(s) == Accept(s) \/ Unaccepted(s) \/ Serve(s) \/ ServeFails(s)
                 \/ SpliceEnds(s) \/ Release(s)

Next ==
    \/ \E e \in Edge : HopLoop(e) \/ \E s \in Stream : Open(s, e)
    \/ \E c \in Conn : Handler(c) \/ Lose(c)
    \/ \E s \in Stream : EdgeCall(s) \/ HopTask(s) \/ TargetEnds(s) \/ HeldEnds(s)

Spec == Init /\ [][Next]_vars

\* Fairness.  Every task of either process keeps running, keepalive and idle
\* timeout tell both ends of a lost connection, and calls time out or are dropped by
\* their client.  Nothing is assumed of targets.
FairSpec ==
    /\ Spec
    /\ \A e \in Edge : WF_vars(HopLoop(e))
    /\ \A c \in Conn : WF_vars(Handler(c))
    /\ \A s \in Stream : /\ WF_vars(EdgeCall(s)) /\ WF_vars(GiveUp(s))
                         /\ WF_vars(HopTask(s))

-------------------------------------------------------------------------------
(* Properties *)

HeldByEdge(c) == {s \in Stream : stream[s].c = c /\ stream[s].e \in {"opening", "asked", "open"}}
HeldByHop     == {s \in Stream : stream[s].h \in {"serving", "spliced", "held", "closing"}}
HeldFor(e)    == {s \in HeldByHop : stream[s].edge = e}

\* A hop that believes it is registered, over a connection that lives, is the one
\* its edge routes to: no late cleanup of an older connection and no replacement
\* takes its slot away (stable_id in register and deregister).  And the registry
\* names only connections whose handler still runs and will remove them: no dead
\* session stays behind to refuse every new registration.
RegistryOwned ==
    \A e \in Edge :
        /\ hop[e].stage = "serve" /\ conn[hop[e].c].open => registry[e] = hop[e].c
        /\ registry[e] # None =>
            conn[registry[e]].edge = e /\ conn[registry[e]].stage \in {"acking", "registered"}

\* Permits are neither lost nor invented on any path: refusals, timeouts,
\* replaced sessions and reconnects included.
PermitsBalance ==
    /\ \A c \in Conn : permits[c] + Cardinality(HeldByEdge(c)) = EdgeCap
    /\ \A e \in Edge : per_edge[e] + Cardinality(HeldFor(e)) = PerEdge
    /\ Global # 0 => global + Cardinality(HeldByHop) = Global

\* What the two ends keep of their sessions and tunnels is sound.
SessionsSound == TypeOK /\ RegistryOwned /\ PermitsBalance

\* After the last loss every edge reaches the hop again, and keeps reaching it.
Reregistered ==
    <>[](\A e \in Edge : hop[e].stage = "serve" /\ registry[e] = hop[e].c)

\* A tunnel the edge gave up does not hold the hop's permits for ever, unless its
\* target stays connected and silent for ever: splice has no timeout and waits for it.
HopLetsGo ==
    \A s \in Stream :
        stream[s].e = "gone" ~> stream[s].h \in {"none", "done"} \/ stream[s].h = "spliced"
===============================================================================
