---------------------------- MODULE IngressStreams ----------------------------
(***************************************************************************)
(* The TCP connections inside a lease of reverse ingress, beside the UDP   *)
(* flows of IngressFlows: forward_tcp of the relay, handle_tcp of the      *)
(* connector, the node's listener (src/src/inbound/listener.rs), and the   *)
(* registry that tells it by the peer address of a loopback connection     *)
(* whom that connection stands for (src/src/ingress/metadata.rs).          *)
(*                                                                         *)
(* All leases have one transport; the sessions and their ends are those of *)
(* IngressFlows.  A public connection p is forwarded once, so it also      *)
(* names the stream that carries it and the two tasks that serve it.       *)
(***************************************************************************)
EXTENDS IngressFlows

CONSTANTS
    Public,          \* public TCP connections
    TcpLeaseOf,      \* TcpLeaseOf[p]: the lease p connects to
    Stranger,        \* a local program that connects to the listener itself
    MaxTcp,          \* max_tcp_connections of the grant
    MaxPending       \* MAX_PENDING_TCP

ASSUME StreamsAssumption ==
    /\ TcpLeaseOf \in [Public -> Lease]
    /\ Stranger \notin Public /\ None \notin Public \cup {Stranger}
    /\ {MaxTcp, MaxPending} \subseteq Nat
    /\ IsFiniteSet(Public)

VARIABLES
    transport,       \* of the leases: tcp or udp
    permits,         \* Session.tcp_permits
    forward,         \* forward[p]: the task of p at the relay
    handler,         \* handler[p]: the task of p at the connector, and its socket
    reply,           \* reply[p]: what the connector answered
    pending,         \* tcp_entries
    backlog,         \* connections the listener has not looked up: [source, owner]
    served,          \* history: whom the listener served, and for whom it took them
    reused           \* history: who got an address whose last entry was still to be withdrawn

streamVars == <<permits, forward, handler, reply, pending, backlog, served, reused>>
dataVars   == <<vars, transport, streamVars>>

Unbound(stage) == [stage |-> stage, source |-> None, up |-> FALSE]
Pending == {s \in Source : pending[s] # None}

StreamTypeOK ==
    /\ permits \in 0 .. MaxTcp
    /\ forward \in [Public -> {"none", "open", "asked", "splice", "orphan", "done"}]
    /\ handler \in [Public -> [stage : {"none", "queued", "connect", "withdraw", "reply",
                                         "splice", "gone"},
                               source : Source \cup {None}, up : BOOLEAN]]
    /\ reply \in [Public -> {"none", "ok", "err"}]
    /\ pending \in [Source -> Public \cup {None}] /\ Cardinality(Pending) <= MaxPending
    /\ backlog \subseteq [source : Source, owner : Public \cup {Stranger}]
    /\ served \subseteq [owner : Public \cup {Stranger}, as : Public \cup {None}]
    /\ reused \subseteq Public \cup {Stranger}

DataInit ==
    /\ Init
    /\ transport \in {"tcp", "udp"}
    /\ permits = MaxTcp
    /\ forward = [p \in Public |-> "none"]
    /\ handler = [p \in Public |-> Unbound("none")]
    /\ reply = [p \in Public |-> "none"]
    /\ pending = [s \in Source |-> None]
    /\ backlog = {} /\ served = {} /\ reused = {}

-------------------------------------------------------------------------------
(* Relay *)

\* The tasks that hold a permit of this session.
Forwarded == {p \in Public : forward[p] \in {"open", "asked", "splice"}}

\* serve_tcp_lease accepts: a permit and a task, or the connection is dropped.
Accept(p) ==
    /\ TcpLeaseOf[p] \in serving /\ forward[p] = "none"
    /\ \/ permits > 0 /\ permits' = permits - 1 /\ forward' = [forward EXCEPT ![p] = "open"]
       \/ permits = 0 /\ forward' = [forward EXCEPT ![p] = "done"] /\ UNCHANGED permits
    /\ UNCHANGED <<handler, reply, pending, backlog, served, reused>>

\* forward_tcp: open_bi, which may wait until the connector allows another stream, and the request.
OpenStream(p) ==
    /\ forward[p] = "open" /\ session = "serving"
    /\ forward' = [forward EXCEPT ![p] = "asked"]
    /\ handler' = [handler EXCEPT ![p].stage = "queued"]
    /\ UNCHANGED <<permits, reply, pending, backlog, served, reused>>

\* The reply is Ok.
Splice(p) ==
    /\ forward[p] = "asked" /\ reply[p] = "ok"
    /\ forward' = [forward EXCEPT ![p] = "splice"]
    /\ UNCHANGED <<permits, handler, reply, pending, backlog, served, reused>>

\* Faulty variant: the permit is lost when the task ends before the splice.
ForwardEndsEarly(p) ==
    /\ p \in Forwarded
    /\ permits' = IF forward[p] = "splice" THEN permits + 1 ELSE permits
    /\ forward' = [forward EXCEPT ![p] = "done"]
    /\ UNCHANGED <<handler, reply, pending, backlog, served, reused>>

\* A timeout, an error, a refusal, the end of the splice or an abort that nobody waits
\* for; the permit goes with the task.
ForwardEnds(p) ==
    /\ p \in Forwarded
    /\ permits' = permits + 1
    /\ forward' = [forward EXCEPT ![p] = "done"]
    /\ UNCHANGED <<handler, reply, pending, backlog, served, reused>>

\* A task of an earlier session ends: the permit was of a semaphore of then.
OrphanEnds(p) ==
    /\ forward[p] = "orphan"
    /\ forward' = [forward EXCEPT ![p] = "done"]
    /\ UNCHANGED <<permits, handler, reply, pending, backlog, served, reused>>

ForwardedOf(l) == {p \in Forwarded : TcpLeaseOf[p] = l}

\* serve_tcp_lease sees the connection closed, aborts its tasks and waits for them.
\* When its own task is aborted (AbortLease) theirs are aborted, and end in their time.
EndTcpLease(l) ==
    /\ EndLease(l)
    /\ permits' = permits + Cardinality(ForwardedOf(l))
    /\ forward' = [p \in Public |-> IF p \in ForwardedOf(l) THEN "done" ELSE forward[p]]
    /\ UNCHANGED <<handler, reply, pending, backlog, served, reused>>

\* The new session has permits of its own; tasks of the old one may still be running.
ReconnectTcp ==
    /\ Reconnect
    /\ permits' = MaxTcp
    /\ forward' = [p \in Public |-> IF p \in Forwarded THEN "orphan" ELSE forward[p]]
    /\ UNCHANGED <<handler, reply, pending, backlog, served, reused>>

-------------------------------------------------------------------------------
(* Connector *)

\* The kernel gives an address to one socket at a time; that of a connection nobody accepted
\* yet is not free either (FIN-WAIT).
Free(s) == /\ \A p \in Public : handler[p].source = s => handler[p].stage = "withdraw"
           /\ \A b \in backlog : b.source # s

\* Whoever gets the address s now gets it before the entry of a failed connect is withdrawn.
Reused(s, owner) ==
    reused' = IF \E p \in Public : handler[p].stage = "withdraw" /\ handler[p].source = s
              THEN reused \cup {owner} ELSE reused

\* The handler of p is done; its socket closes.
HandlerGone(p) == handler' = [handler EXCEPT ![p] = Unbound("gone")]

\* tcp_loop and handle_tcp up to the connect of connect_local_tcp: bind, register_tcp.
Begin(p, s) ==
    /\ handler[p].stage = "queued" /\ session = "serving" /\ Free(s)
    /\ s \in Pending \/ Cardinality(Pending) < MaxPending
    /\ pending' = [pending EXCEPT ![s] = p]
    /\ handler' = [handler EXCEPT ![p] = [stage |-> "connect", source |-> s, up |-> FALSE]]
    /\ Reused(s, p)
    /\ UNCHANGED <<permits, forward, reply, backlog, served>>

\* A full registry, or no socket.
Refuse(p) ==
    /\ handler[p].stage = "queued" /\ session = "serving"
    /\ HandlerGone(p)
    /\ reply' = [reply EXCEPT ![p] = "err"]
    /\ UNCHANGED <<permits, forward, pending, backlog, served, reused>>

\* The connection ends.  Its streams cannot be accepted or read any more; handlers that got
\* beyond that are tasks of their own and go on.
EndTcpSession ==
    /\ EndSession
    /\ handler' = [p \in Public |-> IF handler[p].stage = "queued" THEN Unbound("gone") ELSE handler[p]]
    /\ UNCHANGED <<permits, forward, reply, pending, backlog, served, reused>>

\* The kernel completes the connection, which waits at the listener from then on.
Established(p) ==
    /\ handler[p].stage = "connect" /\ ~ handler[p].up
    /\ handler' = [handler EXCEPT ![p].up = TRUE]
    /\ backlog' = backlog \cup {[source |-> handler[p].source, owner |-> p]}
    /\ UNCHANGED <<permits, forward, reply, pending, served, reused>>

Connected(p) ==
    /\ handler[p].stage = "connect" /\ handler[p].up
    /\ handler' = [handler EXCEPT ![p].stage = "reply"]
    /\ UNCHANGED <<permits, forward, reply, pending, backlog, served, reused>>

\* The connection is refused or SESSION_TIMEOUT is over, maybe when the kernel is just done.
\* The socket goes with the future of the connect ...
ConnectFails(p) ==
    /\ handler[p].stage = "connect"
    /\ handler' = [handler EXCEPT ![p].stage = "withdraw"]
    /\ UNCHANGED <<permits, forward, reply, pending, backlog, served, reused>>

\* Faulty variant: nobody withdraws the registration.
WithdrawNothing(p) ==
    /\ handler[p].stage = "withdraw"
    /\ HandlerGone(p)
    /\ reply' = [reply EXCEPT ![p] = "err"]
    /\ UNCHANGED <<permits, forward, pending, backlog, served, reused>>

\* ... and remove_tcp follows, whoever the entry of the address stands for by now.
Withdraw(p) ==
    /\ handler[p].stage = "withdraw"
    /\ pending' = [pending EXCEPT ![handler[p].source] = None]
    /\ HandlerGone(p)
    /\ reply' = [reply EXCEPT ![p] = "err"]
    /\ UNCHANGED <<permits, forward, backlog, served, reused>>

\* The answer to the relay is written, or cannot be.
Reply(p) ==
    /\ handler[p].stage = "reply"
    /\ \/ /\ handler' = [handler EXCEPT ![p].stage = "splice"]
          /\ reply' = [reply EXCEPT ![p] = "ok"]
       \/ HandlerGone(p) /\ UNCHANGED reply
    /\ UNCHANGED <<permits, forward, pending, backlog, served, reused>>

SpliceEnds(p) ==
    /\ handler[p].stage = "splice"
    /\ HandlerGone(p)
    /\ UNCHANGED <<permits, forward, reply, pending, backlog, served, reused>>

-------------------------------------------------------------------------------
(* The listener of the node *)

\* A local program connects; a bound: once.
Intrude(s) ==
    /\ Free(s) /\ \A r \in backlog \cup served : r.owner # Stranger
    /\ backlog' = backlog \cup {[source |-> s, owner |-> Stranger]}
    /\ Reused(s, Stranger)
    /\ UNCHANGED <<permits, forward, handler, reply, pending, served>>

\* Faulty variant: the entry is looked up and left.
ServeKept(b) ==
    /\ b \in backlog
    /\ backlog' = backlog \ {b}
    /\ served' = served \cup {[owner |-> b.owner, as |-> pending[b.source]]}
    /\ UNCHANGED <<permits, forward, handler, reply, pending, reused>>

\* serve_conn of an accepted connection: take_tcp of its peer address.
Serve(b) ==
    /\ b \in backlog
    /\ backlog' = backlog \ {b}
    /\ served' = served \cup {[owner |-> b.owner, as |-> pending[b.source]]}
    /\ pending' = [pending EXCEPT ![b.source] = None]
    /\ UNCHANGED <<permits, forward, handler, reply, reused>>

-------------------------------------------------------------------------------
OfStreams ==
    \/ \E p \in Public :
        \/ Accept(p) \/ OpenStream(p) \/ Splice(p) \/ ForwardEnds(p) \/ OrphanEnds(p)
        \/ Refuse(p) \/ Established(p) \/ Connected(p) \/ ConnectFails(p) \/ Withdraw(p)
        \/ Reply(p) \/ SpliceEnds(p) \/ \E s \in Source : Begin(p, s)
    \/ \E s \in Source : Intrude(s)
    \/ \E b \in backlog : Serve(b)

\* A session with TCP leases ends as one with UDP leases does, but its tables of flows are empty:
\* of clear_flows and of the drops only the end of the connector's session is left.
OfSession ==
    \/ /\ session = "closing" /\ session' = "none" /\ loop' = Gone
       /\ UNCHANGED <<relay, net, sessions, flows, expired, pump, metadata, left>>
    \/ \E l \in Lease : AbortLease(l)

DataNext ==
    /\ UNCHANGED transport
    /\ \/ transport = "udp" /\ Next /\ UNCHANGED streamVars
       \/ transport = "tcp" /\ OfStreams /\ UNCHANGED vars
       \/ transport = "tcp" /\ OfSession /\ UNCHANGED streamVars
       \/ transport = "tcp" /\ (EndTcpSession \/ ReconnectTcp \/ \E l \in Lease : EndTcpLease(l))

DataSpec == DataInit /\ [][DataNext]_dataVars

\* Fairness.  As for the flows; a connect ends by its timeout, and the listener's accept loop
\* takes what waits.  There are finitely many of both, so all get their turn.
Settling == \/ \E p \in Public : Connected(p) \/ ConnectFails(p) \/ Withdraw(p)
            \/ \E b \in backlog : Serve(b)
Of(kind, A) == transport = kind /\ A /\ UNCHANGED transport
FairDataSpec ==
    /\ DataSpec
    /\ WF_dataVars(Of("udp", Sweeping /\ UNCHANGED streamVars))
    /\ WF_dataVars(Of("udp", SweepingLocal /\ UNCHANGED streamVars))
    /\ WF_dataVars(Of("udp", Ending /\ UNCHANGED streamVars))
    /\ WF_dataVars(Of("tcp", Settling /\ UNCHANGED vars))

-------------------------------------------------------------------------------
(* Properties *)

\* Both tables of flows mirror each other within their limits, and no TCP permit of a session is
\* lost or invented, whether a task ends by itself, with its lease or after an abort: one that has
\* a permit belongs to a lease that is served or was cut off in this session.
DataSound ==
    /\ TablesSound /\ StreamTypeOK
    /\ permits + Cardinality(Forwarded) = MaxTcp
    /\ \A p \in Forwarded : TcpLeaseOf[p] \in serving \cup aborted

\* Over both transports a listener takes a client of the relay for itself or for nobody, although
\* loopback addresses are handed out again; it takes one for nobody only when the connector gave
\* that one up as too slow, or when it got its address before the entry of the failed connect that
\* had it before was withdrawn, so that the withdrawal hit its own.  Only in that window too is a
\* local program taken for somebody.  No entry outlives the connection it announces.
ClientsTold ==
    /\ Truthful
    /\ \A r \in served :
        /\ r.owner # Stranger => r.as \in {r.owner, None}
        /\ r.owner # Stranger /\ r.as = None =>
            \/ handler[r.owner].stage = "gone" /\ reply[r.owner] = "err"
            \/ r.owner \in reused
        /\ r.owner = Stranger /\ r.as # None => Stranger \in reused
    /\ \A s \in Pending :
        \/ \E p \in Public : handler[p].stage \in {"connect", "withdraw"} /\ handler[p].source = s
        \/ \E b \in backlog : b.source = s

\* Idle flows go, and every entry of the registry of TCP sources is taken or withdrawn.
DataSettles ==
    /\ Expires
    /\ \A s \in Source : pending[s] # None ~> pending[s] = None
===============================================================================
