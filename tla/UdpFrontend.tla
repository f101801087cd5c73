------------------------------ MODULE UdpFrontend ------------------------------
(***************************************************************************)
(* UDP through a TUIC connection (src/src/inbound/tuic/mod.rs) and through *)
(* a SOCKS5 UDP ASSOCIATE (src/src/inbound/socks5_udp.rs): packets from    *)
(* the client open a relay over a reverse hop on first use                 *)
(* (src/src/outbound/mod.rs, connect_udp) and share it afterwards, while   *)
(* the control plane swaps the policy.                                     *)
(*                                                                         *)
(* A TUIC connection runs a datagram loop, which takes one packet at a     *)
(* time, and a task per uni-stream, so several first packets of one        *)
(* association and a DISSOCIATE may overlap.  A SOCKS5 association is one  *)
(* task.  A relay lives as long as somebody holds it: the table, its pump  *)
(* or a task that sends over it.  What a relay does is ReverseUdp's        *)
(* subject; return packets are left out.  TCP streams of the connection    *)
(* only delay its end.                                                     *)
(***************************************************************************)
EXTENDS Integers, Sequences, FiniteSets

CONSTANTS
    User,            \* users of the snapshot
    Host,            \* targets a packet may name
    AssocId,         \* association ids the client uses
    Uni,             \* bound: uni-streams served at the same time
    Relay,           \* bound: relays that exist at the same time
    Hop,             \* reverse hops
    Policy,          \* snapshots: functions from User \X Host to decisions
    None,            \* no user, relay, packet
    MaxSwaps,        \* bound: hot swaps
    MaxPackets       \* bound: packets read

\* Decision: block, direct, or a list of upstreams (one of them without a chain).
Member   == [kind : {"reverse", "other"}, hop : Hop]
IsDecision(d) ==
    /\ d.type \in {"block", "direct", "via"}
    /\ d.members \in Seq(Member)

Datagrams == "datagram_loop"
Socks     == "serve_associate"

ASSUME FrontendAssumption ==
    /\ None \notin User \cup Relay \cup AssocId
    /\ {Datagrams, Socks} \cap Uni = {} /\ Socks \notin AssocId
    /\ \A p \in Policy : DOMAIN p = User \X Host /\ \A x \in User \X Host : IsDecision(p[x])
    /\ MaxSwaps \in Nat /\ MaxPackets \in Nat

Tuic      == Uni \cup {Datagrams}
Task      == Tuic \cup {Socks}
\* The SOCKS5 association is kept beside the table, under a name of its own.
Key       == AssocId \cup {Socks}

VARIABLES
    policy,          \* Engine.snap
    phase,           \* the QUIC connection: open, draining, closed, over
    auth,            \* ConnCtx.auth
    task,            \* the packet each task works on
    assoc,           \* ConnCtx.assoc: the relay of an association id; and the
                     \* relay of the SOCKS5 association
    pump,            \* the return pump of each relay: none, running, aborted
    socks,           \* the SOCKS5 control connection: open, closed, over
    swaps, packets,  \* hot swaps and packets so far
    detached,        \* relays whose pump nobody can abort (history)
    used,            \* the relays that carried an id's packets since it was last
                     \* dissociated (history)
    sent             \* the decision read for the last packet handed to a
                     \* relay (history)

vars == <<policy, phase, auth, task, assoc, pump, socks, swaps, packets,
          detached, used, sent>>

Idle == [stage |-> "idle", user |-> None, host |-> None, key |-> None,
         read |-> None, todo |-> {}, relay |-> None, stale |-> FALSE]

Stage == {"idle", "reading", "decide", "open", "insert", "send"}

TypeOK ==
    /\ policy \in Policy
    /\ phase \in {"open", "draining", "closed", "over"}
    /\ auth \in User \cup {None}
    /\ \A t \in Task :
        /\ task[t].stage \in Stage
        /\ task[t].user \in User \cup {None} /\ task[t].host \in Host \cup {None}
        /\ task[t].key \in Key \cup {None}
        /\ task[t].todo \subseteq Nat
        /\ task[t].relay \in Relay \cup {None}
        /\ task[t].stage \in {"insert", "send"} <=> task[t].relay # None
    /\ assoc \in [Key -> Relay \cup {None}]
    /\ pump \in [Relay -> {"none", "running", "aborted"}]
    /\ socks \in {"open", "closed", "over"}
    /\ swaps \in 0 .. MaxSwaps /\ packets \in 0 .. MaxPackets
    /\ detached \subseteq Relay
    /\ used \in [Key -> SUBSET Relay]

Init ==
    /\ policy \in Policy
    /\ phase = "open"
    /\ auth = None
    /\ task = [t \in Task |-> Idle]
    /\ assoc = [k \in Key |-> None]
    /\ pump = [r \in Relay |-> "none"]
    /\ socks = "open"
    /\ swaps = 0 /\ packets = 0
    /\ detached = {}
    /\ used = [k \in Key |-> {}]
    /\ sent = None

\* The relays somebody holds an Arc of.
Live == {r \in Relay : \/ pump[r] # "none"
                       \/ \E k \in Key : assoc[k] = r
                       \/ \E t \in Task : task[t].relay = r}

history == <<detached, used, sent>>

-------------------------------------------------------------------------------
(* connect_udp *)

\* The places in the chain to try: only reverse upstreams carry UDP; block, direct
\* and the other kinds leave nothing.
Candidates(d) ==
    {i \in DOMAIN d.members : d.type = "via" /\ d.members[i].kind = "reverse"}

\* open_udp on the next candidate succeeds.
OpenUdp(t) ==
    /\ task[t].stage = "open" /\ task[t].todo # {}
    /\ Relay # Live
    /\ LET r == CHOOSE r \in Relay \ Live : TRUE
       IN  /\ task' = [task EXCEPT ![t].stage = "insert", ![t].relay = r]
           /\ detached' = detached \ {r}
    /\ UNCHANGED <<policy, phase, auth, assoc, pump, socks, swaps, packets, used, sent>>

\* It fails or times out: the next one, in priority order, is tried.
TryNext(t) ==
    /\ task[t].stage = "open"
    /\ \E i \in task[t].todo :
        /\ \A j \in task[t].todo : i <= j
        /\ task' = [task EXCEPT ![t].todo = @ \ {i}]
    /\ UNCHANGED <<policy, phase, auth, assoc, pump, socks, swaps, packets, history>>

\* No candidate is left: the packet is dropped.
Exhausted(t) ==
    /\ task[t].stage = "open" /\ task[t].todo = {}
    /\ task' = [task EXCEPT ![t] = Idle]
    /\ UNCHANGED <<policy, phase, auth, assoc, pump, socks, swaps, packets, history>>

-------------------------------------------------------------------------------
(* TUIC: relay_uplink and open_association *)

\* Faulty variant: the association is taken to exist.
UplinkNoLookup(t, user, h, k) ==
    LET p == [Idle EXCEPT !.user = user, !.host = h, !.key = k, !.read = policy[<<user, h>>]]
    IN  /\ packets < MaxPackets /\ packets' = packets + 1
        /\ task' = [task EXCEPT ![t] = [p EXCEPT !.stage = "send", !.relay = assoc[k]]]

\* Faulty variant: the policy is only asked when there is no relay yet.
UplinkUnchecked(t, user, h, k) ==
    LET d == policy[<<user, h>>]
        p == [Idle EXCEPT !.user = user, !.host = h, !.key = k, !.read = d]
    IN  /\ packets < MaxPackets /\ packets' = packets + 1
        /\ task' = [task EXCEPT ![t] =
              IF assoc[k] # None THEN [p EXCEPT !.stage = "send", !.relay = assoc[k]]
              ELSE IF d.type = "block" THEN Idle ELSE [p EXCEPT !.stage = "decide"]]

\* A packet of the user: dropped if the policy blocks its target, sent over the
\* relay of its association, or the first one that has to open it.
Uplink(t, user, h, k) ==
    LET d == policy[<<user, h>>]
        p == [Idle EXCEPT !.user = user, !.host = h, !.key = k, !.read = d]
    IN  /\ packets < MaxPackets /\ packets' = packets + 1
        /\ task' = [task EXCEPT ![t] =
              IF d.type = "block" THEN Idle
              ELSE IF assoc[k] # None THEN [p EXCEPT !.stage = "send", !.relay = assoc[k]]
              ELSE [p EXCEPT !.stage = "decide"]]

\* datagram_loop: starts after authentication.
Datagram(h, a) ==
    /\ phase = "open" /\ auth # None
    /\ task[Datagrams].stage = "idle"
    /\ Uplink(Datagrams, auth, h, a)
    /\ UNCHANGED <<policy, phase, auth, assoc, pump, socks, swaps, history>>

\* accept_uni_loop
AcceptUni(t) ==
    /\ phase = "open" /\ task[t].stage = "idle"
    /\ task' = [task EXCEPT ![t].stage = "reading"]
    /\ UNCHANGED <<policy, phase, auth, assoc, pump, socks, swaps, packets, history>>

\* PACKET on a uni-stream; before authentication it is dropped.
UniPacket(t, h, a) ==
    /\ phase \in {"open", "draining"} /\ task[t].stage = "reading" /\ auth # None
    /\ Uplink(t, auth, h, a)
    /\ UNCHANGED <<policy, phase, auth, assoc, pump, socks, swaps, history>>

\* An unreadable, unknown or dropped command.
UniFails(t) ==
    /\ task[t].stage = "reading"
    /\ task' = [task EXCEPT ![t] = Idle]
    /\ UNCHANGED <<policy, phase, auth, assoc, pump, socks, swaps, packets, history>>

\* handle_authenticate: the identity is set, again and again if the client likes,
\* or the connection closed.
Authenticate(t, user) ==
    /\ phase \in {"open", "draining"} /\ task[t].stage = "reading"
    /\ task' = [task EXCEPT ![t] = Idle]
    /\ \/ auth' = user /\ UNCHANGED phase
       \/ phase' = "closed" /\ UNCHANGED auth
    /\ UNCHANGED <<policy, assoc, pump, socks, swaps, packets, history>>

\* Drop of a UdpAssoc: its pump is told to stop.
Drop(rs) == pump' = [r \in Relay |-> IF r \in rs THEN "aborted" ELSE pump[r]]

Dissociate(t, a) ==
    /\ phase \in {"open", "draining"} /\ task[t].stage = "reading"
    /\ task' = [u \in Task |-> IF u = t THEN Idle
                               ELSE [task[u] EXCEPT !.stale = @ \/ task[u].key = a]]
    /\ assoc' = [assoc EXCEPT ![a] = None]
    /\ Drop({assoc[a]})
    /\ used' = [used EXCEPT ![a] = {}]
    /\ UNCHANGED <<policy, phase, auth, socks, swaps, packets, detached, sent>>

\* open_association asks the policy again, with the snapshot served by now.
OpenAssociation(t) ==
    /\ task[t].stage = "decide"
    /\ task' = [task EXCEPT ![t].stage = "open",
                            ![t].todo = Candidates(policy[<<task[t].user, task[t].host>>])]
    /\ UNCHANGED <<policy, phase, auth, assoc, pump, socks, swaps, packets, history>>

\* Faulty variant: the task goes on with the relay it opened itself.
InsertOwn(t) ==
    LET k == task[t].key
        r == task[t].relay
    IN  /\ assoc' = [assoc EXCEPT ![k] = IF assoc[k] = None THEN r ELSE assoc[k]]
        /\ task' = [task EXCEPT ![t].stage = "send"]
        /\ detached' = IF assoc[k] = None THEN detached ELSE detached \cup {r}

\* entry().or_insert_with(): the relay that is there first stays, and the pump of
\* the other one runs on without a handle.
Insert(t) ==
    LET k == task[t].key
        r == task[t].relay
    IN  \/ /\ assoc[k] = None
           /\ assoc' = [assoc EXCEPT ![k] = r]
           /\ task' = [task EXCEPT ![t].stage = "send"]
           /\ UNCHANGED detached
        \/ /\ assoc[k] # None
           /\ task' = [task EXCEPT ![t].stage = "send", ![t].relay = assoc[k]]
           /\ detached' = detached \cup {r}
           /\ UNCHANGED assoc

\* The pump is spawned and the table updated.
Opened(t) ==
    /\ task[t].stage = "insert"
    /\ pump' = [pump EXCEPT ![task[t].relay] = "running"]
    /\ Insert(t)
    /\ UNCHANGED <<policy, phase, auth, socks, swaps, packets, used, sent>>

\* relay.send_to, after which the task lets the relay go.
SendTo(t) ==
    LET k == task[t].key
    IN  /\ task[t].stage = "send"
        /\ sent' = task[t].read
        /\ used' = [used EXCEPT ![k] = IF task[t].stale THEN @ ELSE @ \cup {task[t].relay}]
        /\ task' = [task EXCEPT ![t] = Idle]
        /\ UNCHANGED <<policy, phase, auth, assoc, pump, socks, swaps, packets,
                       detached>>

\* An aborted pump is gone; a pump whose connection is closed ends with the next
\* return packet, if there is one.
PumpEnds(r) ==
    /\ pump[r] = "aborted"
    /\ pump' = [pump EXCEPT ![r] = "none"]
    /\ UNCHANGED <<policy, phase, auth, task, assoc, socks, swaps, packets, history>>

PumpBreaks(r) ==
    /\ pump[r] = "running" /\ phase \in {"closed", "over"} /\ assoc[Socks] # r
    /\ pump' = [pump EXCEPT ![r] = "none"]
    /\ UNCHANGED <<policy, phase, auth, task, assoc, socks, swaps, packets, history>>

-------------------------------------------------------------------------------
(* TUIC: the end of a connection *)

\* The client or the network closes, or nobody authenticated in time.
Close ==
    /\ phase \in {"open", "draining"}
    /\ phase' = "closed"
    /\ UNCHANGED <<policy, auth, task, assoc, pump, socks, swaps, packets, history>>

\* Shutdown: the loops accept nothing more, what they started goes on.
Shutdown ==
    /\ phase = "open"
    /\ phase' = "draining"
    /\ UNCHANGED <<policy, auth, task, assoc, pump, socks, swaps, packets, history>>

\* Faulty variant: the commands in flight are not waited for.
LoopsLeft == task[Datagrams].stage = "idle"

\* The loops end after every task they spawned.
LoopsJoined == \A t \in Tuic : task[t].stage = "idle"

\* The table is cleared and the connection closed.
HandlerEnds ==
    /\ phase \in {"draining", "closed"}
    /\ LoopsJoined
    /\ phase' = "over"
    /\ assoc' = [k \in Key |-> IF k = Socks THEN assoc[k] ELSE None]
    /\ Drop({assoc[a] : a \in AssocId})
    /\ UNCHANGED <<policy, auth, task, socks, swaps, packets, history>>

-------------------------------------------------------------------------------
(* SOCKS5: serve_associate *)

\* A datagram of the latched client; one decision serves both questions.
SocksPacket(user, h) ==
    LET d == policy[<<user, h>>]
        p == [Idle EXCEPT !.user = user, !.host = h, !.key = Socks, !.read = d]
    IN  /\ socks # "over" /\ task[Socks].stage = "idle"
        /\ packets < MaxPackets /\ packets' = packets + 1
        /\ task' = [task EXCEPT ![Socks] =
              IF d.type = "block" THEN Idle
              ELSE IF assoc[Socks] # None THEN [p EXCEPT !.stage = "send", !.relay = assoc[Socks]]
              ELSE [p EXCEPT !.stage = "open", !.todo = Candidates(d)]]
        /\ UNCHANGED <<policy, phase, auth, assoc, pump, socks, swaps, history>>

\* The client closes the control connection; the task sees it once it is back in
\* its select, and aborts the downlink.
SocksClose ==
    /\ socks = "open"
    /\ socks' = "closed"
    /\ UNCHANGED <<policy, phase, auth, task, assoc, pump, swaps, packets, history>>

\* Faulty variant: the downlink is left running.
SocksEndsQuietly ==
    /\ socks = "closed" /\ task[Socks].stage = "idle"
    /\ socks' = "over"
    /\ assoc' = [assoc EXCEPT ![Socks] = None]
    /\ UNCHANGED <<policy, phase, auth, task, pump, swaps, packets, history>>

SocksEnds ==
    /\ socks = "closed" /\ task[Socks].stage = "idle"
    /\ socks' = "over"
    /\ assoc' = [assoc EXCEPT ![Socks] = None]
    /\ Drop({assoc[Socks]})
    /\ UNCHANGED <<policy, phase, auth, task, swaps, packets, history>>

-------------------------------------------------------------------------------

\* Engine::replace
Swap(p) ==
    /\ swaps < MaxSwaps /\ p # policy
    /\ policy' = p /\ swaps' = swaps + 1
    /\ UNCHANGED <<phase, auth, task, assoc, pump, socks, packets, history>>

Step(t) == OpenAssociation(t) \/ OpenUdp(t) \/ TryNext(t) \/ Exhausted(t) \/ Opened(t) \/ SendTo(t)

Next ==
    \/ \E t \in Task : Step(t)
    \/ \E h \in Host, a \in AssocId : Datagram(h, a)
    \/ \E t \in Uni :
        \/ AcceptUni(t) \/ UniFails(t)
        \/ \E u \in User : Authenticate(t, u)
        \/ \E a \in AssocId : Dissociate(t, a) \/ \E h \in Host : UniPacket(t, h, a)
    \/ \E r \in Relay : PumpEnds(r) \/ PumpBreaks(r)
    \/ Close \/ Shutdown \/ HandlerEnds
    \/ \E u \in User, h \in Host : SocksPacket(u, h)
    \/ SocksClose \/ SocksEnds
    \/ \E p \in Policy : Swap(p)

Spec == Init /\ [][Next]_vars

\* Fairness.  Tasks keep running: opens are bounded by their timeouts, a command
\* stream ends with its connection, an aborted task is cancelled.  Clients,
\* swaps and return packets owe nothing.
FairSpec ==
    /\ Spec
    /\ \A t \in Task : WF_vars(Step(t))
    /\ \A t \in Uni : WF_vars(UniFails(t))
    /\ \A r \in Relay : WF_vars(PumpEnds(r))
    /\ WF_vars(HandlerEnds) /\ WF_vars(SocksEnds)

-------------------------------------------------------------------------------
(* Properties *)

\* An association sticks to its hop: between two DISSOCIATEs all its packets
\* leave through one relay, even if several first packets each opened one.
Sticky == \A k \in Key : Cardinality(used[k]) <= 1

\* Every packet that leaves was decided for itself, under the snapshot served
\* when it was read, whatever relay was already there.
PerPacketPolicy == sent # None => sent.type # "block"

\* Once handle_connection has cleared the table nothing is entered any more: no
\* late command brings an association back that nobody would remove.
NothingAfterTeardown ==
    phase = "over" => \A a \in AssocId : assoc[a] = None

\* The associations of a connection are sound.
TableSound == TypeOK /\ Sticky /\ NothingAfterTeardown

\* When both frontends are over their relays, and the hop permits and sockets
\* behind them, are released, except those that lost the race for the table.
Released == phase = "over" /\ socks = "over" ~> Live \subseteq detached

\* docs/client-setup.md, docs/tuic.md and the module comment of socks5_udp.rs: a
\* packet whose decision is not a reverse hop is dropped.
OnlyReverseCarriesUdp == sent # None => Candidates(sent) # {}
===============================================================================
