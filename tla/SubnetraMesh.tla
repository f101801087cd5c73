---------------------------- MODULE SubnetraMesh ----------------------------
(***************************************************************************)
(* One node of the overlay mesh below its network stack: the validation of *)
(* its configuration (subnetra/config.rs), the peer table (peer.rs), the   *)
(* reactor (reactor.rs) and the packet pump of a kernel device             *)
(* (device/mod.rs).                                                        *)
(*                                                                         *)
(* Addresses are sequences of bits and networks are prefixes of them.      *)
(* A datagram is [claims, by, id, inner, via]: the peer its header names,  *)
(* the peer whose key sealed it (NoPeer for a forged one), its place in    *)
(* that peer's stream, the sealed packet [kind, src, dst, ...], whose kind *)
(* is "ip", "keepalive" or "junk", and where it came from.                 *)
(* The sessions of peer.rs appear by what SubnetraLink promises of them:   *)
(* an authentic datagram is taken once.                                    *)
(***************************************************************************)
EXTENDS Integers, Sequences, FiniteSets

CONSTANTS
    Configs,        \* configurations an operator may write
    Datagrams(_, _), \* datagrams the underlay may deliver, for a configuration and what was taken
    HostPackets,    \* packets the host may route to the kernel device
    ChannelDepth,   \* depth of the channels to and from the reactor
    MinMtu, MaxMtu  \* MIN_INNER_MTU and INNER_MTU

None   == "none"
NoPeer == 0     \* no route, an unknown sender, the sealer of a forged datagram
Local  == -1    \* the node itself as the origin of a packet
Unset  == 0     \* an mtu or a port that is not configured

ASSUME MeshBounds ==
    /\ ChannelDepth \in Nat \ {0} /\ MinMtu \in Nat /\ MaxMtu \in Nat /\ MinMtu <= MaxMtu
    /\ \A k \in HostPackets : k.ipv4 \in BOOLEAN /\ k.size \in Nat

\* The peers of a configuration are a list, their ids unsigned and their networks bits.
ASSUME ConfigShape ==
    \A c \in Configs :
        /\ c.mtu \in Nat
        /\ Len(c.peers) \in Nat /\ DOMAIN c.peers = 1 .. Len(c.peers)
        /\ \A i \in DOMAIN c.peers : c.peers[i].id \in Nat /\ c.peers[i].allowed_src \in Seq({0, 1})

VARIABLES
    cfg,        \* the configuration the node runs
    endpoint,   \* where each peer was last heard of, or None
    taken,      \* ids of the datagrams each receive session accepted
    toLocal,    \* inner packets for this node
    toMesh,     \* inner packets of this node
    sent,       \* what the last step of the reactor sent: [from, to, inner, at]
    vouched,    \* <<p, e>>: a datagram that p may send arrived from e for the first time
    plane       \* "up"; "closing" once nothing feeds the reactor; "down"

meshVars == <<cfg, endpoint, taken, toLocal, toMesh, sent, vouched, plane>>

Room(queue) == Len(queue) < ChannelDepth
Send(queue, packet) == IF Room(queue) THEN Append(queue, packet) ELSE queue

-----------------------------------------------------------------------------
(* Configuration                                                           *)

PeerIds(c) == {c.peers[i].id : i \in DOMAIN c.peers}

ValidDevice(c) ==
    CASE c.device = "netstack" ->
            c.mode = "hub" => c.proxy.protocol \in {"http", "socks5"} /\ c.proxy.port # Unset
      [] c.device = "tun" -> c.proxy.protocol = None /\ c.proxy.port = Unset /\ c.ifname # None
      [] OTHER -> FALSE

ValidPeer(c, i) ==
    LET p == c.peers[i]
    IN  /\ p.id \notin {NoPeer, c.local_id}
        /\ \A j \in 1 .. i - 1 : c.peers[j].id # p.id
        /\ p.psk # None
        /\ c.mode = "spoke" => p.endpoint # None

\* SubnetraConfig::to_runtime: the configuration is accepted.
to_runtime(c) ==
    /\ c.mode \in {"hub", "spoke"}
    /\ c.local_id # 0
    /\ c.peers # <<>>
    /\ c.mtu = Unset \/ c.mtu \in MinMtu .. MaxMtu
    /\ ValidDevice(c)
    /\ \A i \in DOMAIN c.peers : ValidPeer(c, i)

Mtu == IF cfg.mtu = Unset THEN MaxMtu ELSE cfg.mtu

-----------------------------------------------------------------------------
(* The peer table                                                          *)

contains(net, addr) == Len(net) <= Len(addr) /\ SubSeq(addr, 1, Len(net)) = net

Allowed(p) == cfg.peers[CHOOSE i \in DOMAIN cfg.peers : cfg.peers[i].id = p].allowed_src

\* The peer with the longest prefix, the last of them in the table when several have it.
route(dst) ==
    LET own == {i \in DOMAIN cfg.peers : contains(cfg.peers[i].allowed_src, dst)}
        best == {i \in own : \A j \in own : Len(cfg.peers[j].allowed_src) <= Len(cfg.peers[i].allowed_src)}
    IN  IF own = {} THEN NoPeer ELSE cfg.peers[CHOOSE i \in best : \A j \in best : j <= i].id

\* The header names a peer; under obfuscation only the key of its sealer makes it readable.
select(d) ==
    LET p == IF cfg.obfuscate THEN d.by ELSE d.claims
    IN  IF p \in PeerIds(cfg) THEN p ELSE NoPeer

\* RxSession::accept, as SubnetraLink promises it.
accept(p, d) == p # NoPeer /\ d.by = p /\ d.id \notin taken[p]

MaySend(p, d) ==
    \/ d.inner.kind = "keepalive"
    \/ d.inner.kind = "ip" /\ contains(Allowed(p), d.inner.src)

\* Faulty: the endpoint is learned as soon as the tag verifies.
learnsEarly(p, d) == accept(p, d)

\* The endpoint moves after the check of the inner source, and on a keepalive.
learns(p, d) == accept(p, d) /\ MaySend(p, d)

\* A peer whose endpoint is unknown cannot be sent to.
seal_for(from, to, inner) ==
    IF endpoint[to] = None THEN {} ELSE {[from |-> from, to |-> to, inner |-> inner, at |-> endpoint[to]]}

-----------------------------------------------------------------------------
(* The reactor                                                             *)

\* Faulty: a packet may go back to the peer it came from.
relayReflects(p, inner) ==
    IF cfg.mode # "hub" \/ route(inner.dst) = NoPeer THEN {} ELSE seal_for(p, route(inner.dst), inner)

\* Reactor::relay, with the guard against reflection; a spoke relays nothing.
relay(p, inner) ==
    IF cfg.mode # "hub" \/ route(inner.dst) \in {NoPeer, p} THEN {} ELSE seal_for(p, route(inner.dst), inner)

\* handle_inbound: PeerTable::ingest and the decision where the packet goes; nobody takes one
\* for this node once the pump has stopped.
Inbound(d) ==
    LET p    == select(d)
        data == learns(p, d) /\ MaySend(p, d) /\ d.inner.kind = "ip"
        here == data /\ d.inner.dst = cfg.overlay_ip
    IN  /\ plane # "down"
        /\ taken' = IF accept(p, d) THEN [taken EXCEPT ![p] = @ \cup {d.id}] ELSE taken
        /\ endpoint' = IF learns(p, d) THEN [endpoint EXCEPT ![p] = d.via] ELSE endpoint
        /\ toLocal' = IF here /\ plane = "up" THEN Send(toLocal, d.inner) ELSE toLocal
        /\ sent' = IF data /\ ~here THEN relay(p, d.inner) ELSE {}
        /\ vouched' = IF d.by \in PeerIds(cfg) /\ d.id \notin taken[d.by] /\ MaySend(d.by, d)
                      THEN vouched \cup {<<d.by, d.via>>} ELSE vouched
        /\ UNCHANGED <<cfg, toMesh, plane>>

\* handle_outbound: a packet of this node goes to the peer that owns its destination.
Outbound ==
    /\ plane # "down" /\ toMesh # <<>>
    /\ toMesh' = Tail(toMesh)
    /\ LET to == route(Head(toMesh).dst)
       IN  sent' = IF to = NoPeer THEN {} ELSE seal_for(Local, to, Head(toMesh))
    /\ UNCHANGED <<cfg, endpoint, taken, toLocal, vouched, plane>>

\* The keepalive timer of a spoke.
send_keepalives ==
    /\ plane # "down" /\ cfg.mode = "spoke"
    /\ sent' = UNION {seal_for(Local, p, [kind |-> "keepalive"]) : p \in PeerIds(cfg)}
    /\ UNCHANGED <<cfg, endpoint, taken, toLocal, toMesh, vouched, plane>>

\* The last handle was dropped and the channel is empty: the reactor returns.
ReactorExit ==
    /\ plane = "closing" /\ toMesh = <<>>
    /\ plane' = "down"
    /\ UNCHANGED <<cfg, endpoint, taken, toLocal, toMesh, sent, vouched>>

-----------------------------------------------------------------------------
(* The pump of a kernel device                                             *)

\* Faulty: the source of a packet from the host is not looked at.
verdictTrusts(packet) ==
    CASE ~packet.ipv4 -> "not_ipv4"
      [] packet.ipv4 /\ packet.size > Mtu -> "too_big"
      [] packet.ipv4 /\ packet.size <= Mtu /\ ~contains(cfg.overlay_net, packet.dst) -> "off_overlay"
      [] OTHER -> "forward"

\* egress_verdict: the checks in their order.
egress_verdict(packet) ==
    CASE ~packet.ipv4 -> "not_ipv4"
      [] packet.ipv4 /\ packet.size > Mtu -> "too_big"
      [] packet.ipv4 /\ packet.size <= Mtu /\ packet.src # cfg.overlay_ip -> "spoofed_src"
      [] packet.ipv4 /\ packet.size <= Mtu /\ packet.src = cfg.overlay_ip
            /\ ~contains(cfg.overlay_net, packet.dst) -> "off_overlay"
      [] OTHER -> "forward"

\* A packet of the host: dropped and counted, or sent to the reactor once it has room.
PumpFromDevice(packet) ==
    /\ plane = "up" /\ cfg.device = "tun"
    /\ egress_verdict(packet) = "forward"
    /\ Room(toMesh)
    /\ toMesh' = Append(toMesh, [kind |-> "ip", src |-> packet.src, dst |-> packet.dst])
    /\ UNCHANGED <<cfg, endpoint, taken, toLocal, sent, vouched, plane>>

PumpToDevice ==
    /\ plane = "up" /\ cfg.device = "tun" /\ toLocal # <<>>
    /\ toLocal' = Tail(toLocal)
    /\ UNCHANGED <<cfg, endpoint, taken, toMesh, sent, vouched, plane>>

\* Shutdown ends both directions of the pump and drops its handle of the reactor.
PumpStop ==
    /\ plane = "up" /\ cfg.device = "tun"
    /\ plane' = "closing"
    /\ UNCHANGED <<cfg, endpoint, taken, toLocal, toMesh, sent, vouched>>

-----------------------------------------------------------------------------

\* start_until and start_tun begin with to_runtime: a refused configuration starts nothing.
MeshInit ==
    /\ cfg \in {c \in Configs : to_runtime(c)}
    /\ endpoint = [p \in PeerIds(cfg) |->
                     cfg.peers[CHOOSE i \in DOMAIN cfg.peers : cfg.peers[i].id = p].endpoint]
    /\ taken = [p \in PeerIds(cfg) |-> {}]
    /\ toLocal = <<>> /\ toMesh = <<>>
    /\ sent = {} /\ vouched = {}
    /\ plane = "up"

MeshNext ==
    \/ \E d \in Datagrams(cfg, taken) : Inbound(d)
    \/ Outbound \/ send_keepalives \/ ReactorExit
    \/ PumpToDevice \/ PumpStop \/ \E packet \in HostPackets : PumpFromDevice(packet)

-----------------------------------------------------------------------------
(* Properties                                                              *)

\* A peer is only sent to where it was configured, or where a packet it may send first came
\* from: no replayed, forged or spoofed datagram moves an endpoint (peer.rs).
EndpointVouched ==
    \A p \in PeerIds(cfg) :
        \/ endpoint[p] = cfg.peers[CHOOSE i \in DOMAIN cfg.peers : cfg.peers[i].id = p].endpoint
        \/ <<p, endpoint[p]>> \in vouched

\* Whatever a node sends goes to the owner of the destination, with a source its origin may
\* use; only a hub relays, and never back (reactor.rs, device/mod.rs).
RelayedRight ==
    \A m \in sent : m.inner.kind = "ip" =>
        /\ m.from # m.to
        /\ IF m.from = Local THEN m.inner.src = cfg.overlay_ip
                             ELSE cfg.mode = "hub" /\ contains(Allowed(m.from), m.inner.src)
        /\ contains(Allowed(m.to), m.inner.dst)
        /\ \A p \in PeerIds(cfg) :
             contains(Allowed(p), m.inner.dst) => Len(Allowed(p)) <= Len(Allowed(m.to))
=============================================================================
