----------------------------- MODULE MCOverlay -----------------------------
(* A hub and a spoke with each device, and configurations that are refused. *)
EXTENDS Netstack

CONSTANT MaxSegments   \* bound: segments the peer sends to a user-space stack

Peer(id, at, net_) == [id |-> id, psk |-> "key", endpoint |-> at, allowed_src |-> net_]
Config(mode, device, proxy, ifname, mtu, obfuscate, peers) ==
    [mode |-> mode, device |-> device, proxy |-> proxy, ifname |-> ifname, mtu |-> mtu,
     obfuscate |-> obfuscate, local_id |-> 9, overlay_ip |-> <<0, 0>>, overlay_net |-> <<0>>,
     peers |-> peers]
NoProxy == [protocol |-> None, port |-> Unset]
Socks   == [protocol |-> "socks5", port |-> 1080]

Two == <<Peer(1, None, <<0, 1>>), Peer(2, "e2", <<1>>)>>
One == <<Peer(1, "e1", <<0, 1>>)>>
MCConfigs ==
    {Config("hub", "tun", NoProxy, "rove0", Unset, FALSE, Two),
     Config("hub", "tun", NoProxy, "rove0", Unset, TRUE, Two),
     Config("spoke", "tun", NoProxy, "rove0", 2, FALSE, One),
     Config("hub", "netstack", Socks, None, Unset, FALSE, One),
     Config("spoke", "netstack", NoProxy, None, Unset, FALSE, One),
     Config("spoke", "tun", NoProxy, "rove0", Unset, FALSE, Two),
     Config("hub", "netstack", NoProxy, None, Unset, FALSE, One),
     Config("hub", "tun", Socks, "rove0", Unset, FALSE, One),
     Config("hub", "tun", NoProxy, "rove0", 1, FALSE, Two)}

Datagram(claims, by, id, inner, via) ==
    [claims |-> claims, by |-> by, id |-> id, inner |-> inner, via |-> via]
Ip(src, dst) == [kind |-> "ip", src |-> src, dst |-> dst]
TunDatagrams ==
    {Datagram(1, 1, 1, Ip(<<0, 1>>, <<0, 0>>), "e1"), Datagram(1, 1, 1, Ip(<<0, 1>>, <<0, 0>>), "e2"),
     Datagram(1, 1, 2, Ip(<<0, 1>>, <<1, 1>>), "e1"), Datagram(1, 1, 3, Ip(<<0, 1>>, <<0, 1>>), "e2"),
     Datagram(1, 1, 4, Ip(<<1, 0>>, <<0, 1>>), "e3"), Datagram(1, 1, 5, [kind |-> "junk"], "e3"),
     Datagram(2, 2, 1, [kind |-> "keepalive"], "e1"), Datagram(2, 2, 2, Ip(<<1, 0>>, <<0, 1>>), "e2"),
     Datagram(1, NoPeer, 6, Ip(<<0, 1>>, <<0, 0>>), "e3")}
TcpSegment(f, seg) ==
    [kind |-> "ip", src |-> <<0, 1>>, dst |-> <<0, 0>>, flow |-> f, seg |-> seg]
StackDatagrams(c, n) ==
    IF n >= MaxSegments THEN {} ELSE
    LET opening == IF c.mode = "hub" THEN "syn" ELSE "synack"
    IN  {Datagram(1, 1, n + 1, TcpSegment(f, seg), "e1") :
            <<f, seg>> \in {1} \X {opening, "ack", "data", "fin", "rst"}
                          \cup (Flows \ {1}) \X {opening, "ack", "rst"}}
MCDatagrams(c, t) == IF c.device = "tun" THEN TunDatagrams ELSE StackDatagrams(c, Cardinality(t[1]))
\* The hypothesis DatagramShape of Netstack_proofs holds here, whatever was taken before.
ASSUME StackDatagramsShaped ==
    \A c \in Configs : c.device = "netstack" =>
        \A n \in 0 .. MaxSegments : \A d \in StackDatagrams(c, n) :
            d.id \in Nat /\ (d.inner.kind = "ip" => d.inner \in TcpPacket)

MCDialled(c) == IF c.mode = "spoke" THEN {1} ELSE {}

Host(ipv4, size, src, dst) == [ipv4 |-> ipv4, size |-> size, src |-> src, dst |-> dst]
MCHostPackets == {Host(TRUE, 2, <<0, 0>>, <<0, 1>>), Host(TRUE, 2, <<0, 1>>, <<0, 1>>),
                  Host(TRUE, 3, <<0, 0>>, <<0, 1>>), Host(TRUE, 2, <<0, 0>>, <<1, 1>>),
                  Host(FALSE, 2, <<0, 0>>, <<0, 1>>)}
=============================================================================
