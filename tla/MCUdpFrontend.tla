---------------------------- MODULE MCUdpFrontend ----------------------------
(* Small instances of UdpFrontend for TLC. *)
EXTENDS UdpFrontend

Reverse(h) == [kind |-> "reverse", hop |-> h]
Other      == [kind |-> "other", hop |-> "h1"]
Block      == [type |-> "block", members |-> <<>>]
Direct     == [type |-> "direct", members |-> <<>>]
Via(ms)    == [type |-> "via", members |-> ms]

\* A chain of two hops behind an upstream that carries no UDP, and host y
\* blocked; later host y through one hop and host x blocked.
First  == [x \in User \X Host |-> IF x[2] = "x" THEN Via(<<Other, Reverse("h1"), Reverse("h2")>>)
                                  ELSE Block]
Second == [x \in User \X Host |-> IF x[2] = "x" THEN Block ELSE Via(<<Reverse("h2")>>)]
Swapped == {First, Second}

\* One hop for host x, host y directly.
Mixed  == {[x \in User \X Host |-> IF x[2] = "x" THEN Via(<<Reverse("h1")>>) ELSE Direct]}
-------------------------------------------------------------------------------
(* The datagram formats a packet crosses between a client and a hop. *)
HeaderPad(tag) == [i \in 1 .. 20 |-> (tag[1] + i) % 256]
D == INSTANCE DatagramCodec WITH Pad <- HeaderPad

Octets(n, x) == [i \in 1 .. n |-> x]
\* Addresses, the shortest and the longest name that fits, and one that does not.
Hosts == {D!Text(<<1, 2, 3, 4>>), D!Text(Octets(16, 7)), <<97>>, Octets(255, 97), Octets(256, 98)}
Fits(h) == Len(h) <= 255
Ports == {0, 80, 65535}
Loads == {<<>>, <<9>>, <<4, 255>>}

\* A decoder undoes its encoder and refuses everything that is cut short inside the header; what
\* follows the header is the payload, untouched.
ReadsBack(Encode(_, _, _), Decode(_), At(_), Data(_, _)) ==
    \A h \in Hosts, p \in Ports, d \in Loads :
        LET buf == Encode(h, p, d) r == Decode(buf) IN
        /\ r.ok /\ At(r).port = p /\ Data(buf, r) = d
        /\ At(r).host = IF Fits(h) THEN h ELSE SubSeq(h, 1, 255)
        /\ \A n \in 0 .. Len(buf) - Len(d) - 1 : ~ Decode(SubSeq(buf, 1, n)).ok

SocksData(buf, r) == SubSeq(buf, r.next + 1, Len(buf))
SocksHost(r)      == r.value
TuicPacket(h, p, d) == D!tuic_encode(<<0, 1>>, <<0, 2>>, [host |-> h, port |-> p, none |-> FALSE], d)
TuicHost(r)       == r.value.head.addr
TuicData(buf, r)  == r.value.data

\* socks5_udp.rs and tuic/codec.rs: both frontends read what they write, and a TUIC packet whose
\* payload is shorter than its header says is refused.
ASSUME FrontendsReadBack ==
    /\ ReadsBack(D!socks_encode, D!socks_parse, SocksHost, SocksData)
    /\ ReadsBack(TuicPacket, D!tuic_parse, TuicHost, TuicData)
    /\ \A h \in Hosts, d \in Loads : \A n \in 0 .. Len(TuicPacket(h, 80, d)) - 1 :
        ~ D!tuic_parse(SubSeq(TuicPacket(h, 80, d), 1, n)).ok

\* tuic/codec.rs: the address parser for streams and the one for buffers accept the same input,
\* read the same address and leave the same rest, whole or cut anywhere, of every type.
ASSUME StreamAgrees ==
    \A h \in Hosts \cup {<<>>}, none \in BOOLEAN, d \in Loads, t \in {0, 1, 2, 3, 255} :
        LET encoded == D!address_encode([host |-> h, port |-> 80, none |-> none])
            whole   == <<t>> \o Tail(encoded) \o d
        IN  \A n \in 0 .. Len(whole) :
                LET buf == SubSeq(whole, 1, n)
                    a == D!parse_address(buf) s == D!read_address(buf)
                IN  /\ a.ok = s.ok
                    /\ a.ok => a.value = s.value /\ s.rest = SubSeq(buf, a.next + 1, n)

\* reverse/frame.rs behind either frontend: the hop is asked for the host and port the client
\* named, for the session the edge chose, with the payload unchanged; a name the format cannot
\* hold is not sent, and no datagram cut short in its header is taken for another one.
ASSUME HopSeesTarget ==
    \A h \in Hosts, p \in Ports, d \in Loads :
        LET asked == D!socks_parse(D!socks_encode(h, p, d)).value
            wire  == D!reverse_encode(<<0, 0, 1, 0>>, asked.host, asked.port, d)
            r     == D!reverse_parse(wire.value)
        IN  /\ wire.ok /\ r.ok
            /\ r.value = [session |-> <<0, 0, 1, 0>>, host |-> asked.host, port |-> p, data |-> d]
            /\ \A n \in 0 .. r.next - 1 : ~ D!reverse_parse(SubSeq(wire.value, 1, n)).ok
            /\ D!reverse_encode(<<0, 0, 1, 0>>, h, p, d).ok = Fits(h)

\* ingress/frame.rs: both directions read back, an uplink is never taken for a downlink, and a cut
\* address is not completed with payload.
ASSUME IngressReadsBack ==
    \A h \in {x \in Hosts : D!IsV4(x) \/ D!IsV6(x)}, d \in Loads :
        LET lease == Octets(8, 1) flow == Octets(16, 2)
            up   == [kind |-> D!Uplink, lease |-> lease, flow |-> flow,
                     client |-> [host |-> h, port |-> 80], data |-> d]
            down == [kind |-> D!Downlink, lease |-> lease, flow |-> flow, data |-> d]
            buf  == D!ingress_encode(up)
            r    == D!ingress_parse(buf)
        IN  /\ r.ok /\ r.value = up
            /\ D!ingress_parse(D!ingress_encode(down)).value = down
            /\ \A n \in 0 .. r.next - 1 : ~ D!ingress_parse(SubSeq(buf, 1, n)).ok

\* subnetra/wire.rs: behind every mask the receiver finds the header the sender wrote, with only
\* the octets of the datagram and the link's pads; keepalives and data have valid headers, the
\* reserved flags and epoch zero have not.
ASSUME HeaderRecovered ==
    \A flags \in 0 .. 3, epoch \in {0, 1, 255}, x \in {0, 85, 255}, masked \in BOOLEAN, d \in Loads :
        LET h      == [version |-> 1, flags |-> flags, key_id |-> <<1, 0>>,
                       epoch |-> <<epoch>> \o Octets(7, 0), seq |-> Octets(8, 5)]
            buf    == D!seal_datagram(h, d \o Octets(D!TagLen, x), masked)
            parts  == D!split(buf)
            clear  == IF masked THEN D!demask_header(parts.head, HeaderPad(D!datagram_tag(buf)))
                      ELSE parts.head
        IN  /\ parts.ok /\ parts.body = d \o Octets(D!TagLen, x)
            /\ D!parse_header(clear).value = h
            /\ D!is_valid(h) = (flags < 2 /\ epoch # 0)
            /\ \A n \in 0 .. D!HeaderLen + D!TagLen - 1 : ~ D!split(SubSeq(buf, 1, n)).ok
===============================================================================
