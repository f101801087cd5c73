---------------------------- MODULE DatagramCodec ----------------------------
(***************************************************************************)
(* The datagram formats of the node, octet by octet: SOCKS5 UDP            *)
(* (src/src/inbound/socks5_udp.rs), TUIC (src/src/inbound/tuic/codec.rs),  *)
(* the reverse hop (src/src/reverse/frame.rs), reverse ingress             *)
(* (src/src/ingress/frame.rs) and Subnetra (src/src/subnetra/wire.rs).     *)
(*                                                                         *)
(* A datagram is a sequence of octets.  Numbers that no decoder computes   *)
(* with (session, lease and flow ids, sequence numbers) are fields of      *)
(* octets of their width.  A host is the text a client or the hop sees:    *)
(* the text of an address is a marker before its octets, any other         *)
(* sequence is a name.  Names are valid UTF-8.                             *)
(***************************************************************************)
EXTENDS Naturals, Sequences, Bitwise

CONSTANT Pad(_)      \* the header mask of a Subnetra link for the tag of a datagram

Marker == 0
Text(octets) == <<Marker>> \o octets
IsV4(host)   == Len(host) = 5 /\ host[1] = Marker
IsV6(host)   == Len(host) = 17 /\ host[1] = Marker

\* What every decoder answers: refused, or a value and where it stopped.
Bad == [ok |-> FALSE]
Got(value, next) == [ok |-> TRUE, value |-> value, next |-> next]

\* u16::to_be_bytes and from_be_bytes; a larger length is cut as by "as u16".
BigEndian(n) == <<(n \div 256) % 256, n % 256>>
Number(buf, i) == 256 * buf[i] + buf[i + 1]

\* The octets from offset a up to offset b, as in &buf[a..b].
Slice(buf, a, b) == SubSeq(buf, a + 1, b)

-----------------------------------------------------------------------------
(* SOCKS5 UDP *)

\* A host of the given size at offset off, its port behind it.
Fixed(buf, off, size) ==
    IF Len(buf) < off + size + 2 THEN Bad
    ELSE Got([host |-> Text(Slice(buf, off, off + size)), port |-> Number(buf, off + size + 1)],
             off + size + 2)

\* A name behind its length octet; an empty one is refused.
Named(buf, off) ==
    IF Len(buf) <= off THEN Bad
    ELSE LET end == off + 1 + buf[off + 1]
         IN  IF end = off + 1 \/ Len(buf) < end + 2 THEN Bad
             ELSE Got([host |-> Slice(buf, off + 1, end), port |-> Number(buf, end + 1)], end + 2)

\* parse_udp_datagram
socks_parse(buf) ==
    IF Len(buf) < 4 THEN Bad
    ELSE LET a == CASE buf[4] = 1 -> Fixed(buf, 4, 4)
                    [] buf[4] = 4 -> Fixed(buf, 4, 16)
                    [] buf[4] = 3 -> Named(buf, 4)
                    [] OTHER -> Bad
         IN  IF ~a.ok THEN Bad
             ELSE Got([frag |-> buf[3], host |-> a.value.host, port |-> a.value.port], a.next)

\* encode_udp_datagram: a name of more than 255 octets is cut.
socks_encode(host, port, data) ==
    LET cut == IF Len(host) > 255 THEN SubSeq(host, 1, 255) ELSE host
    IN  <<0, 0, 0>>
        \o (IF IsV4(host) THEN <<1>> \o Tail(host)
            ELSE IF IsV6(host) THEN <<4>> \o Tail(host) ELSE <<3, Len(cut)>> \o cut)
        \o BigEndian(port) \o data

-----------------------------------------------------------------------------
(* TUIC *)

Version   == 5
Packet    == 2
Heartbeat == 4
NoHost    == [host |-> <<>>, port |-> 0, none |-> TRUE]
Target(a) == [host |-> a.host, port |-> a.port, none |-> FALSE]

\* Address::from_host_port and Address::encode
address_encode(a) ==
    IF a.none THEN <<255>>
    ELSE LET cut == IF Len(a.host) > 255 THEN SubSeq(a.host, 1, 255) ELSE a.host
         IN  (IF IsV4(a.host) THEN <<1>> \o Tail(a.host)
              ELSE IF IsV6(a.host) THEN <<2>> \o Tail(a.host) ELSE <<0, Len(cut)>> \o cut)
             \o BigEndian(a.port)

\* parse_address: from a whole buffer; a name may be empty.
parse_address(buf) ==
    LET Has(r) == IF r.ok THEN Got(Target(r.value), r.next) ELSE Bad
    IN  IF buf = <<>> THEN Bad
        ELSE CASE buf[1] = 255 -> Got(NoHost, 1)
               [] buf[1] = 1 -> Has(Fixed(buf, 1, 4))
               [] buf[1] = 2 -> Has(Fixed(buf, 1, 16))
               [] buf[1] = 0 ->
                    IF Len(buf) < 2 \/ Len(buf) < 4 + buf[2] THEN Bad
                    ELSE Got([host |-> Slice(buf, 2, 2 + buf[2]),
                              port |-> Number(buf, 3 + buf[2]), none |-> FALSE], 4 + buf[2])
               [] OTHER -> Bad

\* read_exact: the next n octets of a stream, or its end.
Exact(stream, n) ==
    IF Len(stream) < n THEN Bad
    ELSE [ok |-> TRUE, octets |-> SubSeq(stream, 1, n), rest |-> SubSeq(stream, n + 1, Len(stream))]

\* read_address: from a stream, piece by piece; what is left of the stream is for the payload.
read_address(stream) ==
    LET t == Exact(stream, 1)
        Then(addr, Value(_)) ==
            IF ~addr.ok THEN Bad
            ELSE LET port == Exact(addr.rest, 2)
                 IN  IF ~port.ok THEN Bad
                     ELSE [ok |-> TRUE, rest |-> port.rest,
                           value |-> [host |-> Value(addr.octets), port |-> Number(port.octets, 1),
                                      none |-> FALSE]]
        Plain(o) == o
    IN  IF ~t.ok THEN Bad
        ELSE CASE t.octets[1] = 255 -> [ok |-> TRUE, rest |-> t.rest, value |-> NoHost]
               [] t.octets[1] = 1 -> Then(Exact(t.rest, 4), Text)
               [] t.octets[1] = 2 -> Then(Exact(t.rest, 16), Text)
               [] t.octets[1] = 0 ->
                    LET l == Exact(t.rest, 1)
                    IN  IF ~l.ok THEN Bad ELSE Then(Exact(l.rest, l.octets[1]), Plain)
               [] OTHER -> Bad

\* parse_packet_header: association, packet id, fragments and size before the address.
parse_packet_header(buf) ==
    IF Len(buf) < 8 THEN Bad
    ELSE LET a == parse_address(SubSeq(buf, 9, Len(buf)))
         IN  IF ~a.ok THEN Bad
             ELSE Got([assoc |-> Slice(buf, 0, 2), pkt |-> Slice(buf, 2, 4), frag_total |-> buf[5],
                       frag_id |-> buf[6], size |-> Number(buf, 7), addr |-> a.value], 8 + a.next)

\* parse_datagram: the payload has the size the header says, not what is left.
tuic_parse(buf) ==
    IF Len(buf) < 2 \/ buf[1] # Version THEN Bad
    ELSE CASE buf[2] = Heartbeat -> Got("heartbeat", 2)
           [] buf[2] = Packet ->
                LET h == parse_packet_header(SubSeq(buf, 3, Len(buf)))
                    end == 2 + h.next + h.value.size
                IN  IF ~h.ok THEN Bad
                    ELSE IF end > Len(buf) THEN Bad
                    ELSE Got([head |-> h.value, data |-> Slice(buf, 2 + h.next, end)], end)
           [] OTHER -> Bad

\* encode_packet_datagram: one fragment.
tuic_encode(assoc, pkt, addr, data) ==
    <<Version, Packet>> \o assoc \o pkt \o <<1, 0>> \o BigEndian(Len(data))
    \o address_encode(addr) \o data

-----------------------------------------------------------------------------
(* Reverse hop *)

\* encode_datagram: a name that does not fit its length octet is not sent.
reverse_encode(session, host, port, data) ==
    IF ~IsV4(host) /\ ~IsV6(host) /\ Len(host) > 255 THEN Bad
    ELSE Got(session
             \o (IF IsV4(host) THEN <<1>> \o Tail(host)
                 ELSE IF IsV6(host) THEN <<4>> \o Tail(host) ELSE <<3, Len(host)>> \o host)
             \o BigEndian(port) \o data, 0)

\* parse_datagram
reverse_parse(buf) ==
    IF Len(buf) < 5 THEN Bad
    ELSE LET a == CASE buf[5] = 1 -> Fixed(buf, 5, 4)
                    [] buf[5] = 4 -> Fixed(buf, 5, 16)
                    [] buf[5] = 3 -> Named(buf, 5)
                    [] OTHER -> Bad
         IN  IF ~a.ok THEN Bad
             ELSE Got([session |-> Slice(buf, 0, 4), host |-> a.value.host, port |-> a.value.port,
                       data |-> Slice(buf, a.next, Len(buf))], a.next)

-----------------------------------------------------------------------------
(* Reverse ingress *)

Magic    == <<82, 73, 1>>
Uplink   == 1
Downlink == 2
FixedLen == 28

encode_addr(a) == <<IF IsV4(a.host) THEN 4 ELSE 6>> \o Tail(a.host) \o BigEndian(a.port)

decode_addr(buf, off) ==
    IF Len(buf) <= off THEN Bad
    ELSE CASE buf[off + 1] = 4 -> Fixed(buf, off + 1, 4)
           [] buf[off + 1] = 6 -> Fixed(buf, off + 1, 16)
           [] OTHER -> Bad

\* Datagram::encode; only the uplink carries the address of the client.
ingress_encode(d) ==
    Magic \o <<d.kind>> \o d.lease \o d.flow
    \o (IF d.kind = Uplink THEN encode_addr(d.client) ELSE <<>>) \o d.data

\* Datagram::parse
ingress_parse(buf) ==
    IF Len(buf) < FixedLen \/ SubSeq(buf, 1, 3) # Magic THEN Bad
    ELSE LET Rest(n) == Slice(buf, n, Len(buf))
             lease   == Slice(buf, 4, 12)
             flow    == Slice(buf, 12, 28)
             a       == decode_addr(buf, FixedLen)
         IN  CASE buf[4] = Uplink ->
                    IF ~a.ok THEN Bad
                    ELSE Got([kind |-> Uplink, lease |-> lease, flow |-> flow, client |-> a.value,
                              data |-> Rest(a.next)], a.next)
               [] buf[4] = Downlink ->
                    Got([kind |-> Downlink, lease |-> lease, flow |-> flow, data |-> Rest(FixedLen)],
                        FixedLen)
               [] OTHER -> Bad

-----------------------------------------------------------------------------
(* Subnetra *)

HeaderLen == 20
TagLen    == 16
Keepalive == 1

\* Header::to_bytes and Header::parse: the ids are little-endian, here fields of octets.
to_bytes(h) == <<h.version, h.flags>> \o h.key_id \o h.epoch \o h.seq
parse_header(buf) ==
    IF Len(buf) < HeaderLen THEN Bad
    ELSE Got([version |-> buf[1], flags |-> buf[2], key_id |-> Slice(buf, 2, 4),
              epoch |-> Slice(buf, 4, 12), seq |-> Slice(buf, 12, 20)], HeaderLen)

\* Header::is_valid: flags & !KEEPALIVE is zero for two values of the octet.
is_valid(h) == h.version = 1 /\ h.flags \in {0, Keepalive} /\ h.epoch # [i \in 1 .. 8 |-> 0]

\* datagram_tag and split
datagram_tag(d) == SubSeq(d, Len(d) - TagLen + 1, Len(d))
split(d) == IF Len(d) < HeaderLen + TagLen THEN Bad
            ELSE [ok |-> TRUE, head |-> SubSeq(d, 1, HeaderLen),
                  body |-> SubSeq(d, HeaderLen + 1, Len(d))]

\* demask_header: XOR with the pad.
demask_header(masked, pad) == [i \in 1 .. HeaderLen |-> masked[i] ^^ pad[i]]

\* seal_datagram: body is what the AEAD returned, Pad(tag) the obfuscation pad of a tag.
seal_datagram(h, body, obfuscate) ==
    (IF obfuscate THEN demask_header(to_bytes(h), Pad(datagram_tag(body))) ELSE to_bytes(h)) \o body
==============================================================================
