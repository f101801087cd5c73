---------------------------- MODULE MCReverseTunnel ----------------------------
(* Small instances of ReverseTunnel for TLC. *)
EXTENDS ReverseTunnel, Sequences

CONSTANTS e1, e2

\* One edge rejects a duplicate hop id, the other replaces the older session.
Mixed == [e \in Edge |-> IF e = e1 THEN "reject" ELSE "replace"]
-------------------------------------------------------------------------------
(* The control frames of the reverse hop and of reverse ingress. *)
Small(t) == CASE t = "Hop-Id" -> "hop-id" [] t = "UDP" -> "udp" [] t = "TCP" -> "tcp" [] OTHER -> t
F == INSTANCE FrameCodec WITH
        Lower <- Small, U16 <- {"0", "65535"}, U32 <- {"0", "65535", "65536"},
        U64 <- {"0", "65535", "65536"}, Hex <- {"0a", "0b"}, Address <- {"1.2.3.4:5", "[::1]:6"},
        MaxFrame <- 40, MaxHost <- 2, MaxField <- 4

\* Texts a field may hold, with separators inside, and what may follow a frame on its stream.
Values   == {<<"a">>, <<"a", " ", "b">>, <<"a", ":", "b">>}
Options  == {{}} \cup {{v} : v \in Values}
Payloads == {<<>>, <<"x">>, <<"\n">>, <<"\n", "\n", "x">>, <<"OK", "\n", "\n">>}

Registers  == [hop_id : Values, token : Values, edge_id : Options,
               caps : {<<>>, << <<"udp">> >>, << <<"tcp">>, <<"udp">> >>}]
Tunnels    == [host : {<<"h">>, <<"h", "i">>}, port : {"0", "65535"}, tunnel_id : Options]
Associates == [session_id : {"0", "65536"}, assoc_id : Options]
Dissociates == [session_id : {"0", "65536"}]
Replies    == {[ok |-> TRUE]} \cup [ok : {FALSE}, code : {<<"internal">>, <<"at_capacity">>}]

\* The reader stops exactly at the end of the frame, so that what follows on the stream is whole,
\* and the parser finds what the encoder was given.
Carried(frame, Read(_), Parse(_), value) ==
    \A p \in Payloads :
        LET r == Read(frame \o p)
        IN  r.ok /\ r.value.rest = p /\ Parse(r.value.lines) = F!Ok(value)

AsSet(r) == [r EXCEPT !.caps = {@[i] : i \in DOMAIN @}]

\* reverse/frame.rs: requests and replies survive their encoding, and a tunnel's first bytes are
\* never taken for a part of the reply before them.
ASSUME ReverseCarried ==
    /\ \A r \in Registers : Carried(F!register_encode(r), F!reverse_read, F!register_parse, AsSet(r))
    /\ \A r \in Tunnels : Carried(F!tunnel_encode(r), F!reverse_read, F!tunnel_parse, r)
    /\ \A r \in Associates : Carried(F!associate_encode(r), F!reverse_read, F!associate_parse, r)
    /\ \A r \in Dissociates : Carried(F!dissociate_encode(r), F!reverse_read, F!dissociate_parse, r)
    /\ \A r \in Replies : Carried(F!reply_encode(r), F!reverse_read, F!reply_parse, r)

Leases   == [listener_id : Values, transport : {"tcp", "udp"}, public_port : {"0", "65535"}]
Opens    == [lease_id : {"65536"}, ingress_id : {"0a"}, client : {"1.2.3.4:5", "[::1]:6"},
             public : {"1.2.3.4:5"}, relay_id : Values, session_id : {"0b"}]
Accounts == [node_id : Values, token : Values]
Answers  == [ok : {TRUE}, headers : {{}, {<<"lease-id", <<"7">> >>, <<"public-addr", <<"a", ":", "b">> >>}}]
            \cup [ok : {FALSE}, code : Values]

\* ingress/frame.rs: the same.
ASSUME IngressCarried ==
    /\ \A r \in Accounts :
        Carried(F!ingress_register_encode(r).value, F!ingress_read, F!ingress_register_parse, r)
    /\ \A r \in Leases : Carried(F!lease_encode(r).value, F!ingress_read, F!lease_parse, r)
    /\ \A r \in Opens : Carried(F!open_encode(r).value, F!ingress_read, F!open_parse, r)
    /\ \A r \in Answers : Carried(F!ingress_reply_encode(r).value, F!ingress_read, F!ingress_reply_parse, r)

Sent == {F!register_encode(r) : r \in Registers} \cup {F!tunnel_encode(r) : r \in Tunnels}
        \cup {F!associate_encode(r) : r \in Associates} \cup {F!dissociate_encode(r) : r \in Dissociates}
        \cup {F!ingress_register_encode(r).value : r \in Accounts}
        \cup {F!lease_encode(r).value : r \in Leases} \cup {F!open_encode(r).value : r \in Opens}

\* A frame is read as one kind of request and no other, across both protocols: a hop that dials a
\* relay, or a node that dials an edge, is refused.
ASSUME OneReading ==
    \A s \in Sent :
        LET a == F!reverse_read(s).value.lines
            b == F!ingress_read(s).value.lines
            readings == <<F!register_parse(a).ok, F!tunnel_parse(a).ok, F!associate_parse(a).ok,
                          F!dissociate_parse(a).ok, F!ingress_register_parse(b).ok,
                          F!lease_parse(b).ok, F!open_parse(b).ok>>
        IN  Cardinality({i \in 1 .. 7 : readings[i]}) = 1

\* Frames another version may send.  A hop's header that the edge does not know is ignored and a
\* repeated one does not replace the first; the relay refuses both.  Neither reads a number that
\* does not fit, a frame without its blank line, or one beyond the limit.
ASSUME Strange ==
    LET Lines(t) == F!Split(t, "\n")
        dialled  == Lines(<<"REGISTER", " ", "rove-reverse/1", "\n", "Hop-Id", ":", "a", "\n",
                            "token", ":", " ", "t">>)
        node     == Lines(<<"REGISTER", " ", "rove-ingress/1", "\n", "node-id", ":", "a", "\n",
                            "token", ":", " ", "t">>)
        more     == {<<"hop-id", ":", "b">>, <<"node-id", ":", "b">>, <<"new", ":", "b">>}
    IN  /\ \A l \in more : /\ F!register_parse(Append(dialled, l)) = F!register_parse(dialled)
                           /\ F!register_parse(dialled).ok
                           /\ F!ingress_register_parse(node).ok
                           /\ ~ F!ingress_register_parse(Append(node, l)).ok
        /\ ~ F!tunnel_parse(<< <<"CONNECT", " ", "h", " ", "65536">> >>).ok
        /\ ~ F!tunnel_parse(<< <<"CONNECT", " ", "h", " ", "0", " ", "x">> >>).ok
        /\ \A n \in 0 .. 60, last \in {<<"\n">>, <<"\n", "\n">>} :
            LET t == [i \in 1 .. n |-> "x"] \o last
            IN  /\ F!reverse_read(t).ok = (Len(last) = 2 /\ Len(t) <= 40)
                /\ F!ingress_read(t).ok = F!reverse_read(t).ok
===============================================================================
