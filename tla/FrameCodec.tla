------------------------------ MODULE FrameCodec ------------------------------
(***************************************************************************)
(* The control frames of the reverse hop (src/src/reverse/frame.rs) and of *)
(* reverse ingress (src/src/ingress/frame.rs): a request line, headers, a  *)
(* blank line, and on the same stream whatever follows.                    *)
(*                                                                         *)
(* A text is a sequence of tokens: blanks, colons, commas, line ends, and  *)
(* words, which no operation here looks into.  Lengths count tokens.       *)
(***************************************************************************)
EXTENDS Naturals, Sequences, SequencesExt

CONSTANTS
    Lower(_),        \* to_ascii_lowercase of a token
    U16, U32, U64,   \* words that parse as a number of that width
    Hex,             \* words of 32 hex digits
    Address,         \* words that parse as a socket address
    MaxFrame,        \* MAX_FRAME_BYTES
    MaxHost,         \* longest target host
    MaxField         \* MAX_NODE_ID_BYTES, MAX_LISTENER_ID_BYTES, MAX_TOKEN_BYTES

Blank == {" ", "\r", "\n"}
Bad   == [ok |-> FALSE]
Ok(v) == [ok |-> TRUE, value |-> v]

\* An optional value is a set of at most one; Some(v, F) is F of it, or nothing.
Some(option, F(_)) == IF option = {} THEN <<>> ELSE F(CHOOSE v \in option : TRUE)

\* str::trim, str::split and str::split_whitespace
Trim(s) ==
    LET solid == {i \in DOMAIN s : s[i] \notin Blank}
    IN  IF solid = {} THEN <<>> ELSE SubSeq(s, Min(solid), Max(solid))
Split(s, sep) ==
    FoldLeft(LAMBDA parts, t : IF t = sep THEN Append(parts, <<>>)
                               ELSE [parts EXCEPT ![Len(parts)] = Append(@, t)], << <<>> >>, s)
Words(s) == SelectSeq(Split(s, " "), LAMBDA w : w # <<>>)

\* str::strip_prefix: a line that starts with the verb and a blank.
HasVerb(line, verb) == Len(line) >= 2 /\ SubSeq(line, 1, 2) = <<verb, " ">>
After(line) == SubSeq(line, 3, Len(line))

\* line.split_once(':'), both halves trimmed and the name in lower case
HasColon(line) == \E i \in DOMAIN line : line[i] = ":"
Pair(line) ==
    LET i == Min({j \in DOMAIN line : line[j] = ":"})
        name == Trim(SubSeq(line, 1, i - 1))
    IN  [name |-> [j \in DOMAIN name |-> Lower(name[j])], value |-> Trim(SubSeq(line, i + 1, Len(line)))]

Line(name, value) == <<name, ":", " ">> \o value \o <<"\n">>

-------------------------------------------------------------------------------
(* Reverse hop *)

ReverseVersion == "rove-reverse/1"

\* split_lines: every line loses one carriage return, empty lines at the end are dropped.
split_lines(buf) ==
    LET Strip(l) == IF l # <<>> /\ Last(l) = "\r" THEN Front(l) ELSE l
        lines == [i \in DOMAIN Split(buf, "\n") |-> Strip(Split(buf, "\n")[i])]
    IN  SubSeq(lines, 1, Max({0} \cup {i \in DOMAIN lines : lines[i] # <<>>}))

\* read_frame: token by token up to the first blank line, which has to come within MaxFrame.
reverse_read(stream) ==
    LET ends == {n \in 2 .. Len(stream) : SubSeq(stream, n - 1, n) = <<"\n", "\n">>}
    IN  IF ends = {} THEN Bad
        ELSE IF Min(ends) > MaxFrame THEN Bad
        ELSE Ok([lines |-> split_lines(SubSeq(stream, 1, Min(ends))),
                 rest  |-> SubSeq(stream, Min(ends) + 1, Len(stream))])

\* parse_headers and header: lines without a colon are skipped, the first of a name counts.
parse_headers(lines) ==
    LET named == SelectSeq(lines, HasColon) IN [i \in DOMAIN named |-> Pair(named[i])]
header(headers, name) ==
    LET found == {i \in DOMAIN headers : headers[i].name = <<name>>}
    IN  IF found = {} THEN {} ELSE {headers[Min(found)].value}
NonEmpty(option) == option \ {<<>>}

register_encode(r) ==
    LET Caps(c) == Line("caps", c)
        EdgeLine(e) == Line("edge-id", e)
        joined  == IF r.caps = <<>> THEN {}
                   ELSE {FoldLeft(LAMBDA t, c : IF t = <<>> THEN c ELSE t \o <<",">> \o c, <<>>, r.caps)}
    IN  <<"REGISTER", " ", ReverseVersion, "\n">> \o Line("hop-id", r.hop_id) \o Line("token", r.token)
        \o Some(r.edge_id, EdgeLine) \o Some(joined, Caps) \o <<"\n">>

register_parse(lines) ==
    LET h     == parse_headers(Tail(lines))
        caps  == UNION {ToSet(Split(c, ",")) : c \in header(h, "caps")}
        clean == {[j \in DOMAIN Trim(c) |-> Lower(Trim(c)[j])] : c \in caps} \ {<<>>}
    IN  IF lines = <<>> THEN Bad
        ELSE IF ~HasVerb(lines[1], "REGISTER") THEN Bad
        ELSE IF Trim(After(lines[1])) # <<ReverseVersion>> THEN Bad
        ELSE IF NonEmpty(header(h, "hop-id")) = {} \/ header(h, "token") = {} THEN Bad
        ELSE Ok([hop_id |-> CHOOSE v \in header(h, "hop-id") : TRUE,
                 token |-> CHOOSE v \in header(h, "token") : TRUE,
                 edge_id |-> NonEmpty(header(h, "edge-id")), caps |-> clean])

tunnel_encode(r) ==
    LET Id(t) == Line("tunnel-id", t)
    IN  <<"CONNECT", " ">> \o r.host \o <<" ", r.port, "\n">> \o Some(r.tunnel_id, Id) \o <<"\n">>

tunnel_parse(lines) ==
    IF lines = <<>> THEN Bad
    ELSE IF ~HasVerb(lines[1], "CONNECT") THEN Bad
    ELSE LET parts == Words(After(lines[1]))
         IN  IF Len(parts) # 2 THEN Bad
             ELSE IF parts[2] \notin {<<p>> : p \in U16} \/ Len(parts[1]) > MaxHost THEN Bad
             ELSE Ok([host |-> parts[1], port |-> parts[2][1],
                      tunnel_id |-> NonEmpty(header(parse_headers(Tail(lines)), "tunnel-id"))])

associate_encode(r) ==
    LET Id(t) == Line("assoc-id", t)
    IN  <<"ASSOCIATE", " ", r.session_id, "\n">> \o Some(r.assoc_id, Id) \o <<"\n">>

associate_parse(lines) ==
    IF lines = <<>> THEN Bad
    ELSE IF ~HasVerb(lines[1], "ASSOCIATE") THEN Bad
    ELSE IF Trim(After(lines[1])) \notin {<<n>> : n \in U32} THEN Bad
    ELSE Ok([session_id |-> Trim(After(lines[1]))[1],
             assoc_id |-> NonEmpty(header(parse_headers(Tail(lines)), "assoc-id"))])

dissociate_encode(r) == <<"DISSOCIATE", " ", r.session_id, "\n", "\n">>

dissociate_parse(lines) ==
    IF lines = <<>> THEN Bad
    ELSE IF ~HasVerb(lines[1], "DISSOCIATE") THEN Bad
    ELSE IF Trim(After(lines[1])) \notin {<<n>> : n \in U32} THEN Bad
    ELSE Ok([session_id |-> Trim(After(lines[1]))[1]])

reply_encode(r) == IF r.ok THEN <<"OK", "\n", "\n">> ELSE <<"ERR", " ">> \o r.code \o <<"\n", "\n">>

reply_parse(lines) ==
    LET first == IF lines = <<>> THEN <<>> ELSE Trim(lines[1])
    IN  IF first = <<"OK">> THEN Ok([ok |-> TRUE])
        ELSE IF first = <<"ERR">> THEN Ok([ok |-> FALSE, code |-> <<>>])
        ELSE IF HasVerb(first, "ERR") THEN Ok([ok |-> FALSE, code |-> Trim(After(first))])
        ELSE Bad

-------------------------------------------------------------------------------
(* Reverse ingress *)

IngressVersion == "rove-ingress/1"

\* read_frame: up to a blank line of either kind; carriage returns before line ends are dropped.
ingress_read(stream) ==
    LET ends == {n \in 2 .. Len(stream) :
                    \/ SubSeq(stream, n - 1, n) = <<"\n", "\n">>
                    \/ n >= 4 /\ SubSeq(stream, n - 3, n) = <<"\r", "\n", "\r", "\n">>}
        Bare(t, x) == Append(IF x = "\n" /\ t # <<>> /\ Last(t) = "\r" THEN Front(t) ELSE t, x)
        bare == FoldLeft(Bare, <<>>, SubSeq(stream, 1, Min(ends)))
        full == {i \in DOMAIN bare : bare[i] # "\n"}
    IN  IF ends = {} THEN Bad
        ELSE IF Min(ends) > MaxFrame THEN Bad
        ELSE Ok([lines |-> Split(SubSeq(bare, 1, Max({0} \cup full)), "\n"),
                 rest  |-> SubSeq(stream, Min(ends) + 1, Len(stream))])

\* write_frame refuses a frame the other side would not read.
ingress_write(text) == IF Len(text) > MaxFrame THEN Bad ELSE Ok(text)

validate_field(text, max) ==
    text # <<>> /\ Len(text) <= max /\ \A i \in DOMAIN text : text[i] \notin {"\r", "\n"}

\* A name is one word in lower case.
validate_header_name(name) == Len(name) = 1 /\ name[1] \notin {" ", ":", ","} /\ Lower(name[1]) = name[1]

\* parse_headers_unrestricted: every line is a header, every name valid and different.
parse_headers_unrestricted(lines) ==
    LET pairs == [i \in DOMAIN lines |-> Pair(lines[i])]
    IN  IF \E i \in DOMAIN lines : ~HasColon(lines[i]) THEN Bad
        ELSE IF \E i \in DOMAIN lines : ~validate_header_name(pairs[i].name) THEN Bad
        ELSE IF \E i, j \in DOMAIN lines : i # j /\ pairs[i].name = pairs[j].name THEN Bad
        ELSE Ok({<<pairs[i].name[1], pairs[i].value>> : i \in DOMAIN lines})

\* parse_headers with the names a frame allows, each required and not empty.
Required(lines, names) ==
    LET h == parse_headers_unrestricted(lines)
    IN  IF ~h.ok THEN Bad
        ELSE IF {x[1] : x \in h.value} # names \/ \E x \in h.value : x[2] = <<>> THEN Bad
        ELSE Ok([n \in names |-> (CHOOSE x \in h.value : x[1] = n)[2]])

\* RegisterRequest
ingress_register_encode(r) ==
    IF ~validate_field(r.node_id, MaxField) \/ ~validate_field(r.token, MaxField) THEN Bad
    ELSE Ok(<<"REGISTER", " ", IngressVersion, "\n">> \o Line("node-id", r.node_id)
            \o Line("token", r.token) \o <<"\n">>)

ingress_register_parse(lines) ==
    LET h == Required(Tail(lines), {"node-id", "token"})
    IN  IF ~HasVerb(lines[1], "REGISTER") THEN Bad
        ELSE IF Trim(After(lines[1])) # <<IngressVersion>> \/ ~h.ok THEN Bad
        ELSE IF \E n \in DOMAIN h.value : ~validate_field(h.value[n], MaxField) THEN Bad
        ELSE Ok([node_id |-> h.value["node-id"], token |-> h.value["token"]])

\* LeaseRequest, Transport::parse
lease_encode(r) ==
    IF ~validate_field(r.listener_id, MaxField) THEN Bad
    ELSE Ok(<<"LEASE", "\n">> \o Line("listener-id", r.listener_id)
            \o Line("transport", <<r.transport>>) \o Line("public-port", <<r.public_port>>) \o <<"\n">>)

lease_parse(lines) ==
    LET h == Required(Tail(lines), {"listener-id", "transport", "public-port"})
        transport == [i \in DOMAIN h.value["transport"] |-> Lower(h.value["transport"][i])]
    IN  IF lines[1] # <<"LEASE">> \/ ~h.ok THEN Bad
        ELSE IF ~validate_field(h.value["listener-id"], MaxField) THEN Bad
        ELSE IF transport \notin {<<"tcp">>, <<"udp">>} THEN Bad
        ELSE IF h.value["public-port"] \notin {<<p>> : p \in U16} THEN Bad
        ELSE Ok([listener_id |-> h.value["listener-id"], transport |-> transport[1],
                 public_port |-> h.value["public-port"][1]])

\* OpenTcpRequest, Id128::parse_hex and Display
open_encode(r) ==
    IF ~validate_field(r.relay_id, MaxField) THEN Bad
    ELSE Ok(<<"OPEN_TCP", "\n">> \o Line("lease-id", <<r.lease_id>>) \o Line("ingress-id", <<r.ingress_id>>)
            \o Line("client-addr", <<r.client>>) \o Line("public-addr", <<r.public>>)
            \o Line("relay-id", r.relay_id) \o Line("session-id", <<r.session_id>>) \o <<"\n">>)

open_parse(lines) ==
    LET h == Required(Tail(lines), {"lease-id", "ingress-id", "client-addr", "public-addr",
                                    "relay-id", "session-id"})
        Is(n, set) == h.value[n] \in {<<w>> : w \in set}
    IN  IF lines[1] # <<"OPEN_TCP">> \/ ~h.ok THEN Bad
        ELSE IF ~validate_field(h.value["relay-id"], MaxField) THEN Bad
        ELSE IF ~(/\ Is("lease-id", U64) /\ Is("ingress-id", Hex) /\ Is("session-id", Hex)
                  /\ Is("client-addr", Address) /\ Is("public-addr", Address)) THEN Bad
        ELSE Ok([lease_id |-> h.value["lease-id"][1], ingress_id |-> h.value["ingress-id"][1],
                 client |-> h.value["client-addr"][1], public |-> h.value["public-addr"][1],
                 relay_id |-> h.value["relay-id"], session_id |-> h.value["session-id"][1]])

\* Reply: a refusal has no headers; the headers of an answer are a set.
ingress_reply_encode(r) ==
    IF ~r.ok THEN (IF validate_field(r.code, MaxField)
                   THEN Ok(<<"ERR", " ">> \o r.code \o <<"\n", "\n">>) ELSE Bad)
    ELSE IF \E x \in r.headers : ~validate_header_name(<<x[1]>>) \/ ~validate_field(x[2], MaxField) THEN Bad
    ELSE LET text == <<"OK", "\n">>
                     \o FoldLeft(LAMBDA t, x : t \o Line(x[1], x[2]), <<>>, SetToSeq(r.headers)) \o <<"\n">>
         IN  IF Len(text) > MaxFrame THEN Bad ELSE Ok(text)

ingress_reply_parse(lines) ==
    LET h == parse_headers_unrestricted(Tail(lines))
    IN  IF lines[1] = <<"OK">> THEN (IF h.ok THEN Ok([ok |-> TRUE, headers |-> h.value]) ELSE Bad)
        ELSE IF ~HasVerb(lines[1], "ERR") THEN Bad
        ELSE IF ~validate_field(After(lines[1]), MaxField) \/ Len(lines) # 1 THEN Bad
        ELSE Ok([ok |-> FALSE, code |-> After(lines[1])])
================================================================================
