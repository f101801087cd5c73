----------------------------- MODULE MCHopNode ------------------------------
EXTENDS HopNode

Opt(flag, value) == [flag |-> flag, value |-> value, n |-> -1]
Num(flag, n) == [flag |-> flag, value |-> "n", n |-> n]

NoEnv == [username |-> None, password |-> None, token |-> None,
          mqtt_username |-> None, mqtt_password |-> None]
Start_(args, env) == [args |-> args, env |-> env]
Tls == <<Opt("tls_cert", "cert"), Opt("tls_key", "key")>>
Edge == <<Opt("reverse_token", "t1"), Opt("reverse_quic", "e1"), Opt("reverse_hop_id", "h1")>>

\* Listeners of every protocol with mixed, missing and blank credentials; a reverse hop with a
\* diagnostic service; and command lines that are refused.
MCCommands ==
    {Start_(Tls \o <<Opt("https", "a1"), Opt("socks5tls", "a2"), Opt("username", "u1")>>,
            [NoEnv EXCEPT !.password = "p1"]),
     Start_(<<Opt("socks5", "a1"), Opt("username", ""), Opt("password", "p1"), Opt("access_log_disable", None)>>,
            [NoEnv EXCEPT !.username = "u1"]),
     Start_(<<Opt("socks5", "a1"), Opt("username", "u1")>>, NoEnv),
     Start_(<<Opt("https", "a1"), Opt("username", "u1"), Opt("password", "p1")>>, NoEnv),
     Start_(Edge \o <<Opt("mqtt_broker", "b1"), Opt("access_log_disable", None)>>, NoEnv),
     Start_(Edge \o <<Opt("mqtt_broker", "b1"), Opt("mqtt_hop_id", "bad id")>>, NoEnv),
     Start_(<<Opt("reverse_edge_id", "x")>> \o Edge, NoEnv),
     Start_(<<Opt("username", "u1"), Opt("password", None)>>, NoEnv),
     Start_(<<Opt("subnetra_config", "tun_unavailable")>>, NoEnv),
     Start_(<<Opt("help", None)>>, NoEnv),
     Start_(Edge \o <<Opt("access_log_syslog", "s1"), Opt("syslog_facility", "bad")>>, NoEnv)}

MCPresented == {<<>>, <<"u1", "p1">>, <<"u1", Default>>, <<"", "p1">>, <<Default, Default>>}
Order == <<"listener", "direct">>

Target(form, name, scheme) == [form |-> form, name |-> name, scheme |-> scheme, port |-> 0]
Request(reply_topic, known, target, trace) ==
    [json |-> TRUE, reply_topic |-> reply_topic, known_command |-> known, target |-> target, trace |-> trace]
MCRequests == [r1 |-> Request("allowed", TRUE, Target("word", "google", ""), TRUE),
               r2 |-> Request("allowed", TRUE, Target("url", "h", "ftp"), FALSE),
               r3 |-> Request("allowed", FALSE, Target("blank", "", ""), FALSE),
               r4 |-> Request("foreign", TRUE, Target("word", "h", ""), FALSE)]

MCWorlds == {[dns |-> "answers", route |-> "answers", local_addr |-> TRUE, tcp |-> "answers",
              tls |-> "answers", http |-> "answers", trace |-> "answers"],
             [NoWorld EXCEPT !.dns = "answers", !.tcp = "refuses"], NoWorld}

-----------------------------------------------------------------------------
(* The option fold against a definition by position                        *)

EdgeOptions == {Opt("reverse_quic", "e"), Opt("reverse_token", "t1"), Opt("reverse_token", "t2"),
                Opt("reverse_hop_id", "h1"), Opt("reverse_hop_id", ""), Num("reverse_max_streams", 0)}
Lines(n) == UNION {[1 .. k -> EdgeOptions] : k \in 0 .. n}

Where(cmd, flag) == {i \in DOMAIN cmd : cmd[i].flag = flag}
LastIn(cmd, flag, lo, hi) ==
    LET w == {i \in Where(cmd, flag) : lo < i /\ i < hi}
    IN  IF w = {} THEN None ELSE cmd[CHOOSE i \in w : \A j \in w : j <= i].value
Meant(cmd, flag, q, env) ==
    LET quics == Where(cmd, "reverse_quic")
        next  == {j \in quics : j > q}
        hi    == IF next = {} THEN Len(cmd) + 1 ELSE CHOOSE j \in next : \A k \in next : j <= k
        first == CHOOSE j \in quics : \A k \in quics : j <= k
    IN  OrElse(LastIn(cmd, flag, q, hi), OrElse(LastIn(cmd, flag, 0, first), env))

\* Every edge a process dials uses the token and the hop id written for it, or the default
\* written before the first edge, or the environment's token, and none of them is blank.
EdgesBound ==
    \A cmd \in Lines(4), t \in {None, "t0"} :
        LET env == [NoEnv EXCEPT !.token = t]
            quics == Where(cmd, "reverse_quic")
            c   == reverse_client_config(parse(cmd), env)
        IN  parse(cmd).ok /\ c.ok =>
                /\ Len(c.is) = Cardinality(quics)
                /\ \A q \in quics :
                     LET e == c.is[Cardinality({j \in quics : j <= q})]
                     IN  /\ NotBlank(e.token) /\ e.token = Meant(cmd, "reverse_token", q, t)
                         /\ NotBlank(e.hop_id) /\ e.hop_id = Meant(cmd, "reverse_hop_id", q, None)

\* The verdict is "failed" exactly when a stage is blamed, and the sentence names what it blames.
VerdictsAgree ==
    \A dns, route, tcp, tls, http, trace \in Statuses, wanted \in BOOLEAN :
        LET r == [dns |-> dns, route |-> route, tcp |-> tcp, tls |-> tls, http |-> http, trace |-> trace,
                  wanted |-> wanted]
        IN  /\ overall_result(r) = "failed" <=> first_failed_stage(r) # "none"
            /\ overall_result(r) # "ok" => summarize(r) # {}
            /\ overall_result(r) = "degraded" => \A s \in summarize(r) : r[s] # "ok"

\* A doctor's target comes from one place.
DoctorTargets ==
    \A a, b \in {Opt("target", "x"), Opt("place", "y"), Opt("trace", None), Num("max_hops", 65)} :
        LET d == doctor_parse(<<a, b>>)
        IN  d.ok <=> /\ {a.flag, b.flag} \cap {"max_hops"} = {}
                     /\ Cardinality({i \in 1 .. 2 : <<a, b>>[i].flag \in {"target", "place"}}) <= 1

ASSUME HopArgsRight == EdgesBound /\ VerdictsAgree /\ DoctorTargets
=============================================================================
