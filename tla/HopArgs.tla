------------------------------ MODULE HopArgs -------------------------------
(***************************************************************************)
(* The command line of a hop node and the configuration it becomes         *)
(* (bin/rove-hop.rs, hop_mqtt.rs): which listeners, credentials, reverse   *)
(* edges and diagnostic service a process starts with, or that it refuses  *)
(* to start.                                                               *)
(*                                                                         *)
(* An option is [flag, value, n]: its value None when no value follows it, *)
(* n the number the value stands for, or -1.  A blank word is "".          *)
(***************************************************************************)
EXTENDS Integers, Sequences, TLC

Seqs == INSTANCE SequencesExt

None    == "none"
Default == "default"    \* DEFAULT_USERNAME and DEFAULT_PASSWORD

CONSTANTS MinQuicMtu, MaxQuicMtu, MaxHops, DefaultStreams

NotBlank(v) == v \notin {None, ""}

\* The first value that is there and is not blank; and the first that is there, blank or not.
first_non_empty(a, b) == IF NotBlank(a) THEN a ELSE IF NotBlank(b) THEN b ELSE None
OrElse(a, b) == IF a # None THEN a ELSE b

-----------------------------------------------------------------------------
(* The options                                                             *)

Bare    == {"help", "reverse_insecure", "dns_insecure", "access_log_disable"}
Words   == {"tls_cert", "tls_key", "username", "password", "log_level", "node_id",
            "dns_protocol", "dns_server_name", "dns_doh_path", "dns_ca",
            "mqtt_broker", "mqtt_hop_id", "mqtt_username", "mqtt_password", "mqtt_reply_prefix",
            "mqtt_client_id", "access_log_dir", "access_log_file_prefix",
            "syslog_protocol", "syslog_facility", "syslog_tag"}
Lists   == {"https", "socks5", "socks5tls", "dns_servers"}
Numbers == {"retention_days", "channel_capacity", "global_max_streams"}

\* What Args::parse starts from.
NewArgs ==
    [flag \in Words |-> IF flag \in {"node_id", "syslog_tag"} THEN "rove-hop"
                        ELSE IF flag = "mqtt_reply_prefix" THEN "rove/replies/" ELSE None]
    @@ [flag \in Lists |-> <<>>] @@ [flag \in Numbers |-> 0]
    @@ [ok |-> TRUE, help |-> FALSE, edges |-> <<>>, default_hop_id |-> None, default_token |-> None,
        dns_insecure |-> FALSE, access_log |-> TRUE, syslog |-> None, subnetra |-> None]

\* ReverseEdgeArg::default for an address.
NewEdge(addr) ==
    [edge_addr |-> addr, hop_id |-> None, token |-> None, edge_id |-> None, server_name |-> None,
     skip_cert_verify |-> FALSE, max_streams |-> 0, initial_mtu |-> 0]

Refused == [NewArgs EXCEPT !.ok = FALSE]

LastEdge(a, field, v) ==
    IF a.edges = <<>> THEN Refused ELSE [a EXCEPT !.edges[Len(a.edges)][field] = v]

\* --reverse-hop-id and --reverse-token: of the last edge, or a default before the first one.
EdgeOrDefault(a, field, default, v) ==
    IF a.edges = <<>> THEN [a EXCEPT ![default] = v] ELSE LastEdge(a, field, v)

validate_initial_mtu(n) == n \in MinQuicMtu .. MaxQuicMtu

ReverseOption(a, o) ==
    CASE o.flag = "reverse_quic" -> [a EXCEPT !.edges = Append(@, NewEdge(o.value))]
      [] o.flag = "reverse_hop_id" -> EdgeOrDefault(a, "hop_id", "default_hop_id", o.value)
      [] o.flag = "reverse_token" -> EdgeOrDefault(a, "token", "default_token", o.value)
      [] o.flag = "reverse_edge_id" -> LastEdge(a, "edge_id", o.value)
      [] o.flag = "reverse_server_name" -> LastEdge(a, "server_name", o.value)
      [] o.flag = "reverse_insecure" -> LastEdge(a, "skip_cert_verify", TRUE)
      [] o.flag = "reverse_max_streams" /\ o.n > 0 -> LastEdge(a, "max_streams", o.n)
      [] o.flag = "reverse_initial_mtu" /\ validate_initial_mtu(o.n) -> LastEdge(a, "initial_mtu", o.n)
      [] OTHER -> Refused

\* load_subnetra_config: a readable file of a valid configuration for a kernel device.
load_subnetra_config(file) ==
    IF file \in {"tun", "tun_unavailable"} THEN file ELSE None

Option(a, o) ==
    CASE ~a.ok \/ (o.flag \notin Bare /\ o.value = None) -> Refused
      [] a.ok /\ o.flag = "help" -> [a EXCEPT !.help = TRUE]
      [] a.ok /\ o.flag = "dns_insecure" -> [a EXCEPT !.dns_insecure = TRUE]
      [] a.ok /\ o.flag = "access_log_disable" -> [a EXCEPT !.access_log = FALSE]
      [] o.value # None /\ o.flag \in Words -> [a EXCEPT ![o.flag] = o.value]
      [] o.value # None /\ o.flag \in Lists -> [a EXCEPT ![o.flag] = Append(@, o.value)]
      [] o.value # None /\ o.flag \in Numbers ->
            IF o.n < 0 THEN Refused ELSE [a EXCEPT ![o.flag] = o.n]
      [] o.value # None /\ o.flag = "access_log_syslog" -> [a EXCEPT !.syslog = o.value]
      [] o.value # None /\ o.flag = "subnetra_config" ->
            IF load_subnetra_config(o.value) = None THEN Refused ELSE [a EXCEPT !.subnetra = o.value]
      [] OTHER -> ReverseOption(a, o)

\* Args::parse: the options in their order, then the certificate that TLS listeners need.
parse(cmd) ==
    LET a == Seqs!FoldLeft(Option, NewArgs, cmd)
    IN  IF a.https \o a.socks5tls # <<>> /\ (a.tls_cert = None \/ a.tls_key = None) THEN Refused ELSE a

\* The listeners of a process, in the order they are spawned.
Listeners(a) ==
    LET of(protocol, addrs) == [i \in DOMAIN addrs |-> [protocol |-> protocol, listen |-> addrs[i]]]
    IN  of("https", a.https) \o of("socks5", a.socks5) \o of("socks5tls", a.socks5tls)

-----------------------------------------------------------------------------
(* What the options mean                                                   *)

Nothing == [ok |-> TRUE, is |-> <<>>]
Failure == [ok |-> FALSE, is |-> <<>>]

\* One edge: its own hop id and token, the defaults, or the environment; a blank one is not
\* passed over but refused.
resolve_edge(a, env, e) ==
    [e EXCEPT !.hop_id = OrElse(@, a.default_hop_id),
              !.token = OrElse(@, OrElse(a.default_token, env.token)),
              !.max_streams = IF @ = 0 THEN DefaultStreams ELSE @]

reverse_client_config(a, env) ==
    LET edges == [i \in DOMAIN a.edges |-> resolve_edge(a, env, a.edges[i])]
    IN  IF \A i \in DOMAIN edges : NotBlank(edges[i].edge_addr) /\ NotBlank(edges[i].hop_id) /\ NotBlank(edges[i].token)
        THEN [ok |-> TRUE, is |-> edges] ELSE Failure

\* mqtt_config and HopMqttConfig::validate; "bad id" and "bad/#" stand for the words they refuse.
mqtt_config(a, env) ==
    LET hop == OrElse(OrElse(a.mqtt_hop_id, a.default_hop_id), a.node_id)
    IN  IF ~NotBlank(a.mqtt_broker) THEN Nothing
        ELSE IF hop \in {"", "bad id"} \/ a.mqtt_reply_prefix = "bad/#" THEN Failure
        ELSE [ok |-> TRUE, is |-> <<[hop_id |-> hop,
                                     username |-> first_non_empty(a.mqtt_username, env.mqtt_username),
                                     password |-> OrElse(a.mqtt_password, env.mqtt_password),
                                     prefix |-> a.mqtt_reply_prefix]>>]

\* Faulty: a missing half is completed with the built-in one.
credentialsCompleted(a, env) ==
    [ok |-> TRUE, is |-> <<OrElse(first_non_empty(a.username, env.username), Default),
                           OrElse(first_non_empty(a.password, env.password), Default)>>]

\* Both halves from the operator, or the placeholder of a process without listeners.
credentials_with_env(a, env) ==
    LET user == first_non_empty(a.username, env.username)
        pass == first_non_empty(a.password, env.password)
    IN  IF user # None /\ pass # None THEN [ok |-> TRUE, is |-> <<user, pass>>]
        ELSE IF Listeners(a) = <<>> THEN [ok |-> TRUE, is |-> <<Default, Default>>]
        ELSE Failure

\* dns_config and DnsConfig::to_settings: "bad" stands for what it cannot use.
dns_config(a) == a.dns_servers = <<>> \/ (a.dns_protocol # "bad" /\ \A i \in DOMAIN a.dns_servers : a.dns_servers[i] # "bad")

\* AccessLogger::spawn, eagerly: the directory, the transport and the facility of the collector.
AccessLogStarts(a) ==
    /\ a.access_log_dir # "bad"
    /\ a.syslog # None => a.syslog_protocol # "bad" /\ a.syslog_facility # "bad"

\* main: what the process serves.  It stays up while it has at least one role.
Boot(cmd, env) ==
    LET a     == parse(cmd)
        edges == reverse_client_config(a, env)
        mqtt  == mqtt_config(a, env)
        creds == credentials_with_env(a, env)
    IN  [up |-> /\ a.ok /\ ~a.help /\ edges.ok /\ mqtt.ok /\ dns_config(a) /\ creds.ok
                /\ a.access_log => AccessLogStarts(a)
                /\ Listeners(a) # <<>> \/ edges.is # <<>> \/ a.subnetra # None
                /\ a.subnetra # "tun_unavailable",
         listeners |-> Listeners(a), credentials |-> creds.is, edges |-> edges.is,
         mqtt |-> mqtt.is, access_log |-> a.access_log, tun |-> a.subnetra]

-----------------------------------------------------------------------------
(* rove-hop doctor                                                         *)

NewDoctor == [ok |-> TRUE, help |-> FALSE, target |-> None, place |-> None, trace |-> FALSE,
              json |-> FALSE, timeout |-> 5, max_hops |-> 20, node_id |-> "rove-hop", log_level |-> "warn"]

DoctorOption(a, o) ==
    LET bad == [NewDoctor EXCEPT !.ok = FALSE] IN
    CASE ~a.ok \/ (o.flag \notin {"help", "trace", "json"} /\ o.value = None) -> bad
      [] a.ok /\ o.flag \in {"help", "trace", "json"} -> [a EXCEPT ![o.flag] = TRUE]
      [] o.value # None /\ o.flag \in {"node_id", "log_level"} -> [a EXCEPT ![o.flag] = o.value]
      [] o.value # None /\ o.flag \in {"target", "place"} ->
            IF a[o.flag] = None THEN [a EXCEPT ![o.flag] = o.value] ELSE bad
      [] o.value # None /\ o.flag = "timeout" -> IF o.n < 0 THEN bad ELSE [a EXCEPT !.timeout = o.n]
      [] o.value # None /\ o.flag = "max_hops" -> IF o.n \in 1 .. MaxHops THEN [a EXCEPT !.max_hops = o.n] ELSE bad
      [] OTHER -> bad

\* DoctorArgs::parse after the words "doctor egress": --target or a positional target, once.
doctor_parse(cmd) ==
    LET a == Seqs!FoldLeft(DoctorOption, NewDoctor, cmd)
    IN  IF a.target # None /\ a.place # None THEN [NewDoctor EXCEPT !.ok = FALSE]
        ELSE [a EXCEPT !.target = OrElse(a.target, a.place)]
=============================================================================
