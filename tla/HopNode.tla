------------------------------ MODULE HopNode -------------------------------
(***************************************************************************)
(* A hop process: the stand-alone proxy listeners (proxy/mod.rs) with the  *)
(* access log behind them, and the diagnostic service a controller reaches *)
(* over MQTT (hop_mqtt.rs), as the command line started them.              *)
(*                                                                         *)
(* A client's connection moves through the reads and writes of its         *)
(* handler; at each of them the peer may vanish, which ends the handler    *)
(* through `?' without an access record.                                   *)
(***************************************************************************)
EXTENDS HopArgs, EgressDoctor, AccessLog

CONSTANTS
    Commands,   \* command lines, with their environment: [args, env]
    Presented,  \* user and password pairs clients may present
    Requests,   \* doctor requests: a function from an id to its content
    Worlds,     \* what the network and the local commands may do to the probes of a request
    ChanCap,    \* requests the MQTT client queues
    Bytes       \* bytes a tunnel may carry

ASSUME TrafficCounted == Bytes \subseteq Nat

VARIABLES
    command,    \* how the process was started
    boot,       \* what it serves
    conn,       \* each connection: [stage, protocol, presented, failure]
    task,       \* the task of each doctor request: [at, world, said]
    permit,     \* the request that holds the only diagnostic permit, or None
    loop,       \* the MQTT event loop: "down", "subscribing" or "up"
    chan        \* replies and subscriptions queued for the event loop

proxyVars  == <<conn>>
doctorVars == <<task, permit, loop, chan>>
bootVars   == <<command, boot>>
nodeVars   == <<bootVars, proxyVars, doctorVars, logVars>>

-----------------------------------------------------------------------------
(* The proxy listeners                                                     *)

NoConn == [stage |-> "none", protocol |-> None, presented |-> <<>>, failure |-> None]

At(c, stage) == conn[c].stage = stage
Move(c, stage) == conn' = [conn EXCEPT ![c].stage = stage]
End(c, how) == conn' = [conn EXCEPT ![c] = [NoConn EXCEPT !.stage = how]]
Quiet == UNCHANGED <<bootVars, doctorVars, logVars>>

FirstRead(protocol) == IF protocol = "https" THEN "head" ELSE "greeting"

\* run_listener accepts and serve_conn starts with the TLS handshake where there is one.
Accept(c, i) ==
    /\ boot.up /\ At(c, "none")
    /\ LET protocol == boot.listeners[i].protocol
       IN  conn' = [conn EXCEPT ![c].stage = IF protocol = "socks5" THEN "greeting" ELSE "tls",
                                ![c].protocol = protocol]
    /\ Quiet

Handshake(c) == At(c, "tls") /\ Move(c, FirstRead(conn[c].protocol)) /\ Quiet

\* The peer goes away, or a read or a write fails: no record.
Vanish(c) ==
    /\ conn[c].stage \in {"tls", "head", "greeting", "auth", "request", "refusing", "replying"}
    /\ End(c, "gone") /\ Quiet

credentials_ok(pair) == pair = boot.credentials

\* A refusal is written before it is recorded.
Refuse(c, stage) == conn' = [conn EXCEPT ![c].stage = "refusing", ![c].failure = stage]

\* serve_https: the request head, its method, its credentials (<<>> for none) and its target.
ReadHead(c, connect, pair, target_ok) ==
    /\ At(c, "head")
    /\ CASE ~connect -> Refuse(c, "parse")
         [] connect /\ ~credentials_ok(pair) -> Refuse(c, "auth")
         [] connect /\ credentials_ok(pair) /\ ~target_ok -> Refuse(c, "parse")
         [] OTHER -> conn' = [conn EXCEPT ![c].stage = "dialing", ![c].presented = pair]
    /\ Quiet

\* serve_socks5: a wrong version is recorded at once, without an answer.
ReadVersionBad(c) ==
    /\ At(c, "greeting")
    /\ End(c, "done")
    /\ IF boot.access_log THEN LogRecord(c) ELSE UNCHANGED <<logQ, dropped>>
    /\ UNCHANGED <<bootVars, doctorVars, lastDropped, totals, lastBytes, logged, writer, socket, fileVars>>

ReadGreeting(c, offers_password) ==
    /\ At(c, "greeting")
    /\ IF offers_password THEN Move(c, "auth") ELSE Refuse(c, "auth")
    /\ Quiet

\* socks5_auth_ok
ReadAuth(c, pair) ==
    /\ At(c, "auth")
    /\ IF credentials_ok(pair)
       THEN conn' = [conn EXCEPT ![c].stage = "request", ![c].presented = pair]
       ELSE Refuse(c, "auth")
    /\ Quiet

ReadRequest(c, supported) ==
    /\ At(c, "request")
    /\ IF supported THEN Move(c, "dialing") ELSE Refuse(c, "parse")
    /\ Quiet

Dialled(c, ok) ==
    /\ At(c, "dialing")
    /\ IF ok THEN Move(c, "replying") ELSE Refuse(c, "outbound")
    /\ Quiet

Replied(c) == At(c, "replying") /\ Move(c, "tunnel") /\ Quiet

\* record_access at the end of a handler; a splice that fails counts no bytes.
Finish(c, rows, n) ==
    /\ End(c, "done")
    /\ RecordBytes(rows, n)
    /\ IF boot.access_log THEN LogRecord(c) ELSE UNCHANGED <<logQ, dropped>>
    /\ UNCHANGED <<bootVars, doctorVars, lastDropped, lastBytes, logged, writer, socket, fileVars>>

RefusalSent(c) == At(c, "refusing") /\ Finish(c, {}, 0)
TunnelEnds(c, n) == At(c, "tunnel") /\ Finish(c, RowSet, n)

Proxy ==
    \E c \in Conns :
        \/ Handshake(c) \/ Vanish(c) \/ ReadVersionBad(c) \/ Replied(c) \/ RefusalSent(c)
        \/ \E i \in DOMAIN boot.listeners : Accept(c, i)
        \/ \E yes \in BOOLEAN : ReadGreeting(c, yes) \/ ReadRequest(c, yes) \/ Dialled(c, yes)
        \/ \E pair \in Presented : ReadAuth(c, pair)
        \/ \E connect, ok \in BOOLEAN, pair \in Presented : ReadHead(c, connect, pair, ok)
        \/ \E n \in Bytes : TunnelEnds(c, n)

-----------------------------------------------------------------------------
(* The diagnostic service                                                  *)

Still == UNCHANGED <<bootVars, proxyVars, logVars>>

Doctor(r, at) == task' = [task EXCEPT ![r].at = at]

\* plan_doctor_command: without a reply topic under the prefix nothing is said at all.
plan_doctor_command(q) ==
    CASE ~q.json \/ q.reply_topic # "allowed" -> "drop"
      [] q.json /\ q.reply_topic = "allowed" /\ (~q.known_command \/ q.target.form = "blank") -> "reject"
      [] OTHER -> "run"

NoWorld == [dns |-> "silent", route |-> "absent", local_addr |-> FALSE, tcp |-> "silent",
            tls |-> "silent", http |-> "silent", trace |-> "absent"]

Say(r, status) == task' = [task EXCEPT ![r].at = "publish", ![r].said = status]

\* Faulty: a target that cannot be parsed ends the task without a word.
StartQuiet(r) ==
    \E target \in select_target(Requests[r].target), world \in Worlds :
        IF target = NoTarget THEN Doctor(r, "dropped") /\ UNCHANGED permit
        ELSE permit' = r /\ task' = [task EXCEPT ![r].at = "dns", ![r].world = world]

\* run_planned_doctor, under the permit: a target that cannot be parsed is an answer too.
Start(r) ==
    /\ permit' = r
    /\ \E target \in select_target(Requests[r].target), world \in Worlds :
         IF target = NoTarget THEN Say(r, "bad_request")
                              ELSE task' = [task EXCEPT ![r].at = "dns", ![r].world = world]

\* handle_doctor: the spawned task plans, and takes the permit or is throttled.
Plan(r) ==
    /\ task[r].at = "spawned"
    /\ CASE plan_doctor_command(Requests[r]) = "drop" -> Doctor(r, "dropped") /\ UNCHANGED permit
         [] plan_doctor_command(Requests[r]) = "reject" -> Say(r, "bad_request") /\ UNCHANGED permit
         [] OTHER -> IF permit = None THEN Start(r) ELSE Say(r, "throttled") /\ UNCHANGED permit
    /\ UNCHANGED <<loop, chan>> /\ Still

Stages == <<"dns", "route", "tcp", "tls", "http", "trace">>

\* The report on a request once every probe of it has ended.
report(q, w) ==
    LET target == CHOOSE t \in select_target(q.target) : TRUE
        dns    == check_dns(w.dns)
    IN  [dns |-> dns, route |-> check_route(dns, w.route, w.local_addr), tcp |-> check_tcp(w.tcp),
         tls |-> check_tls(target, w.tls), http |-> check_http(target, w.http),
         trace |-> check_trace(q.trace, w.trace), wanted |-> q.trace]

\* run: the probes one after the other, whatever the earlier ones found, then the verdict.
Probe(r) ==
    /\ permit = r /\ \E i \in DOMAIN Stages : task[r].at = Stages[i]
    /\ IF task[r].at = "trace"
       THEN Say(r, overall_result(report(Requests[r], task[r].world)))
       ELSE Doctor(r, Stages[(CHOOSE i \in DOMAIN Stages : Stages[i] = task[r].at) + 1])
    /\ UNCHANGED <<permit, loop, chan>> /\ Still

\* The stages that wait for an external command: nothing bounds that wait.
AwaitsCommand(r) ==
    \/ task[r].at = "route" /\ check_dns(task[r].world.dns) = "ok" /\ task[r].world.route # "absent"
    \/ task[r].at = "trace" /\ Requests[r].trace /\ task[r].world.trace # "absent"

\* publish_json waits for room in the client's queue; the permit is dropped after it.
Publish(r) ==
    /\ task[r].at = "publish" /\ Len(chan) < ChanCap
    /\ chan' = Append(chan, r)
    /\ task' = [task EXCEPT ![r].at = "answered", ![r].world = NoWorld]
    /\ permit' = IF permit = r THEN None ELSE permit
    /\ UNCHANGED loop /\ Still

\* The event loop: it subscribes after a ConnAck, waiting for room in the queue it alone drains.
LoopConnAck == loop = "down" /\ boot.up /\ boot.mqtt # <<>> /\ loop' = "subscribing"
               /\ UNCHANGED <<task, permit, chan>> /\ Still

LoopSubscribed ==
    /\ loop = "subscribing" /\ Len(chan) < ChanCap
    /\ loop' = "up"
    /\ chan' = Append(chan, "subscribe")
    /\ UNCHANGED <<task, permit>> /\ Still

LoopSend == loop = "up" /\ chan # <<>> /\ chan' = Tail(chan)
            /\ UNCHANGED <<task, permit, loop>> /\ Still

LoopDeliver(r) ==
    /\ loop = "up" /\ task[r].at = "none"
    /\ Doctor(r, "spawned")
    /\ UNCHANGED <<permit, loop, chan>> /\ Still

\* The link is lost: EventLoop::clean takes the queued requests out of the channel, to send
\* them first on the next connection.
LoopError == loop = "up" /\ loop' = "down" /\ chan' = <<>> /\ UNCHANGED <<task, permit>> /\ Still

DoctorService ==
    \/ LoopConnAck \/ LoopSubscribed \/ LoopSend \/ LoopError
    \/ \E r \in DOMAIN Requests : LoopDeliver(r) \/ Plan(r) \/ Probe(r) \/ Publish(r)

-----------------------------------------------------------------------------

NodeInit ==
    /\ command \in Commands
    /\ boot = Boot(command.args, command.env)
    /\ conn = [c \in Conns |-> NoConn]
    /\ task = [r \in DOMAIN Requests |-> [at |-> "none", world |-> NoWorld, said |-> None]]
    /\ permit = None
    /\ loop = "down" /\ chan = <<>>
    /\ LogInit

NodeNext ==
    \/ Proxy \/ DoctorService
    \/ boot.up /\ boot.access_log /\ Writer /\ UNCHANGED <<bootVars, proxyVars, doctorVars>>

\* Tasks run when they can and a probe under a time-out ends; an external command and the
\* broker may take for ever, and the writer is as in AccessLog.
Fairness ==
    /\ WriterFairness
    /\ \A r \in DOMAIN Requests :
         /\ WF_nodeVars(Plan(r)) /\ SF_nodeVars(Publish(r))
         /\ WF_nodeVars(Probe(r) /\ ~AwaitsCommand(r))
    /\ WF_nodeVars(LoopSubscribed) /\ SF_nodeVars(LoopSend)

NodeSpec == NodeInit /\ [][NodeNext]_nodeVars
FairNodeSpec == NodeSpec /\ Fairness

-----------------------------------------------------------------------------
(* Properties                                                              *)

\* Whoever gets a connection through a listener presented a user and a password that the
\* operator of this process wrote down, never a built-in one (rove-hop.rs, proxy/mod.rs).
Admitted ==
    \A c \in Conns : conn[c].stage \in {"dialing", "replying", "tunnel"} =>
        LET a == parse(command.args) e == command.env
        IN  /\ conn[c].presented[1] \in {a.username, e.username} \ {None, ""}
            /\ conn[c].presented[2] \in {a.password, e.password} \ {None, ""}

\* Every handler that ended with a record left it in the channel, in the count of the dropped
\* ones or with the file's appender; what the appender got is in its queue, once in the file or
\* among what it gave up, which nothing counts; and the gauges add up to the baseline of each row.
LogAccounts ==
    /\ boot.access_log =>
         Cardinality({c \in Conns : At(c, "done")}) =
            Cardinality({c \in Conns : logged[c] = 1}) + Len(logQ) + dropped
    /\ \A c \in Conns : logged[c] <= 1 /\ InOnePlace(c)
    /\ GaugesAddUp

\* The event loop waits for room in the queue that only its own poll drains: for ever.
Stuck == loop = "subscribing" /\ Len(chan) = ChanCap

\* A doctor request that names an allowed reply topic is answered, unless an external command
\* of it hangs, the event loop never finds the broker again, or replies queued while it was
\* away leave no room for its own subscription (hop_mqtt.rs).
DoctorAnswered ==
    \A r \in DOMAIN Requests :
        (task[r].at = "spawned" /\ plan_doctor_command(Requests[r]) # "drop")
            ~> (task[r].at = "answered" \/ [](AwaitsCommand(r)) \/ [](loop = "down") \/ []Stuck)
=============================================================================
