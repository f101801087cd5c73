--------------------------- MODULE ControlChannel ---------------------------
(***************************************************************************)
(* The MQTT control channel of a node: the event loop of mqtt.rs, the      *)
(* handler tasks it spawns for the commands of the control plane, the      *)
(* registry of diagnostic sessions (diagnostics.rs), the one-shot probes   *)
(* (trace.rs), and the tail of a proxied connection that reports to both.  *)
(*                                                                         *)
(* Three bounded channels meet in the event loop.  Connections put         *)
(* diagnostic events on diagQ with try_send and probe reports on traceQ    *)
(* with an awaited send; the event loop moves both to `requests', the      *)
(* channel of the MQTT client, which only the event loop itself drains.    *)
(* Payloads are abstracted: a queue of reports is its length, a message on *)
(* `requests' is "publish" or "subscribe", which stands for the            *)
(* subscriptions to the four command topics.                               *)
(***************************************************************************)
EXTENDS Integers, Sequences, FiniteSets

CONSTANTS
    Conns,          \* proxied connections
    Commands(_),    \* payloads the k-th command may carry: [kind, ...]
    Candidates(_),  \* outcomes connection c may have: [user, host, stage]
    MaxSessions, MaxSessionsPerUser,
    DefaultTtl, MaxTtl, ProbeDefaultTtl, ProbeMaxTtl,   \* in seconds
    DiagCap, TraceCap, RequestCap,      \* capacities of the channels
    ThrottleSecs,   \* window of the sync command throttle
    MaxCommands,    \* bound: commands delivered in a behaviour
    MaxTime         \* bound: last instant of the clock

None == "none"
Absent == -1        \* an absent number: a ttl, the time of the last sync command
Free == 0           \* no handler holds the gate of the syncer
Tasks == 1 .. MaxCommands

ASSUME ControlBounds ==
    /\ {MaxSessions, DiagCap, TraceCap, RequestCap, MaxTtl, ProbeMaxTtl, MaxCommands} \subseteq Nat \ {0}
    /\ {MaxSessionsPerUser, DefaultTtl, ProbeDefaultTtl, ThrottleSecs, MaxTime} \subseteq Nat

VARIABLES
    now,        \* the clock, in seconds
    sessions,   \* DiagnosticRegistry.inner: a function from armed request ids
    probes,     \* ProbeTracer.inner: a function from armed request ids
    diagQ,      \* events waiting in the diagnostic channel
    traceQ,     \* reports waiting in the trace channel
    requests,   \* request channel of the MQTT client
    link,       \* connection to the broker: "up" or "down"
    subscribed, \* whether the broker delivers the command topics
    loop,       \* messages the event loop is awaiting room for; none in select
    tasks,      \* handler task of each delivered command: [pc, cmd]
    lastSync,   \* last_sync_command_at
    syncGate,       \* the handler that holds Syncer.gate, or Free
    conns,      \* end of a connection: [at, probe], probe the arm it reports to
    hist        \* what happened to the arm of each task

channelVars == <<now, sessions, probes, diagQ, traceQ, requests, link, subscribed,
                 loop, tasks, lastSync, syncGate, conns, hist>>

-----------------------------------------------------------------------------
(* Event types and filters                                                 *)

PerConnection == {"auth", "policy", "limit", "outbound", "splice"}

\* DiagnosticEventType::from_candidate; stage None with an ok result is a finished tunnel.
EventType(c) ==
    CASE c.stage \in {"auth", "policy", "limit"} -> c.stage
      [] c.stage \in {"outbound", "dns", "dial", "tls", "chain_exhausted",
                      "reverse_lookup", "reverse_open", "hop_connect"} -> "outbound"
      [] c.stage \in {"splice", "stream_io", None} -> "splice"
      [] OTHER -> None

\* A filter that was not given accepts everything, an identity that is missing nothing.
optional_eq(expected, actual) == expected = None \/ expected = actual

matches(filter, c) == optional_eq(filter.user, c.user) /\ optional_eq(filter.host, c.host)

clamp_ttl(ttl, default, max) ==
    LET secs == IF ttl = Absent THEN default ELSE ttl
    IN  IF secs < 1 THEN 1 ELSE IF secs > max THEN max ELSE secs

\* An omitted or empty list asks for every type; unknown tokens are ignored.
resolve_event_types(raw) == IF raw = {} THEN PerConnection ELSE raw \cap PerConnection

-----------------------------------------------------------------------------
(* The registry of diagnostic sessions                                     *)

Live == {r \in DOMAIN sessions : sessions[r].expires > now}
OfUser(u, S) == {r \in S : sessions[r].user = u}

StartPlan(cmd) ==
    CASE cmd.reply # "allowed" -> "ignore"
      [] cmd.reply = "allowed" /\ cmd.user = None -> "bad_request"
      [] OTHER -> "arm"

Rejected(cmd) ==
    /\ cmd.req \notin Live
    /\ \/ Cardinality(Live) >= MaxSessions
       \/ Cardinality(OfUser(cmd.user, Live)) >= MaxSessionsPerUser

NewSession(k, cmd) ==
    [task |-> k, user |-> cmd.user, host |-> cmd.host, types |-> resolve_event_types(cmd.types),
     expires |-> now + clamp_ttl(cmd.ttl, DefaultTtl, MaxTtl), matched |-> 0, dropped |-> 0]

\* DiagnosticRegistry::start forgets the expired sessions first, then refuses or (re)arms.
start(k, cmd) ==
    LET kept == {r \in Live : Rejected(cmd) \/ r # cmd.req}
        gone == DOMAIN sessions \ kept
    IN  /\ sessions' = [r \in kept \cup (IF Rejected(cmd) THEN {} ELSE {cmd.req}) |->
                            IF r \in kept THEN sessions[r] ELSE NewSession(k, cmd)]
        /\ hist' = [t \in Tasks |->
                        CASE \E r \in gone : sessions[r].task = t /\ r \notin Live ->
                                [hist[t] EXCEPT !.end = "purged"]
                          [] \E r \in gone : sessions[r].task = t /\ r \in Live ->
                                [hist[t] EXCEPT !.end = "rearmed"]
                          [] t = k /\ ~Rejected(cmd) -> [hist[t] EXCEPT !.end = "armed"]
                          [] OTHER -> hist[t]]

\* cancel and sweep_expired: the sessions in R leave with a summary each.
CloseSessions(R) ==
    /\ sessions' = [r \in DOMAIN sessions \ R |-> sessions[r]]
    /\ hist' = [t \in Tasks |->
                  IF \E r \in R : sessions[r].task = t
                  THEN LET s == sessions[CHOOSE r \in R : sessions[r].task = t]
                       IN  [hist[t] EXCEPT !.end = "summary",
                                           !.summaries = Append(@, [matched |-> s.matched,
                                                                    dropped |-> s.dropped])]
                  ELSE hist[t]]

\* Faulty: an event counts as matched before try_send refuses it.
recordCountsFirst(c) ==
    LET wanting == {r \in Live : matches(sessions[r], c) /\ EventType(c) \in sessions[r].types}
        fits    == Cardinality(wanting) <= DiagCap - diagQ
        of(t)   == Cardinality({r \in wanting : sessions[r].task = t})
    IN  /\ diagQ' = IF fits THEN diagQ + Cardinality(wanting) ELSE diagQ
        /\ sessions' = [r \in DOMAIN sessions |->
                            IF r \in wanting THEN [sessions[r] EXCEPT !.matched = @ + 1] ELSE sessions[r]]
        /\ hist' = [t \in Tasks |-> [hist[t] EXCEPT !.seen = @ + of(t), !.queued = IF fits THEN @ + of(t) ELSE @]]

\* DiagnosticRegistry::record: one try_send per live session that wants the event.
record(c) ==
    LET wanting == {r \in Live : matches(sessions[r], c) /\ EventType(c) \in sessions[r].types}
        room    == DiagCap - diagQ
    IN  \E sent \in SUBSET wanting :
          /\ IF Cardinality(wanting) <= room THEN sent = wanting ELSE Cardinality(sent) = room
          /\ diagQ' = diagQ + Cardinality(sent)
          /\ sessions' = [r \in DOMAIN sessions |->
                            CASE r \in sent -> [sessions[r] EXCEPT !.matched = @ + 1]
                              [] r \in wanting \ sent -> [sessions[r] EXCEPT !.dropped = @ + 1]
                              [] OTHER -> sessions[r]]
          /\ hist' = [t \in Tasks |->
                        [hist[t] EXCEPT
                           !.queued = @ + Cardinality({r \in sent : sessions[r].task = t}),
                           !.seen = @ + Cardinality({r \in Live : sessions[r].task = t
                                                       /\ matches(sessions[r], c)
                                                       /\ EventType(c) \in sessions[r].types})]]

-----------------------------------------------------------------------------
(* Handler tasks, spawned for every delivered command                      *)

Running(k, kind) == tasks[k].pc = "spawned" /\ tasks[k].cmd.kind = kind
Goto(k, pc) == tasks' = [tasks EXCEPT ![k].pc = pc]

HandleStart(k) ==
    /\ Running(k, "start")
    /\ CASE StartPlan(tasks[k].cmd) = "ignore" -> Goto(k, "done") /\ UNCHANGED <<sessions, hist>>
         [] StartPlan(tasks[k].cmd) = "bad_request" -> Goto(k, "reply") /\ UNCHANGED <<sessions, hist>>
         [] OTHER -> Goto(k, "reply") /\ start(k, tasks[k].cmd)
    /\ UNCHANGED <<now, probes, diagQ, traceQ, requests, link, subscribed, loop, lastSync, syncGate, conns>>

HandleCancel(k) ==
    /\ Running(k, "cancel")
    /\ CloseSessions({tasks[k].cmd.req} \cap DOMAIN sessions)
    /\ Goto(k, IF tasks[k].cmd.req \in DOMAIN sessions THEN "reply" ELSE "done")
    /\ UNCHANGED <<now, probes, diagQ, traceQ, requests, link, subscribed, loop, lastSync, syncGate, conns>>

\* handle_probe_trace_command: ProbeTracer::arm replaces an arm of the same id.
HandleProbe(k) ==
    /\ Running(k, "probe")
    /\ LET cmd == tasks[k].cmd
           arm == [task |-> k, user |-> cmd.user, host |-> cmd.host,
                   expires |-> now + clamp_ttl(cmd.ttl, ProbeDefaultTtl, ProbeMaxTtl)]
       IN  IF cmd.reply # "allowed"
           THEN Goto(k, "done") /\ UNCHANGED <<probes, hist>>
           ELSE /\ probes' = [r \in DOMAIN probes \cup {cmd.req} |-> IF r = cmd.req THEN arm ELSE probes[r]]
                /\ hist' = [hist EXCEPT ![k].end = "armed"]
                /\ Goto(k, "reply")
    /\ UNCHANGED <<now, sessions, diagQ, traceQ, requests, link, subscribed, loop, lastSync, syncGate, conns>>

allow_sync_command == lastSync = Absent \/ now - lastSync >= ThrottleSecs

\* A command that passes the throttle spends it even when the gate is taken, by another
\* handler or (polling) by the poll loop of the syncer.
HandleSync(k, polling) ==
    /\ Running(k, "sync")
    /\ lastSync' = IF allow_sync_command THEN now ELSE lastSync
    /\ IF allow_sync_command /\ syncGate = Free /\ ~polling
       THEN /\ syncGate' = k
            /\ Goto(k, "syncing")
            /\ hist' = [hist EXCEPT ![k].end = "sync"]
       ELSE Goto(k, "reply") /\ UNCHANGED <<syncGate, hist>>
    /\ UNCHANGED <<now, sessions, probes, diagQ, traceQ, requests, link, subscribed, loop, conns>>

SyncDone(k) ==
    /\ tasks[k].pc = "syncing"
    /\ syncGate' = Free
    /\ Goto(k, "reply")
    /\ UNCHANGED <<now, sessions, probes, diagQ, traceQ, requests, link, subscribed, loop, lastSync, conns, hist>>

\* user_policy_response reads the engine and answers, unless the reply topic is refused.
HandleQuery(k) ==
    /\ Running(k, "query")
    /\ Goto(k, IF tasks[k].cmd.reply = "allowed" THEN "reply" ELSE "done")
    /\ UNCHANGED <<now, sessions, probes, diagQ, traceQ, requests, link, subscribed, loop, lastSync, syncGate, conns, hist>>

\* A payload that does not decode is answered on the topic of the sync commands only.
HandleGarbled(k) ==
    /\ Running(k, "garbled")
    /\ Goto(k, IF tasks[k].cmd.reply = "sync" THEN "reply" ELSE "done")
    /\ UNCHANGED <<now, sessions, probes, diagQ, traceQ, requests, link, subscribed, loop, lastSync, syncGate, conns, hist>>

Room == Len(requests) < RequestCap

\* publish_json at the end of a handler waits for room in the client's channel.
Reply(k) ==
    /\ tasks[k].pc = "reply"
    /\ Room
    /\ requests' = Append(requests, "publish")
    /\ Goto(k, "done")
    /\ UNCHANGED <<now, sessions, probes, diagQ, traceQ, link, subscribed, loop, lastSync, syncGate, conns, hist>>

-----------------------------------------------------------------------------
(* The end of a proxied connection (report_trace)                          *)

\* Faulty: the arm stays until it expires.
finishKeepsArm(c, outcome) ==
    LET hits == {r \in DOMAIN probes : probes[r].expires > now /\ matches(probes[r], outcome)}
    IN  /\ UNCHANGED probes
        /\ \/ hits = {} /\ conns' = [conns EXCEPT ![c] = [at |-> "done", probe |-> Free]]
           \/ \E r \in hits : conns' = [conns EXCEPT ![c] = [at |-> "sending", probe |-> probes[r].task]]

\* ProbeTracer::finish drops the expired arms and takes one matching arm, if any.
finish(c, outcome) ==
    LET alive == {r \in DOMAIN probes : probes[r].expires > now}
        hits  == {r \in alive : matches(probes[r], outcome)}
    IN  \/ /\ hits = {}
           /\ probes' = [r \in alive |-> probes[r]]
           /\ conns' = [conns EXCEPT ![c] = [at |-> "done", probe |-> Free]]
        \/ \E r \in hits :
             /\ probes' = [q \in alive \ {r} |-> probes[q]]
             /\ conns' = [conns EXCEPT ![c] = [at |-> "sending", probe |-> probes[r].task]]

\* The outcome goes to the sessions, then to the probes; only the send of the report waits.
Complete(c, outcome) ==
    /\ conns[c].at = "open"
    /\ record(outcome)
    /\ finish(c, outcome)
    /\ UNCHANGED <<now, traceQ, requests, link, subscribed, loop, tasks, lastSync, syncGate>>

SendReport(c) ==
    /\ conns[c].at = "sending"
    /\ traceQ < TraceCap
    /\ traceQ' = traceQ + 1
    /\ conns' = [conns EXCEPT ![c].at = "done"]
    /\ UNCHANGED <<now, sessions, probes, diagQ, requests, link, subscribed, loop, tasks, lastSync, syncGate, hist>>

-----------------------------------------------------------------------------
(* The event loop                                                          *)

Select == loop = <<>>
Await(msgs) == loop' = msgs

\* ConnAck: subscribe to the command topics, then announce the node.
LoopConnAck ==
    /\ Select /\ link = "down"
    /\ link' = "up"
    /\ Await(<<"subscribe", "publish">>)
    /\ UNCHANGED <<now, sessions, probes, diagQ, traceQ, requests, subscribed, tasks, lastSync, syncGate, conns, hist>>

\* A publish of the broker: handle_publish spawns the handler of its topic.
LoopDeliver(k) ==
    /\ Select /\ link = "up" /\ subscribed
    /\ tasks[k].pc = "idle" /\ \A j \in 1 .. k - 1 : tasks[j].pc # "idle"
    /\ \E cmd \in Commands(k) : tasks' = [tasks EXCEPT ![k] = [pc |-> "spawned", cmd |-> cmd]]
    /\ UNCHANGED <<now, sessions, probes, diagQ, traceQ, requests, link, subscribed, loop, lastSync, syncGate, conns, hist>>

\* poll writes one request of the channel to the broker.
LoopFlush ==
    /\ Select /\ link = "up" /\ requests # <<>>
    /\ requests' = Tail(requests)
    /\ subscribed' = (subscribed \/ Head(requests) = "subscribe")
    /\ UNCHANGED <<now, sessions, probes, diagQ, traceQ, link, loop, tasks, lastSync, syncGate, conns, hist>>

\* poll fails: the client empties its channel (a new clean session drops what it held) and
\* the loop pauses, a delay like any other.
LoopError ==
    /\ Select
    /\ link' = "down"
    /\ subscribed' = FALSE
    /\ requests' = <<>>
    /\ UNCHANGED <<now, sessions, probes, diagQ, traceQ, loop, tasks, lastSync, syncGate, conns, hist>>

\* Faulty: reports are only taken while the broker is reachable.
LoopTraceConnected ==
    /\ Select /\ traceQ > 0 /\ link = "up"
    /\ traceQ' = traceQ - 1
    /\ Await(<<"publish">>)
    /\ UNCHANGED <<now, sessions, probes, diagQ, requests, link, subscribed, tasks, lastSync, syncGate, conns, hist>>

LoopTrace ==
    /\ Select /\ traceQ > 0
    /\ traceQ' = traceQ - 1
    /\ Await(<<"publish">>)
    /\ UNCHANGED <<now, sessions, probes, diagQ, requests, link, subscribed, tasks, lastSync, syncGate, conns, hist>>

LoopDiag ==
    /\ Select /\ diagQ > 0
    /\ diagQ' = diagQ - 1
    /\ Await(<<"publish">>)
    /\ UNCHANGED <<now, sessions, probes, traceQ, requests, link, subscribed, tasks, lastSync, syncGate, conns, hist>>

\* Faulty: sessions are only swept while the broker is reachable.
LoopSweepConnected ==
    /\ Select /\ DOMAIN sessions # Live /\ link = "up"
    /\ CloseSessions(DOMAIN sessions \ Live)
    /\ Await([i \in 1 .. Cardinality(DOMAIN sessions \ Live) |-> "publish"])
    /\ UNCHANGED <<now, probes, diagQ, traceQ, requests, link, subscribed, tasks, lastSync, syncGate, conns>>

\* The sweep closes every expired session and publishes their summaries one by one.
LoopSweep ==
    /\ Select /\ DOMAIN sessions # Live
    /\ CloseSessions(DOMAIN sessions \ Live)
    /\ Await([i \in 1 .. Cardinality(DOMAIN sessions \ Live) |-> "publish"])
    /\ UNCHANGED <<now, probes, diagQ, traceQ, requests, link, subscribed, tasks, lastSync, syncGate, conns>>

\* The loop awaits room for its own message: it polls nothing meanwhile.
LoopPublish ==
    /\ loop # <<>> /\ Room
    /\ requests' = Append(requests, Head(loop))
    /\ Await(Tail(loop))
    /\ UNCHANGED <<now, sessions, probes, diagQ, traceQ, link, subscribed, tasks, lastSync, syncGate, conns, hist>>

Tick ==
    /\ now < MaxTime
    /\ now' = now + 1
    /\ UNCHANGED <<sessions, probes, diagQ, traceQ, requests, link, subscribed, loop, tasks, lastSync, syncGate, conns, hist>>

-----------------------------------------------------------------------------

ChannelInit ==
    /\ now = 0
    /\ sessions = <<>> /\ probes = <<>>
    /\ diagQ = 0 /\ traceQ = 0
    /\ requests = <<>>
    /\ link = "down" /\ subscribed = FALSE
    /\ loop = <<>>
    /\ tasks = [k \in Tasks |-> [pc |-> "idle", cmd |-> [kind |-> None]]]
    /\ lastSync = Absent /\ syncGate = Free
    /\ conns = [c \in Conns |-> [at |-> "open", probe |-> Free]]
    /\ hist = [k \in Tasks |-> [end |-> None, seen |-> 0, queued |-> 0, summaries |-> <<>>]]

Handler(k) ==
    \/ HandleStart(k) \/ HandleCancel(k) \/ HandleProbe(k) \/ SyncDone(k) \/ Reply(k)
    \/ HandleQuery(k) \/ HandleGarbled(k) \/ \E polling \in BOOLEAN : HandleSync(k, polling)

EventLoop ==
    \/ LoopConnAck \/ LoopFlush \/ LoopError \/ LoopTrace \/ LoopDiag
    \/ LoopSweep \/ LoopPublish \/ \E k \in Tasks : LoopDeliver(k)

ChannelNext ==
    \/ EventLoop
    \/ Tick
    \/ \E k \in Tasks : Handler(k)
    \/ \E c \in Conns : SendReport(c) \/ \E outcome \in Candidates(c) : Complete(c, outcome)

\* A runnable task runs; select! picks its ready branches at random, hence SF.  Nothing is assumed of the broker or of the connections.
Fairness ==
    /\ \A k \in Tasks : WF_channelVars(Handler(k))
    /\ \A c \in Conns : WF_channelVars(SendReport(c))
    /\ WF_channelVars(LoopPublish) /\ SF_channelVars(LoopTrace) /\ SF_channelVars(LoopSweep)
    /\ WF_channelVars(Tick)

ChannelSpec == ChannelInit /\ [][ChannelNext]_channelVars
FairChannelSpec == ChannelSpec /\ Fairness

-----------------------------------------------------------------------------
(* Properties                                                              *)

\* The event loop waits for room in the channel that only itself drains.
Stuck == loop # <<>> /\ ~Room

\* An arm closes with at most one summary, and the summary counts every connection that
\* concerned the session exactly once: as an event that was queued or as a dropped one.
SummaryExact ==
    \A k \in Tasks :
        /\ Len(hist[k].summaries) <= 1
        /\ \A i \in DOMAIN hist[k].summaries :
             hist[k].summaries[i] = [matched |-> hist[k].queued, dropped |-> hist[k].seen - hist[k].queued]

\* One arm of a probe is one report, however many connections finish together.
ProbeOnce == \A c, d \in Conns : c # d /\ conns[c].probe # Free => conns[c].probe # conns[d].probe

\* The reports hold a connection up only when the event loop has shut itself out.
HeldOnlyWhenStuck == \A c \in Conns : conns[c].at = "sending" ~> conns[c].at = "done" \/ Stuck

\* A session whose time comes is closed, unless the event loop has shut itself out.
SessionEnds ==
    \A k \in Tasks :
        (\E r \in DOMAIN sessions : sessions[r].task = k /\ sessions[r].expires <= MaxTime)
            ~> (Stuck \/ \A r \in DOMAIN sessions : sessions[r].task # k)
=============================================================================
