# Rove: TLA+ models, checks and proofs

Rove is a policy-enforcing forward proxy with several overlay transports. A node
accepts clients over HTTP, SOCKS5, SNI and TUIC, decides every connection
against a compiled policy snapshot that a control plane keeps up to date, and
sends the traffic out directly, through an upstream proxy, or through a *reverse
hop* that dialled in from behind NAT. A node behind NAT can publish listeners on
a public relay (*reverse ingress*), and nodes can form an encrypted layer-3 mesh
(*Subnetra*). This directory holds the TLA+ models of the parts whose behaviour
depends on concurrency, failures or ordering, the TLC configurations that check
them on small instances, and TLAPS proofs of the central results.

Paths below are relative to `src/src/` unless they start with `docs/`.

## 1. Inventory

| Component | Source | State | Operations | Hard because |
|---|---|---|---|---|
| Subnetra session | `subnetra/session.rs`, `replay.rs`, `wire.rs`, `crypto.rs` | send epoch and counter; adopted epoch, key, replay window | seal, accept, restart | UDP loses, repeats and reorders; no handshake after a restart; nothing may change before the tag is verified |
| Subnetra mesh | `subnetra/config.rs`, `peer.rs`, `reactor.rs`, `service.rs`, `device/` | peer table with endpoints and networks; packet queues | inbound, outbound, hub relay, keepalive | endpoints roam on authenticated traffic only; a spoke's source may be borrowed |
| Subnetra user-space stack | `subnetra/netstack/` | listener pool, sockets, streams with their wakers | accept, promote, connect, pump, evict | driver and streams share a socket; a wake-up may be missed |
| Snapshot sync | `sync/mod.rs`, `engine.rs`, `addrbook/mod.rs`, `main.rs` | served pair (document, book), raw document, installed book, cache file, gate | poll, MQTT command, book poll, start | three tasks share one gate; crash between the steps of a save |
| Reverse ingress, control | `ingress/relay.rs`, `ingress/connector.rs` | sessions, leases, port reservations; connector stage and backoff | register, lease, serve, grace, reconnect | both ends notice a loss at different times |
| Reverse ingress, data | same, `ingress/metadata.rs` | UDP flows, stream permits, source metadata | forward, sweep, clear | lock released between look-up, await and insert |
| Reverse hop, TCP | `reverse/edge.rs`, `reverse/hop.rs` | registry, three layers of permits, session loops | register, replace, open, serve, release | ghost sessions; permits returned by different tasks |
| Reverse hop, UDP | `reverse/udp.rs` | session ids, return channels, socket table, contacted set, resolver cache | associate, send, route, evict, dissociate | late datagrams; associate and reply are two steps |
| UDP frontends | `inbound/tuic`, `inbound/socks5_udp.rs` | associations and their relays | first packet, send, dissociate, close | two first packets race; dissociate races open |
| TCP frontends | `inbound/http.rs`, `socks5.rs`, `sni.rs`, `listener.rs`, `sniff.rs` | one connection each | sniff, authenticate, decide, dial, splice | timeouts, half-close, shutdown |
| Admission | `engine.rs`, `stats.rs` | per-user permits, counters | acquire, drop, swap | limit of an old snapshot |
| Policy decision | `model.rs`, `policy/`, `resolver.rs` | none (pure over a snapshot) | decide | precedence and default cases |
| Outbound | `outbound/mod.rs`, `proxy/mod.rs` | one connection each | dial, upstream handshake, splice | partial failure of a chain |
| Control channel, diagnostics | `mqtt.rs`, `diagnostics.rs`, `trace.rs` | three bounded queues, diagnostic sessions, probes | command, event, publish, sweep | full queues, reconnects, a session that ends while a connection reports |
| Access log | `access_log.rs`, `stats.rs` | bounded channel, writer, sinks, counters | record, gauge, forward | a collector that hangs; a full channel |
| Hop node | `bin/rove-hop.rs`, `proxy/mod.rs`, `hop_mqtt.rs`, `egress_diagnostic.rs` | command line, listeners, doctor | parse, accept, authenticate, diagnose | options bind to the edge before them; defaults from the environment |
| Life cycle | `main.rs`, `lifecycle.rs`, `health.rs` | shutdown flag, task set, health inputs | drain, classify | deadline races the drain |
| Address book | `addrbook/builder.rs`, `format.rs`, `book.rs`, `export.rs`, `sources.rs` | files | build, validate, select, look up, export | overlapping ranges; ends of the address space; lists that include each other |
| Documents | `model.rs` | none | decode, compile for a node | what is refused, what is inherited, what is overridden |
| Wire formats | `ingress/frame.rs`, `reverse/frame.rs`, `inbound/tuic/codec.rs`, `subnetra/wire.rs` | none | encode, decode | two decoders of one format; bytes that follow a frame |
| Configuration, helpers | `config.rs`, `tls.rs`, `io.rs`, `util.rs`, ... | none | parse, validate | - |

The parts meet in four places. The sync component swaps the snapshot that every
frontend reads. The frontends ask the edge's registry (`ReverseHopManager`) for a
tunnel or a UDP relay, which the hop on the other side serves. The relay forwards
public traffic over the connector's QUIC connection into the node's ordinary
listeners. Subnetra runs beside all of this: a hub's accept loop hands the streams of
its user-space stack to the proxy, and nothing else is shared. Every connection
reports to the access log and to the diagnostic registry when it ends.

What makes each part correct is listed with its model below; `PROJECT.json`
lists every place in the code that is hard to test ("hazards") with the
properties aimed at it.

## 2. The models

### SubnetraReplay, SubnetraSession, SubnetraLink

`SubnetraReplay` is `ReplayWindow` as operators: the bitmap is a function from
offsets to Booleans, `IsFresh` and `Record` are the two halves of
`check_and_set`. `SubnetraSession` is one direction of a link: `Seal` is
`TxSession::seal`, `Receive` (`AcceptDatagram` or `Drop`) the whole of
`RxSession::accept`. A sealed body is the record of what was sealed; `Opens` says
that it opens under the key of its own epoch and its own sequence number and
under no other, whatever the clear header says, so a header that was damaged
on the way is an input like any other. The network is a set (datagrams are
repeated and reordered) from which `Lose` removes. `RestartTx` takes the next
boot epoch: that boot epochs grow is an assumption of the code
(`subnetra/mod.rs:68-72`, `docs/best-practices.md:256`) and of the model.
`SubnetraLink` is the promise: a datagram that was sent is handed over at most
once per life of the receiver, and epochs only go up.

### SnapshotSync

One node: the served pair `serving`, the raw document `last_raw`, the installed
`book`, the candidate read from disk, the cache file with its temporary, the gate
and one job per syncing task. Every await of `sync_once_locked`, `apply_remote`
and `atomic_write_cache` is a step boundary; `Crash` and `PowerLoss` may happen at
any of them, and a power loss may tear what was not fsynced. A document is its
version, a book its release; `Compat` says which pairs compile. `Publish` and
`Release` are the control plane and the operator.

### IngressLease

The relay's sessions, leases and reservations and the connectors. `HandleLease` is
the whole of `handle_lease` up to the reply (reservation, bind, permit),
`LeaseAckFails` its error paths, `EndLease` the end of a lease task with its port
guard, whether the task sees the connection closed or `handle_connection` aborts it. A TCP
listener closes with its task. A UDP socket is shared with the flows of the lease: an
aborted task does not remove them, and the tasks that own the tables are aborted but not
joined before the node id is free, so the socket may stay bound (`lingering`) until
`DropFlows`, into the time of the next session. `Tick` counts the grace period and the backoff down. Tokens are taken to
match and QUIC to authenticate.

### IngressFlows

The UDP flows inside the leases of one node: `byKey` and `byId` of the relay, `flows`
of the connector, the registry of loopback sources (`metadata`) and the sockets with
their return tasks (`pump`). A flow id is random and new at the relay; the connector
takes whatever arrives. `udp_loop` is one task, at most in the middle of one packet
(`loop`): between `Receive`, which registers the source and spawns the return task, and
`Insert`, which enters the flow, sweeps and the end of the session may intervene. Each
sweeper collects what is idle and removes it one by one later. A lease task that sees the
connection closed removes its flows (`EndLease`); one that is aborted leaves them
(`AbortLease`) until the tables go with the session's last task (`DropTables`). A new
session has tables of its own, so what may be left of the old ones is followed only up to
`Reconnect`. The kernel hands a loopback address out again once nobody has it bound. What
a cut-off `get_or_open_flow` registered stays in the registry: `left` is the set of these
sources.

### IngressStreams

The TCP connections inside a lease, on top of `IngressFlows`, whose sessions it shares: a
lease has one transport, chosen in `DataInit`. `forward[p]` is the relay's task of a
public connection (`forward_tcp`) with its permit, `handler[p]` the connector's
(`handle_tcp`), a task of its own that outlives the session. `EndTcpLease` joins the
forward tasks of its lease; after an abort they end in their own time, with the permits of
the session that started them (`OrphanEnds` once another session serves). The kernel completes a
loopback connection on its own (`Established`), so a connect may time out just when it
is done; from then on the connection waits at the listener, which looks its client up by
the peer address (`Serve`). A local program may connect as well (`Intrude`). An address
is free again when no socket has it and no connection from it waits: a closed socket
stays in FIN-WAIT meanwhile. A connect that fails drops its socket (`ConnectFails`) and
withdraws the entry of the address afterwards (`Withdraw`), whoever the entry stands for by
then; `reused` is who got the address in between.

### ReverseTunnel

Edges, a hop, connections and tunnels. A connection and a tunnel have two ends
that see different things: `conn[c].stage` is the edge's handler, `hop[e]` the
hop's loop; `stream[s].e` is the edge's call and `stream[s].h` the hop's task.
Permits are counters at three places (`HopSession.permits`, the hop's per-edge
semaphore, its global one). The hop takes the per-edge permit and then the global one;
that the loop of another edge may hold the last global one for a moment, and put it back,
is `Borrowed`. A spliced tunnel ends when both directions have: first the target's
(`TargetEnds`), which nothing bounds, then the edge's (`SpliceEnds`, `HeldEnds`).

### ReverseUdp

UDP associations over one hop connection, with the edge's return channels, the
hop's socket table, the address-restricted filter and the reader that resolves a
name between looking a session up and sending.

### UdpFrontend

One client's UDP associations over either frontend and the relays they open
through `connect_udp`. Each command of TUIC is a task of its own, so two first
packets of an association may both be opening a relay (`opening`) when the first
of them is entered in the table; SOCKS5 reads and opens in one task. `Swap`
changes the policy between any two steps. `Step` is everything between two awaits
of `relay_uplink`. The candidates of `connect_udp` are the places in the chain still to
be tried, the least first. A relay is a name of the hop and the association it was opened
for; what happens to a packet behind it is `ReverseUdp`'s subject.

### PolicyIndex

Operators without state, extended by `Connection`: what the rules of a route match
(`Matches`, from `RuleSet`, `DomainMatcher`, `IpMatcher`), the `RouteIndex` all routes
of a policy are compiled into (`IndexInto`, `FromRoutes`) and the look-up in it
(`FirstMatch`). A host is a path (the labels of a name from the top-level domain
inward, the bits of an address) with the keywords it contains and the book categories
that list it, so a suffix and a network are both prefixes of a path. `FirstRoute` is
the reference: the first route in the order of declaration with a rule that matches.
`IndexAgrees` in `MCConnection`, which TLC evaluates before the `connection` run,
compares the two for every list of up to three routes with one rule, or of two routes
with up to two rules, over overlapping rules of every kind.

### Connection

TCP connections over HTTP, SOCKS5, SNI and TUIC CONNECT. `conn[c]` is the task of a
connection, its `stage` the await it is at: `handshake`, `request`, `respond` (an
error answer is being written), `sniff`, `dial`, `reply`, `splice`. `Admit` is the
first decision and the permit, which no await separates; `Sniffed` is the second
decision after a route sniff, made against whatever snapshot is served by then.
`Compiled` is what `compile_checked` makes of the documents the control plane
publishes: each policy gets an index, each chain the order of its priorities.
`Decide` is `decide_with_sniff` over that; `EgressByDecision` compares what comes out
with `Chosen`, which reads the documents themselves and has no index. Time is modelled where the code has a budget:
`spent` counts what the attempts of a chain used up. `End` drops whatever a task
holds, for a task that returns as for one that `Deadline` aborts.

### ControlChannel

The event loop of `mqtt.rs` is one task; what it does between two awaits is one
action (`LoopPublish`, `LoopTrace`, `LoopSweep`, ...). Handler tasks of commands
(`Handler`), connections that end (diagnostic event by `try_send`, probe report by an
awaited `send`) and the broker interleave with it. `requests` is the channel of the
MQTT client: the loop fills it and only the loop, polling the client, empties it. A
message is its kind; what a summary counts is kept next to what happened, so that
`SummaryExact` can compare the two.

### AccessLog, HopArgs, EgressDoctor, HopNode

`HopNode` is a hop process. `HopArgs` is its command line: the fold over the options
in which `--reverse-token` and its like bind to the edge written before them, the
environment, and every refusal. `EgressDoctor` is what the probes of the doctor conclude
and the verdict over them. `AccessLog` is the channel to the writer, the writer with its
periodic gauges, the file's appender and the syslog sinks with their timeouts, over the
counters of `stats.rs`. The appender (`tracing_appender::non_blocking`, external) is a
second bounded queue (`appendQ`) with a thread behind it: a line that finds it full, or
that the file refuses, is gone without a count (`givenUp`). `Boot` is `main` with every
refusal, those of `AccessLogger::spawn` included (`AccessLogStarts`). The event loop of
`hop_mqtt.rs` subscribes into the queue that only its own poll drains: `Stuck` is the state
in which it waits there for ever. A lost link takes the queued requests out of the channel,
as rumqttc's `clean` does. `HopNode` puts the listeners of `proxy/mod.rs` (authentication, dial,
splice, record) and the requests of `hop_mqtt.rs` on top.

### SubnetraMesh, Netstack

`SubnetraMesh` is a mesh node below its network stack: the validation of the
configuration, the peer table, the reactor with the hub's relay and the keepalives, and
the packet pump of a kernel device. The reactor goes on with datagrams
and keepalives until it notices that it is to stop; its device gets none of them then. The
session below appears as what `SubnetraLink` promises: an authentic datagram is taken once. `Netstack` extends it with the
user-space device: the driver with its listener pool, promotion, pump and eviction, the
streams with their wakers, and the accept loop of a hub. smoltcp is external; its
sockets are the TCP states this code looks at. `CutShort` and `Abandoned` name what the
eviction of a closed socket costs: the bytes it holds behind a full read buffer, whatever
closed it, and the wake-up of a writer.

### The wire formats: DatagramCodec, FrameCodec

Operators without state. `DatagramCodec` encodes and decodes the datagrams of SOCKS5,
TUIC, the reverse hop, reverse ingress and Subnetra octet by octet, `FrameCodec` the
line-based control frames token by token. TLC evaluates before the run `frontend` that
every decoder returns what was encoded and the payload behind it, that TUIC's stream
and buffer decoders agree, that a packet keeps its target from the frontend to the hop,
and that the header of a Subnetra datagram is recovered from its obfuscated form;
before the run `reverse` that a control frame is read back and the bytes that follow it
stay on the stream (`ReverseCarried`, `IngressCarried`), that a cut or oversized frame
and a number that does not fit are refused (`Strange`), and that no frame is read as two
kinds, across both protocols (`OneReading`).
The round trip of frames holds for values without line ends: `validate_field` of reverse
ingress ensures it, the encoder of the reverse hop relies on its callers.

### AddressBook, DomainSources

Operators without state. `AddressBook` is the builder with its sweep over overlapping
ranges, the validation of a file, the selection of categories with look-up, and the
export to blocks; `DomainSources` the expansion of domain lists that include other
lists, with its cache. Before the run `sync` TLC compares a look-up in the built book
with the rules it was built from, whatever their order (`BookAnswers`), demands that
neighbouring segments differ (`Merged`) and that a pattern without a category is refused
(`NothingSelected`), and compares the exported blocks with the smallest cover (`FewestBlocks`) and the
expanded lists with a walk along all includes that has no cache (`Expanded`, `Entered`).

### SnapshotDocument

Decoding and compilation of a policy document for one node: limits, references between
policies, routes and egresses, node overrides, and what each error refuses. Evaluated
before the run `connection`: what a document sends through an egress is never served
directly (`NothingFallsBack`), nodes that accept a document route alike and refuse only
for an override of their own (`NodeIndependent`), a front-end key leads to one user
(`KeysAreTold`), and a document at a limit compiles while one beyond it does not
(`Limits`).

## 3. Runs

| Run | Checks | Instance |
|---|---|---|
| `session` | `AtMostOnce`, `WindowExact`, `NeverPoisoned`, `ImplementsLink`, `Resync` | window 2, 4 sequence numbers, 2 boot epochs: the window slides by less than, exactly and more than its width, and the counter saturates |
| `sync` | `FailClosed`, `PairConsistent`, `CacheIntact`, `VersionNeverGoesBack`, `Adopted` | 3 documents, 2 books, 2 crashes; two of the documents are each refused by one book |
| `ingress` | `LeasesSound`, `PortRestored`, `Restored` | a node with a fixed and a dynamic listener and a greedy one without a grant for its last listener: faults, and every refusal |
| `flows` | `DataSound`, `ClientsTold`, `DataSettles` | UDP: two clients of one lease, two flow ids, two loopback addresses, one flow at a time on either side, one registration, one datagram under way, two sessions; TCP: two connections and a local program, one permit, room for one registration |
| `reverse` | `SessionsSound`, `Reregistered`, `HopLetsGo` | two edges, one of each policy, one global permit, a lost connection |
| `udp` | `AssociationsSound`, `Reclaimed` | two associations, one table slot, one contacted address, a channel of one packet |
| `frontend` | `TableSound`, `PerPacketPolicy`, `Released` | a TUIC and a SOCKS5 client, a chain of two hops, one policy swap, packets and commands that overlap |
| `frontend_direct` | `OnlyReverseCarriesUdp` (violated) | an association whose second target is decided Direct |
| `connection` | `Balanced`, `EgressByDecision`, `ChainSettles`, `Drained` | two connections of one user, one at HTTP or SNI, one at SOCKS5 or TUIC; three documents with overlapping routes: limit one, limit two, user removed; a chain of three that has time for one and a half attempts |
| `control` | `SummaryExact`, `ProbeOnce`, `HeldOnlyWhenStuck`, `SessionEnds` | two commands of every kind, two connections, queues of one and two, one session per user, a broker that comes and goes |
| `hop` | `Admitted`, `LogAccounts`, `LogDrains`, `DoctorAnswered` | eleven command lines and environments, two clients, room for one record in the channel and one line in the appender, a TCP collector that may hang, four doctor requests |
| `overlay` | `EndpointVouched`, `RelayedRight`, `SynFindsListener`, `StreamIntact` | a hub and a spoke with each device and configurations that are refused; queues of one, buffers of one byte, two TCP flows and five segments |

`LeasesSound`, `DataSound`, `SessionsSound`, `AssociationsSound`, `TableSound` and
`Balanced` are conjunctions of the named parts of a module's safety invariant, its
`TypeOK` among them; the comment before each says which part is about which code.
The type invariants of `SubnetraSession` and `SnapshotSync` are proved and not run.

Operators without state are compared with reference definitions in `ASSUME`s of the MC
modules, which TLC evaluates before the run: `PolicyIndex` and `SnapshotDocument` with
`connection`, `AddressBook` and `DomainSources` with `sync`, `DatagramCodec` with
`frontend`, `FrameCodec` with `reverse`, `HopArgs` and `EgressDoctor` with `hop`.

Every bound is named in the module that uses it. The instances are the smallest in
which each limit (window, table, queue, permits, leases) is both reached and
exceeded, two actors overlap, and a fault can hit each step. Two flows of one relay at the
same time, which `flows` has no room for, are covered by the proofs, which hold for every
limit.

A run whose system may really stop says `CHECK_DEADLOCK FALSE`: a node whose
artifact is invalid waits for the operator, a relay without faults left waits for
traffic, a closed connection has nothing left to do.

### Fairness

* Subnetra: a spoke seals keepalives for ever, and a network that is offered
  datagrams of the current epoch again and again delivers one (strong fairness).
  Losses, restarts and damage are never fair.
* Sync: a supervisor restarts the process; every fetch ends (15 s client timeout);
  the gate is tokio's FIFO mutex, so a task that keeps asking gets it (strong
  fairness); a control plane that is asked for ever answers with its newest
  document at some point.
* Ingress and reverse tunnels: every task keeps running; a connector that keeps dialling
  a relay whose accept queue moves gets through (strong fairness of `Dial`); QUIC keepalive and idle
  timeout tell both ends of a lost connection; timers expire; a port another
  program holds is given back, and the runtime drops the aborted tasks that hold one.
  Faults are bounded and not fair. Nothing is assumed of the targets of a tunnel: they may
  stay connected and silent for ever, and `HopLetsGo` excepts the tunnels they hold.
* Ingress traffic: both sweepers have intervals, a session that ends is cleaned up, a
  connect to a listener ends by its timeout, and the listener's accept loop takes what
  waits. Clients and the network owe nothing.
* Reverse UDP: the hop's task of an association keeps running.
* UDP frontends: opening a relay ends (the hop is given a time to answer), aborted
  tasks are dropped, a closed connection ends its loops. Clients owe nothing.
* Connections: the capture of a prefix has a timeout, so have the attempts of a
  chain; the grace period ends. Clients owe nothing, and neither does a single
  upstream: nobody limits the time of its handshake.

* Control channel: handler tasks and the blocked `send` of a report are scheduled; the
  select of the event loop is fair among the branches that are ready (tokio picks at
  random: strong fairness for the branches that compete), time passes. The broker,
  commands and connections owe nothing. `HeldOnlyWhenStuck` names the one state in which
  the loop waits for room in the channel that only it empties.
* Hop: the writer returns to its channel (strong fairness: receiving competes with the
  gauge interval), an operation on a TCP sink ends by its timeout; the event loop queues
  its subscription when there is room. The doctor's probes have timeouts except for the
  external route and trace commands, which are awaited (`AwaitsCommand`). Clients, the
  collector, the broker and the appender of the file owe nothing.
* The overlay run has only safety properties and states no fairness.

### What the violated property shows

* `OnlyReverseCarriesUdp`: `docs/client-setup.md:77`, `docs/tuic.md:112` and the
  module comment of `inbound/socks5_udp.rs` say that a packet whose target is not
  routed to a reverse hop is dropped. Both frontends look only for a block once the
  association has a relay: a target decided Direct then rides on the hop of an
  earlier one.

Reading the code for the models turned up more that no run is about. A TUIC relay
that lost the race for its association is kept by a detached pump until a packet
arrives after the connection closed (`inbound/tuic/mod.rs:901`; `Released` excludes
it). `docs/access-log.md:3` promises a line per completed connection, but a client
that is gone when the answer is written leaves none (`RespondFails`, `ReplyFails`).
`docs/reverse-ingress.md:45` makes the transport part of a grant, but `reserve_port`
compares port numbers across transports (`HeldByOther`), so the grace reservation of a
TCP lease makes the relay refuse the same number on UDP. An ingress flow whose opening
the end of a session cuts off leaves its registration and a detached return task behind
(`ingress/connector.rs:690`; the set `left` in `Truthful`, a part of `ClientsTold`): nobody
withdraws it, and whoever gets that loopback address later, until a flow registers it
again, is taken for the old client. A failed connect drops its socket before it withdraws
its entry (`ingress/connector.rs:792`): who gets the address in between loses its own entry
or, as a local program, is taken for the client of the failed one (`reused` in
`ClientsTold`). After an abort at `ingress/relay.rs:648` a UDP socket may be bound still
when its node comes back, which then gets another port (`PortRestored` names it).
A tunnel whose target stays silent keeps the hop's permits for ever: `io::splice` has no
timeout (`HopLetsGo`).
A single upstream that accepts and never answers holds the permit for ever
(`outbound/mod.rs:151`). A record of HTTP, SOCKS5 and SNI carries the version served
when it is written, one of TUIC the version that decided.

More of the same kind, from the code of the control and data planes:

* `docs/reverse-hop.md:110` says the DNS cache of a UDP session is bounded;
  `HopUdpSession::resolve` (`reverse/udp.rs:299`) never evicts.
* `docs/access-log.md:39` says that a record without a policy means that none was
  consulted; the records for a full connection limit and a failed connect in
  `inbound/http.rs:175` and `inbound/socks5.rs` leave the policy out.
* The comment at `subnetra/netstack/mod.rs:74` describes an abort flag that nothing sets, so
  a write or a flush on a socket that is gone sleeps instead of failing (`Abandoned`); and a
  socket that closes behind a full read buffer, orderly or not, loses what it holds
  (`netstack/mod.rs:610`, `CutShort`): the reader sees a clean end. `StreamIntact` allows
  these two and nothing else.
* `docs/access-log.md:83` says what a full queue drops is counted; what the appender behind it drops
  (`access_log.rs:455`) or cannot write (`access_log.rs:476` only sees errors of handing
  over) is counted nowhere.
* The loop of `hop_mqtt.rs` waits for room in its own queue when replies filled it while the
  broker was away (line 126), and never polls again (`Stuck`); `mqtt.rs:269` likewise.
* `docs/mqtt-integration.md:366` says the summary of a diagnostic session is always
  published; `DiagnosticRegistry::start` (`diagnostics.rs:303`) forgets the sessions that
  have expired but were not swept yet, and starting a session again under its id replaces
  it: neither leaves a summary. `SummaryExact` therefore says at most one.
* The comment at `addrbook/export.rs:56` promises the minimal set of blocks; the whole
  address space takes two, because a block never has more than 31 (or 127) host bits.
  `FewestBlocks` states the exception.
* Whether a deep chain of includes is refused depends on the order of the files: what the
  cache holds does not count towards the depth (`addrbook/sources.rs`).
* The nonce of a saturated counter (`subnetra/session.rs:149`), the wrap of the session id
  (`reverse/udp.rs:80`) and the return channel that drops the newest packet when full
  (`reverse/udp.rs:111`) take 2^64, 2^32 and an overload to meet; no property is about
  them.

## 4. Proofs

Eight modules hold the proofs. Each theorem holds for every value of the constants that
satisfies the named `ASSUME`s of its module, which TLC evaluates on every run.

| Module | Theorems | About |
|---|---|---|
| `Subnetra_proofs` | `TypeCorrect`, `NoReplay`, `ExactWindow`, `NoPoison`, `SessionImplementsLink` | `SubnetraSession`: types, `AtMostOnce`, `WindowExact`, `NeverPoisoned`, the refinement `ImplementsLink` |
| | `EndpointStaysVouched`, `RelayStaysRight`, `SynStaysServed`, `StreamsStayIntact` | `Netstack`: `EndpointVouched`, `RelayedRight`, `SynFindsListener`, `StreamIntact` |
| `ControlPlane_proofs` | `SyncTypeCorrect`, `AlwaysFailClosed`, `AlwaysPairConsistent`, `CacheStaysIntact`, `VersionsForward` | `SnapshotSync`: types, `FailClosed`, `PairConsistent`, `CacheIntact`, `VersionNeverGoesBack` |
| | `SummariesExact`, `ProbesReportOnce` | `ControlChannel`: `SummaryExact`, `ProbeOnce` |
| `Hop_proofs` | `AssociationsStaySound` | `ReverseUdp`: `AssociationsSound` |
| | `OnlyOperatorCredentials`, `LogAlwaysAccounts` | `HopNode` with `AccessLog`: `Admitted`, `LogAccounts` |
| `ReverseTunnel_proofs` | `SessionsStaySound` | `SessionsSound` |
| `IngressLease_proofs` | `LeasesStaySound`, `PortsAreRestored` | `LeasesSound`, `PortRestored` |
| `IngressStreams_proofs` | `DataAlwaysSound`, `ClientsAlwaysTold` | `IngressStreams` with `IngressFlows`: `DataSound`, `ClientsTold` |
| `UdpFrontend_proofs` | `TablesStaySound`, `PolicyPerPacket` | `TableSound`, `PerPacketPolicy` |
| `Connection_proofs` | `CountersBalanced`, `EgressIsDecided`, `IndexFindsFirst` | `Balanced`, `EgressByDecision`, the look-up in `PolicyIndex` |

Every safety property that a passing run checks, invariant or action property, is thereby
a theorem.

All of them have the same shape: an inductive invariant holds initially, one lemma
per action shows that the action keeps it, and the property follows from it (an action
property from it and one step). No property is inductive as it stands; what the
inductive invariant adds is the argument.

**Session.** That a number is refused follows from the bitmap only if the bitmap and
the history agree. `SessionInv` adds `WindowExact`, `NeverPoisoned` and `AboveIsNew`: nothing of
an epoch above the adopted one, and nothing above the top of the window, was accepted.
Lemmas about `Shift` and `Record` carry the arithmetic of the window.

**Sync.** `SyncInv` adds `GateHeld` (a task in a critical step owns the gate), `JobCurrent`
(what it computed is still what it will replace), `Agree` (engine, raw document and book
agree outside a swap) and `DownIsEmpty`. `PairConsistent` and `VersionNeverGoesBack`
follow because whoever computes from the pair owns the gate until it is stored.
`CacheIntact` needs besides that a temporary file about to be renamed was synced
(`RenamesSynced`): then a power loss can only tear a file nobody will rename.

**Control channel.** `ChannelInv` adds that an armed session or probe is that of one
command, already handled (`Armed`), that a session counts what happened to the events it
wanted and has no summary yet (`SessionsCount`), that nothing happened yet to the arm of a
command still waiting (`Untouched`), and that a probe a connection took is armed no more
(`ProbesTaken`). A session re-armed under the same request id, one forgotten by `retain`
and one closed by a cancel or by the sweep leave the table on different paths; each path
either writes the one summary from the counts or writes none. The proof needs no
assumption beyond the bounds of the limits.

**Reverse tunnels.** `SessionsSound` counts three layers of permits, which two tasks of
one tunnel return independently. `IInv` adds `HopOnItsConn` (the hop's loop is on a
connection of its own edge and serves an acknowledged one), `LiveIsListed` (the one
registered connection that lives is the one in the registry, since a replaced one is
closed) and `TunnelOrder` (the hop knows of a tunnel from the request on). The counting
needs finitely many tunnels.

**Reverse UDP.** `IdsUnique` (call *a* has session id *a*), `RoutedToOwner` (an id is
routed to its own open call) and `CarriedTrue` (everything under way or remembered names a
destination its client named and a socket of its own). The theorem has the hypothesis
`MaxAssoc < IdSpace`: the code hands a session id out again after 2^32 calls
(`reverse/udp.rs:80`) without looking whether it is still in use, and from there on the
invariant can fail.

**Hop process.** `Admitted` compares what a client presented with the raw command line and
environment, so it rests on `OperatorCredentials`: a process that came up with a listener
has both halves of its credentials, neither blank, each from one of the two places.
`Served` carries them to the stages behind the check. For `LogAccounts`, `Recorded` counts
the connections that ended with a record as those handed to the appender, in the channel
and dropped; it is kept because a record waits once, for a connection that is over and not
handed over yet (`QueueFresh`, `LoggedOnce`), and because the lines of a tick are of
different rows (`TodoOnce`). `FileInv` follows a record behind the appender: queued once,
and in one place. Assumed are finitely many connections (`LogBounds`), rows of the statistics
with different names, none the name of a connection (`RowsDistinct`: the code keys both by
what they are) and traffic counted in natural numbers (`TrafficCounted`). What the options
of a command line mean is left to the fold of `HopArgs`: the theorem holds for whatever it
returns.

**Ingress leases.** `SessionsAgree` (table and connections agree), `LeasesOwned` (a lease
belongs to a registered connection of its node; the sockets that linger after one do not),
`LinksInOrder`, `ConnectorsInOrder`
(while a connection lives, the relay has what the connector counts as leased) and
`Remembered` (what is reserved for a key is what its last lease left). `PortRestored` is an
action property and follows from `Remembered` and the step that answers a lease request.
The assumptions are what `validate` of both configurations demands.

**Ingress data.** `DataInv` has four parts. `RelayInv`: the two tables of the relay are
inverse to each other, a flow's lease is served or was aborted in this session, and a flow
id is new when it is drawn (`FlowDrawn`). `ConnectorInv`:
what `udp_loop` holds between two locks is still true under the second one (`LoopSound`),
the registry names the client of a flow for the flow's source (`FlowsTold`), and while a
session serves every registration is a flow's, the flow's being opened, or one an earlier
session left (`Owned`). `RegistryInv`, for TCP: a loopback address belongs to one connection
at a time, also when its socket is closed and the listener has not looked it up
(`SourcesOwn`; who shares one with a failed connect that has yet to withdraw its entry is in
`reused`), and an entry announces the connection under way (`Announced`); from the two
follows that a look-up by peer address finds the right client or, after the handler gave
up or for one in `reused`, none (`ServedTold`). `PermitsKept` counts the permits of the
session, with the tasks an aborted lease left. Assumed are finitely many
sources and public connections, at least one session, and that `None` is none of the
records (`NoneApart`).

**UDP frontends.** `TasksSound` (a task only sends over the relay the table has, unless
its association was dissociated meanwhile), `Joined` (whoever tears a table down has joined
the tasks that could fill it again) and `UsedCurrent` (up to the tear-down, an id's packets
went over the relay the table still has). The policy may change between any two steps;
`PerPacketPolicy` holds because a task keeps the decision it read until it has sent.

**Connections.** `TasksOK` says for every stage what a task holds and, through `Follows`,
that some document it has seen decides for the outlets it has left to try; `Counted` that
the counters are the numbers of such tasks. Whichever way a task ends, `End` gives back
what `TasksOK` says it held. `EgressIsDecided` compares with the raw documents, so it
rests on `IndexFindsFirst`: merging the rules of all routes into shared maps never lets a
later route win. That is an induction over the list of routes and over the path of a
host.

**Mesh and stack.** Proved together, since the stack extends the mesh. `MeshInv`: the
node runs a configuration it accepted and the tables have an entry per peer. `StackInv`:
each socket is in a state its role allows, each stream and its socket agree on what was
received, sent and ended, every acknowledged byte was read, is in a buffer or was cut off
with a closed socket (`Counted`, `Cut`), the listener pool is filled between two turns of the driver,
and unless the driver has a kick pending no socket has work it has not been told of. The
longest matching network exists because the peers of a configuration are finitely many.
`SynStaysServed` and `StreamsStayIntact` have the hypothesis `DatagramShape`: what the
underlay delivers to a user-space stack is numbered and its IP packets are TCP segments of
known connections. `StackDatagramsShaped` in `MCOverlay` checks that the instance has it.

**Induction.** The induction theorems of the library take an operator, which the
installed provers cannot instantiate. `LeastNumber` (`Connection_proofs`) and its like in
`Subnetra_proofs` state the same for *sets* of numbers, from the library's `WFMin`; an
induction is then a proof that the set of counterexamples has no least element. What
recursive functions over sequences compute is proved that way.

### Model-checked only

* All liveness properties (`Resync`, `Adopted`, `Restored`, `DataSettles`,
  `Reregistered`, `HopLetsGo`, `Reclaimed`, `Released`, `ChainSettles`, `Drained`,
  `HeldOnlyWhenStuck`, `SessionEnds`, `LogDrains`, `DoctorAnswered`): fairness and `ENABLED` are out of the
  prover's reach.
* The operators that the `ASSUME`s of the MC modules compare, except `PolicyIndex`:
  `FrameCodec`, `AddressBook` and `DomainSources` are recursive or use modules the prover
  cannot reach.

## 5. Not modelled

* Cryptography beyond "opens under the right key and nonce only"; TLS and QUIC
  themselves; smoltcp and the kernel's TUN device.
* The bytes of the address book file (`addrbook/format.rs`: offsets, checksums), the files
  of cloud providers in `addrbook/sources.rs`, and the command lines of `rove-abctl` and of
  the snapshot validator: serialisation and batch programs without state to interleave.
* The fixed-size AUTHENTICATE command of TUIC and fragments of its packets.
* Text normalisation of hosts and selectors, parsing of HTTP heads and of the sniffed
  prefix: the parsed result is an input of `Connection` and `HopNode`.
* `config.rs`: a deserialiser with validation field by field. `health.rs`: one
  classification of five inputs per request, which restating would not test.
* The order in which `main.rs` starts its services; shutdown and drain are in `Connection`.
* `resolver.rs`: a cache in front of the system resolver; no decision depends on it.
* Examples, benchmarks and deployment files.

## 6. Plan

1. A composition of `ControlChannel` with `SnapshotSync`: the sync command and its answer.
2. The configuration of the relay: grants that must not overlap, and what a lease may bind
   under them.

No safety property is left without a proof; a new component comes with its own.
