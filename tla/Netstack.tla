------------------------------ MODULE Netstack ------------------------------
(***************************************************************************)
(* The user-space TCP stack of a mesh node (subnetra/netstack): the driver *)
(* task around smoltcp, the streams it hands to the proxy and the accept   *)
(* loop of a hub (subnetra/service.rs).  It takes its packets from the     *)
(* reactor of SubnetraMesh and gives it the ones it emits.                 *)
(*                                                                         *)
(* A flow is one TCP connection; bytes are counted.  Listening sockets are *)
(* alike, so the pool keeps only how many of them wait in Listen.  The     *)
(* driver takes one event per turn of its loop and pumps before the next.  *)
(***************************************************************************)
EXTENDS SubnetraMesh

CONSTANTS
    Flows,          \* TCP connections with a peer
    Dialled(_),     \* those of them that the node of a configuration may open
    Backlog,        \* LISTEN_BACKLOG
    MaxListen,      \* MAX_LISTEN_SOCKETS
    AcceptDepth,    \* depth of the accept channel
    SockBuf,        \* SOCKET_BUF
    ConnCap,        \* CONN_BUF_CAP
    MaxWritten      \* bound: bytes the proxy writes to a flow

ASSUME NetBounds ==
    /\ {Backlog, MaxListen, AcceptDepth, SockBuf, ConnCap} \subseteq Nat \ {0}
    /\ IsFiniteSet(Flows) /\ \A c \in Configs : Dialled(c) \subseteq Flows

\* A segment of a connection, as an IP packet between overlay addresses.
TcpPacket == [kind : {"ip"}, src : Seq({0, 1}), dst : Seq({0, 1}), flow : Flows,
              seg : {"syn", "synack", "ack", "data", "fin", "rst"}]

VARIABLES
    net,        \* the driver: listening sockets, sockets, shared buffers, streams
    kick,       \* the permit of the driver's Notify
    accepting   \* the accept loop of the hub has not been told to stop

netVars == <<net, kick, accepting>>

Min2(a, b) == IF a <= b THEN a ELSE b

NoSocket == [role |-> "none", st |-> "none", in |-> 0, out |-> 0]
Socket(role, st) == [role |-> role, st |-> st, in |-> 0, out |-> 0]

\* ConnShared::new
NewShared == [rx |-> 0, tx |-> 0, app_shutdown |-> FALSE, net_closed |-> FALSE, aborted |-> FALSE,
              reader |-> "idle", writer |-> "idle"]

Pool(n) == n.spare + Cardinality({f \in Flows : n.sock[f].role = "listener"})

-----------------------------------------------------------------------------
(* smoltcp: a TCP socket                                                   *)

may_send(s) == s.st \in {"Established", "CloseWait"}
may_recv(s) == s.st \in {"Established", "FinWait1", "FinWait2"} \/ s.in > 0
can_send(s) == may_send(s) /\ s.out < SockBuf

close(s) == CASE s.st = "Established" -> [s EXCEPT !.st = "FinWait1"]
              [] s.st = "CloseWait" -> [s EXCEPT !.st = "LastAck"]
              [] OTHER -> s

\* Data that fits the window while the peer may still send.
TakeData(s) ==
    IF s.st \in {"SynReceived", "Established", "FinWait1", "FinWait2"} /\ s.in < SockBuf
    THEN [s EXCEPT !.in = @ + 1, !.st = IF @ = "SynReceived" THEN "Established" ELSE @] ELSE s

TakeFin(s) == CASE s.st \in {"SynReceived", "Established"} -> [s EXCEPT !.st = "CloseWait"]
                [] s.st = "FinWait1" -> [s EXCEPT !.st = "Closing"]
                [] s.st = "FinWait2" -> [s EXCEPT !.st = "TimeWait"]
                [] OTHER -> s

\* The acknowledgement of everything that was sent, the FIN included.
TakeAck(s) == [s EXCEPT !.out = 0,
                        !.st = CASE @ = "SynReceived" -> "Established"
                                 [] @ = "FinWait1" -> "FinWait2"
                                 [] @ = "Closing" -> "TimeWait"
                                 [] @ = "LastAck" -> "Closed"
                                 [] OTHER -> @]

Segment(s, seg) == CASE seg = "data" -> TakeData(s)
                     [] seg = "fin" -> TakeFin(s)
                     [] seg = "ack" -> TakeAck(s)
                     [] seg = "synack" -> IF s.st = "SynSent" THEN [s EXCEPT !.st = "Established"] ELSE s
                     [] seg = "rst" -> [s EXCEPT !.st = "Closed"]
                     [] OTHER -> s

\* Interface::poll with one packet: a SYN takes a listening socket, a reset handshake gives it
\* back, and a segment of no socket is answered with a reset.
poll(n, f, seg) ==
    LET s == n.sock[f] IN
    CASE s = NoSocket /\ seg = "syn" /\ n.spare > 0 /\ n.stream[f] = "none" ->
            [n EXCEPT !.spare = @ - 1, !.sock[f] = Socket("listener", "SynReceived")]
      [] s.st = "SynReceived" /\ seg = "rst" ->
            [n EXCEPT !.spare = @ + 1, !.sock[f] = NoSocket]
      [] s # NoSocket /\ ~(s.st = "SynReceived" /\ seg = "rst") ->
            LET t == Segment(s, seg)
            IN  [n EXCEPT !.sock[f] = t,
                          !.got[f] = @ + (t.in - s.in),
                          !.ended[f] = IF t.st # "Closed" THEN @ ELSE IF seg = "rst" THEN "reset" ELSE "last_ack"]
      [] OTHER -> n

-----------------------------------------------------------------------------
(* The service pass of the driver                                          *)

\* A listening socket that completed its handshake becomes a connection; without room in the
\* accept channel it is aborted (its handle stays in the set, closed, and matches nothing).
promote_listeners(n, f) ==
    CASE n.sock[f].role # "listener" \/ n.sock[f].st = "SynReceived" -> n
      [] n.sock[f].role = "listener" /\ n.sock[f].st = "Closed" -> [n EXCEPT !.sock[f] = NoSocket]
      [] OTHER -> IF accepting /\ Len(n.accepts) < AcceptDepth
                  THEN [n EXCEPT !.sock[f].role = "conn", !.shared[f] = NewShared,
                                 !.stream[f] = "queued", !.accepts = Append(@, f)]
                  ELSE [n EXCEPT !.sock[f] = NoSocket, !.got[f] = 0]

\* Faulty: the pool is replenished by the handshakes that complete and by nothing else.
topUpOnPromotion(n) ==
    IF \E f \in Flows : n.sock[f].role = "listener" /\ n.spare = 0 THEN n
    ELSE [n EXCEPT !.spare = IF cfg.mode = "hub" /\ @ < Backlog THEN @ + 1 ELSE @]

\* Sockets are added until Backlog of them listen or the whole pool is at its cap.
top_up_listeners(n) ==
    LET missing == Min2(Backlog - n.spare, MaxListen - Pool(n))
    IN  IF cfg.mode = "hub" /\ missing > 0 THEN [n EXCEPT !.spare = @ + missing] ELSE n

\* A connect whose handshake ended is answered; a stream nobody waits for any more is dropped.
resolve_connects(n, f) ==
    CASE n.sock[f].role = "connect" /\ n.sock[f].st = "Established" ->
            [n EXCEPT !.sock[f].role = "conn",
                      !.shared[f] = [NewShared EXCEPT !.app_shutdown = (n.stream[f] = "given_up")],
                      !.stream[f] = IF @ = "given_up" THEN "dropped" ELSE "open"]
      [] n.sock[f].role = "connect" /\ n.sock[f].st = "Closed" ->
            [n EXCEPT !.sock[f] = NoSocket, !.stream[f] = "refused"]
      [] OTHER -> n

\* Faulty: a connection in TIME_WAIT is over even with bytes left in its socket.
overEarly(s) == s.st \in {"Closed", "TimeWait"}

\* The connection is reaped after this pass.
over(s) == s.st = "Closed" \/ (s.st = "TimeWait" /\ s.in = 0)

\* What one pass does to one connection: bytes in, bytes out, our FIN, their FIN, the end.
ServeConn(s, g) ==
    LET moved  == Min2(s.in, ConnCap - g.rx)
        pushed == IF can_send(s) THEN Min2(g.tx, SockBuf - s.out) ELSE 0
        s1     == [s EXCEPT !.in = @ - moved, !.out = @ + pushed]
        s2     == IF g.app_shutdown /\ g.tx = pushed /\ may_send(s1) THEN close(s1) ELSE s1
        eof    == ~may_recv(s2) /\ ~g.net_closed
    IN  [sock   |-> IF over(s2) THEN NoSocket ELSE s2,
         shared |-> [g EXCEPT !.rx = @ + moved, !.tx = @ - pushed,
                              !.net_closed = @ \/ eof \/ over(s2),
                              !.reader = IF moved > 0 \/ eof \/ over(s2) THEN "idle" ELSE @,
                              !.writer = IF pushed > 0 \/ over(s2) THEN "idle" ELSE @]]

service_conns(n) ==
    LET conns == {f \in Flows : n.sock[f].role = "conn"}
        after == [f \in conns |-> ServeConn(n.sock[f], n.shared[f])]
    IN  [n EXCEPT !.sock = [f \in Flows |-> IF f \in conns THEN after[f].sock ELSE @[f]],
                  !.shared = [f \in Flows |-> IF f \in conns THEN after[f].shared ELSE @[f]]]

\* service: one pass reaches the fixpoint of pump, since a turn changes the state of one socket.
service(n, f) == service_conns(resolve_connects(top_up_listeners(promote_listeners(n, f)), f))

\* pump: the segments smoltcp emits go to the reactor, or are lost when its queue is full.
Pump(n, f) ==
    /\ net' = service(n, f)
    /\ toMesh' = IF net'.sock # net.sock
                 THEN Send(toMesh, [kind |-> "ip", src |-> cfg.overlay_ip, dst |-> Allowed(cfg.peers[1].id)])
                 ELSE toMesh

-----------------------------------------------------------------------------
(* The turns of the driver's loop                                          *)

Stack == plane = "up" /\ cfg.device = "netstack"

DriverPacket ==
    /\ Stack /\ toLocal # <<>>
    /\ toLocal' = Tail(toLocal)
    /\ Pump(poll(net, Head(toLocal).flow, Head(toLocal).seg), Head(toLocal).flow)
    /\ UNCHANGED <<cfg, endpoint, taken, sent, vouched, plane, kick, accepting>>

\* NetHandle::connect and the command it sends: a socket on the next ephemeral port.
DriverConnect(f) ==
    /\ Stack /\ net.stream[f] = "none" /\ net.sock[f] = NoSocket
    /\ Pump([net EXCEPT !.sock[f] = Socket("connect", "SynSent"), !.stream[f] = "dialing"], f)
    /\ UNCHANGED <<cfg, endpoint, taken, toLocal, sent, vouched, plane, kick, accepting>>

DriverNotified ==
    /\ Stack /\ kick
    /\ kick' = FALSE
    /\ \E f \in Flows : Pump(net, f)
    /\ UNCHANGED <<cfg, endpoint, taken, toLocal, sent, vouched, plane, accepting>>

\* The timer of a socket in TIME_WAIT.
DriverTimer(f) ==
    /\ Stack /\ net.sock[f].st = "TimeWait"
    /\ Pump([net EXCEPT !.sock[f].st = "Closed", !.ended[f] = "expired"], f)
    /\ UNCHANGED <<cfg, endpoint, taken, toLocal, sent, vouched, plane, kick, accepting>>

-----------------------------------------------------------------------------
(* The proxy's side: the accept loop and the streams                       *)

Proxy(n, notified) ==
    /\ Stack
    /\ net' = n /\ kick' = (kick \/ notified)
    /\ UNCHANGED <<meshVars, accepting>>

Accept ==
    /\ net.accepts # <<>>
    /\ Proxy([net EXCEPT !.accepts = Tail(@), !.stream[Head(net.accepts)] = "open"], FALSE)

\* Shutdown: the channel is closed, and what was accepted before is still served.
StopAccepting ==
    /\ Stack /\ accepting /\ cfg.mode = "hub"
    /\ accepting' = FALSE
    /\ net' = [net EXCEPT !.accepts = <<>>,
                          !.stream = [f \in Flows |-> IF @[f] = "queued" THEN "open" ELSE @[f]]]
    /\ UNCHANGED <<meshVars, kick>>

\* The dialler's future is dropped while the handshake runs.
GiveUp(f) == net.stream[f] = "dialing" /\ Proxy([net EXCEPT !.stream[f] = "given_up"], FALSE)

Open(f) == net.stream[f] = "open"

poll_read(f) ==
    LET g == net.shared[f] IN
    /\ Open(f) /\ g.reader = "idle" /\ ~net.eof[f]
    /\ \/ g.rx > 0 /\ Proxy([net EXCEPT !.shared[f].rx = @ - 1, !.read[f] = @ + 1], TRUE)
       \/ g.rx = 0 /\ ~g.aborted /\ g.net_closed /\ Proxy([net EXCEPT !.eof[f] = TRUE], FALSE)
       \/ g.rx = 0 /\ ~g.aborted /\ ~g.net_closed /\ Proxy([net EXCEPT !.shared[f].reader = "asleep"], TRUE)

poll_write(f) ==
    LET g == net.shared[f] IN
    /\ Open(f) /\ g.writer = "idle" /\ ~g.aborted /\ ~g.app_shutdown /\ net.wrote[f] < MaxWritten
    /\ IF g.tx < ConnCap
       THEN Proxy([net EXCEPT !.shared[f].tx = @ + 1, !.wrote[f] = @ + 1], TRUE)
       ELSE Proxy([net EXCEPT !.shared[f].writer = "asleep"], TRUE)

\* poll_flush, and poll_shutdown while bytes are unsent: they wait for the buffer to drain.
poll_flush(f) ==
    LET g == net.shared[f] IN
    /\ Open(f) /\ g.writer = "idle" /\ ~g.aborted /\ g.tx > 0
    /\ Proxy([net EXCEPT !.shared[f].writer = "asleep"], TRUE)

poll_shutdown(f) ==
    LET g == net.shared[f] IN
    /\ Open(f) /\ g.writer = "idle" /\ ~g.app_shutdown /\ (g.aborted \/ g.tx = 0)
    /\ Proxy([net EXCEPT !.shared[f].app_shutdown = TRUE], TRUE)

\* impl Drop for SubnetraStream
DropStream(f) ==
    /\ Open(f)
    /\ Proxy([net EXCEPT !.stream[f] = "dropped", !.shared[f].app_shutdown = TRUE], TRUE)

-----------------------------------------------------------------------------

Init ==
    /\ MeshInit
    /\ net = [spare |-> IF cfg.device = "netstack" /\ cfg.mode = "hub" THEN Backlog ELSE 0,
              accepts |-> <<>>,
              sock |-> [f \in Flows |-> NoSocket],
              shared |-> [f \in Flows |-> NewShared],
              stream |-> [f \in Flows |-> "none"],
              got |-> [f \in Flows |-> 0], read |-> [f \in Flows |-> 0], wrote |-> [f \in Flows |-> 0],
              eof |-> [f \in Flows |-> FALSE], ended |-> [f \in Flows |-> "none"]]
    /\ kick = FALSE
    /\ accepting = TRUE

Streams ==
    \E f \in Flows : \/ GiveUp(f) \/ poll_read(f) \/ poll_write(f) \/ poll_flush(f)
                     \/ poll_shutdown(f) \/ DropStream(f)

Next ==
    \/ MeshNext /\ UNCHANGED netVars
    \/ DriverPacket \/ DriverNotified
    \/ \E f \in Dialled(cfg) : DriverConnect(f)
    \/ \E f \in Flows : DriverTimer(f)
    \/ Accept \/ StopAccepting \/ Streams

Spec == Init /\ [][Next]_<<meshVars, netVars>>

-----------------------------------------------------------------------------
(* Properties                                                              *)

\* Between two turns of the driver the next SYN finds a listening socket, unless handshakes
\* fill the pool to MAX_LISTEN_SOCKETS (the promise on top_up_listeners).
SynFindsListener ==
    cfg.device = "netstack" /\ cfg.mode = "hub" /\ net.spare = 0 =>
        Cardinality({f \in Flows : net.sock[f].st = "SynReceived"}) >= MaxListen

\* The stream lost the end of what was acknowledged: its socket closed (a reset, the last
\* acknowledgement of an orderly close, or the end of TIME_WAIT) behind a full read buffer, and
\* service_conns removed it with what it still held, SOCKET_BUF at most.
CutShort(f) ==
    /\ net.ended[f] # "none" /\ net.read[f] >= ConnCap
    /\ net.got[f] - net.read[f] \in 1 .. SockBuf

\* The socket of the stream is gone.  Nothing sets aborted, by which reads and writes should
\* fail then: what is written fills tx, and who waits for room there is woken by nobody.
Abandoned(f) == net.sock[f] = NoSocket /\ net.shared[f].net_closed

\* What a stream keeps of what was acknowledged to the peer, and whom it lets sleep.  End of
\* file comes after every acknowledged byte, unless the stream is cut short: an eviction in
\* TIME_WAIT loses nothing, and nor does any end of a stream that brought no more than
\* CONN_BUF_CAP.  A reader sleeps with nothing to read.  A writer sleeps with bytes a socket
\* cannot take, or abandoned.  Otherwise the driver has been notified.
StreamIntact ==
    \A f \in Flows :
        LET g == net.shared[f] s == net.sock[f] IN
        /\ net.eof[f] => net.read[f] = net.got[f] \/ CutShort(f)
        /\ g.reader = "asleep" /\ ~kick => g.rx = 0 /\ ~g.net_closed /\ s.in = 0
        /\ g.writer = "asleep" /\ ~kick =>
              g.tx > 0 /\ (IF s.role = "conn" THEN ~can_send(s) ELSE Abandoned(f))
=============================================================================
