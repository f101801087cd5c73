--------------------------- MODULE Subnetra_proofs ----------------------------
(***************************************************************************)
(* Proofs about the overlay: one Subnetra link, for every window width,    *)
(* epoch and counter range and payload set; and a node of the mesh, its    *)
(* peer table and reactor and the user-space stack above them, for every   *)
(* set of configurations, peers and connections and every depth of the     *)
(* queues and buffers.                                                     *)
(***************************************************************************)
EXTENDS SubnetraSession, Netstack, FiniteSetTheorems, WellFoundedInduction,
        TLAPS

-------------------------------------------------------------------------------
(* One link *)

\* Nothing above the current epoch, and nothing above the top of the window in
\* the current epoch, has been accepted.
AboveIsNew ==
    \A id \in Epoch \X Seq1 :
        \/ id[1] > rx.cur_epoch
        \/ id[1] = rx.cur_epoch /\ id[2] > rx.replay.highest
        => delivered[id] = 0

\* The inductive invariant: AtMostOnce needs the exact window, and the exact
\* window needs to know that nothing above it was accepted.
SessionInv == TypeOK /\ AboveIsNew /\ WindowExact /\ AtMostOnce /\ NeverPoisoned

\* Recording a fresh number keeps a window a window, with that number inside.
LEMMA RecordType ==
    ASSUME NEW w \in ReplayWindow, NEW s \in Nat, IsFresh(w, s)
    PROVE  /\ Record(w, s) \in ReplayWindow
           /\ Record(w, s).highest = IF s > w.highest THEN s ELSE w.highest
  BY WindowAssumption DEF IsFresh, Record, ReplayWindow, Shift, Bits

\* Membership in the numbers a window remembers is a test of one bit.
LEMMA RememberedBit ==
    ASSUME NEW w \in ReplayWindow, NEW t \in Nat
    PROVE  t \in Remembered(w) <=> w.highest - t \in w.bitmap
  BY WindowAssumption DEF Remembered, ReplayWindow, Bits

\* After Record, the remembered numbers inside the new window are the ones
\* remembered before and the new one.
LEMMA RecordRemembers ==
    ASSUME NEW w \in ReplayWindow, NEW s \in Nat, IsFresh(w, s), NEW t \in Nat,
           t <= Record(w, s).highest, Record(w, s).highest - t < WINDOW
    PROVE  Record(w, s).highest - t \in Record(w, s).bitmap
             <=> (t = s \/ (t <= w.highest /\ w.highest - t \in w.bitmap))
  <1>1. CASE s > w.highest
    BY <1>1, WindowAssumption DEF Record, ReplayWindow, Shift, Bits
  <1>2. CASE ~(s > w.highest)
    BY <1>2, WindowAssumption DEF Record, ReplayWindow, Shift, Bits
  <1>3. QED BY <1>1, <1>2

\* What an accepted datagram tells: header and body name the same identity,
\* and the identity was new.
LEMMA AcceptFacts ==
    ASSUME SessionInv, NEW header \in Header, NEW body \in wire, AcceptDatagram(header, body)
    PROVE  /\ header.epoch \in Epoch
           /\ header.seq \in Seq1
           /\ body \in sealed
           /\ body.epoch = header.epoch
           /\ body.seq = header.seq
           /\ header.epoch >= rx.cur_epoch
           /\ WindowFor(header) \in ReplayWindow
           /\ delivered[<<header.epoch, header.seq>>] = 0
  <1> DEFINE e == header.epoch
             s == header.seq
  <1>1. /\ e \in Epoch /\ s \in Seq1
        /\ body \in sealed /\ body.epoch = e /\ body.seq = s
        /\ e >= rx.cur_epoch
    BY DEF SessionInv, TypeOK, AcceptDatagram, Authenticates, Opens, Body
  <1>2. EmptyWindow \in ReplayWindow
    BY WindowAssumption DEF EmptyWindow, ReplayWindow
  <1>3. rx.replay \in ReplayWindow /\ rx.cur_epoch \in Nat
    BY SessionAssumption DEF SessionInv, TypeOK
  <1>4. WindowFor(header) \in ReplayWindow
    BY <1>2, <1>3 DEF WindowFor
  <1>5. delivered[<<e, s>>] = 0
    <2>1. <<e, s>> \in Epoch \X Seq1 /\ <<e, s>>[1] = e /\ <<e, s>>[2] = s
      BY <1>1
    <2>2. CASE e > rx.cur_epoch
      BY <2>1, <2>2 DEF SessionInv, AboveIsNew
    <2>3. CASE e = rx.cur_epoch /\ s > rx.replay.highest
      BY <2>1, <2>3 DEF SessionInv, AboveIsNew
    <2>4. CASE e = rx.cur_epoch /\ ~(s > rx.replay.highest)
      <3>1. WindowFor(header) = rx.replay
        BY <2>4, <1>3, SessionAssumption DEF WindowFor, Epoch
      <3>2. /\ rx.replay.highest - s < WINDOW
            /\ rx.replay.highest - s \notin rx.replay.bitmap
        BY <3>1, <2>4 DEF AcceptDatagram, IsFresh
      <3>3. s \notin Remembered(rx.replay)
        BY <3>2, <1>1, <1>3, RememberedBit, SessionAssumption DEF Seq1
      <3>4. ~(delivered[<<e, s>>] > 0)
        BY <3>2, <3>3, <2>4, <1>1, <1>3, SessionAssumption
           DEF SessionInv, WindowExact, Epoch, Seq1, ReplayWindow
      <3>5. delivered[<<e, s>>] \in Nat
        BY <2>1 DEF SessionInv, TypeOK
      <3>6. QED BY <3>4, <3>5
    <2>5. QED BY <2>2, <2>3, <2>4, <1>1, <1>3 DEF Epoch
  <1>6. QED BY <1>1, <1>4, <1>5

\* Accepting a datagram preserves the inductive invariant.
LEMMA AcceptInv ==
    ASSUME SessionInv, NEW header \in Header, NEW body \in wire, AcceptDatagram(header, body),
           UNCHANGED <<tx, sealed, wire>>
    PROVE  SessionInv'
  <1> DEFINE e == header.epoch
             s == header.seq
             w == WindowFor(header)
             n == Record(w, s)
  <1>0. /\ e \in Epoch /\ s \in Seq1 /\ body \in sealed /\ body.epoch = e
        /\ body.seq = s /\ e >= rx.cur_epoch /\ w \in ReplayWindow
        /\ delivered[<<e, s>>] = 0
    BY AcceptFacts
  <1>1. /\ rx' = [cur_epoch |-> e, replay |-> n]
        /\ IsFresh(w, s)
        /\ delivered' = [delivered EXCEPT ![<<e, s>>] = @ + 1]
    BY DEF AcceptDatagram
  <1>2. /\ n \in ReplayWindow
        /\ n.highest = IF s > w.highest THEN s ELSE w.highest
    BY <1>0, <1>1, RecordType, SessionAssumption DEF Seq1
  <1>3. delivered \in [Epoch \X Seq1 -> Nat]
    BY DEF SessionInv, TypeOK
  <1>4. \A id \in Epoch \X Seq1 :
            delivered'[id] = IF id = <<e, s>> THEN 1 ELSE delivered[id]
    BY <1>0, <1>1, <1>3
  <1>5. /\ rx.cur_epoch \in Nat /\ rx.replay \in ReplayWindow
        /\ s \in Nat /\ w.highest \in Nat /\ n.highest \in Nat /\ e \in Nat
    BY <1>0, <1>2, SessionAssumption DEF SessionInv, TypeOK, Epoch, Seq1, ReplayWindow
  <1>6. w = IF e > rx.cur_epoch THEN EmptyWindow ELSE rx.replay
    BY DEF WindowFor
  <1>7. \A t \in Seq1 : delivered[<<e, t>>] > 0 => t <= w.highest
    <2> TAKE t \in Seq1
    <2>1. /\ <<e, t>> \in Epoch \X Seq1 /\ <<e, t>>[1] = e /\ <<e, t>>[2] = t
          /\ t \in Nat
      BY <1>0, SessionAssumption DEF Seq1
    <2>2. CASE e > rx.cur_epoch
      BY <2>1, <2>2 DEF SessionInv, AboveIsNew
    <2>3. CASE ~(e > rx.cur_epoch)
      <3>1. e = rx.cur_epoch /\ w = rx.replay
        BY <2>3, <1>0, <1>5, <1>6
      <3>2. t > rx.replay.highest => delivered[<<e, t>>] = 0
        BY <3>1, <2>1 DEF SessionInv, AboveIsNew
      <3>3. QED BY <3>1, <3>2, <2>1, <1>5
    <2>4. QED BY <2>2, <2>3
  <1>8. \A t \in Seq1 : t <= w.highest /\ w.highest - t < WINDOW
            => (w.highest - t \in w.bitmap <=> delivered[<<e, t>>] > 0)
    <2>1. CASE e > rx.cur_epoch
      BY <2>1, <1>6, SessionAssumption DEF EmptyWindow, Seq1
    <2>2. CASE ~(e > rx.cur_epoch)
      <3>1. e = rx.cur_epoch /\ w = rx.replay
        BY <2>2, <1>0, <1>5, <1>6
      <3> SUFFICES ASSUME NEW t \in Seq1, t <= w.highest, w.highest - t < WINDOW
                   PROVE  w.highest - t \in w.bitmap <=> delivered[<<e, t>>] > 0
        OBVIOUS
      <3>2. t \in Nat /\ rx.cur_epoch # 0
        BY <3>1, <1>0, SessionAssumption DEF Seq1, Epoch
      <3>3. t \in Remembered(w) <=> w.highest - t \in w.bitmap
        BY <3>2, <1>0, RememberedBit
      <3>4. t \in Remembered(w) <=> delivered[<<e, t>>] > 0
        BY <3>1, <3>2 DEF SessionInv, WindowExact
      <3>5. QED BY <3>3, <3>4
    <2>3. QED BY <2>1, <2>2
  <1>a. TypeOK'
    <2>1. rx' \in [cur_epoch : 0 .. MaxEpoch, replay : ReplayWindow]
      BY <1>0, <1>1, <1>2, SessionAssumption DEF Epoch
    <2>2. delivered' \in [Epoch \X Seq1 -> Nat]
      BY <1>0, <1>1, <1>3
    <2>3. QED BY <2>1, <2>2 DEF SessionInv, TypeOK
  <1>b. AboveIsNew'
    <2> SUFFICES ASSUME NEW id \in Epoch \X Seq1,
                        \/ id[1] > e
                        \/ id[1] = e /\ id[2] > n.highest
                 PROVE  delivered'[id] = 0
      BY <1>1 DEF AboveIsNew
    <2>1. id[1] \in Nat /\ id[2] \in Seq1 /\ id[2] \in Nat /\ id = <<id[1], id[2]>>
      BY SessionAssumption DEF Epoch, Seq1
    <2>2. id # <<e, s>>
      BY <2>1, <1>2, <1>5
    <2>3. delivered'[id] = delivered[id]
      BY <2>2, <1>4
    <2>4. CASE id[1] > e
      <3>1. id[1] > rx.cur_epoch
        BY <2>4, <2>1, <1>0, <1>5
      <3>2. QED BY <3>1, <2>3 DEF SessionInv, AboveIsNew
    <2>5. CASE id[1] = e /\ id[2] > n.highest
      <3>1. ~(id[2] <= w.highest)
        BY <2>5, <2>1, <1>2, <1>5
      <3>2. ~(delivered[<<e, id[2]>>] > 0)
        BY <3>1, <2>1, <1>7
      <3>3. delivered[id] \in Nat /\ id = <<e, id[2]>>
        BY <1>3, <2>1, <2>5
      <3>4. QED BY <3>2, <3>3, <2>3
    <2>6. QED BY <2>4, <2>5
  <1>c. WindowExact'
    <2> SUFFICES ASSUME NEW t \in Seq1, t <= n.highest, n.highest - t < WINDOW
                 PROVE  t \in Remembered(n) <=> delivered'[<<e, t>>] > 0
      BY <1>1 DEF WindowExact
    <2>1. t \in Nat /\ <<e, t>> \in Epoch \X Seq1
      BY <1>0, SessionAssumption DEF Seq1
    <2>2. t \in Remembered(n) <=> n.highest - t \in n.bitmap
      BY <2>1, <1>2, RememberedBit
    <2>3. n.highest - t \in n.bitmap
            <=> (t = s \/ (t <= w.highest /\ w.highest - t \in w.bitmap))
      BY <2>1, <1>0, <1>1, <1>5, RecordRemembers
    <2>4. t <= w.highest => w.highest - t < WINDOW
      BY <2>1, <1>2, <1>5, WindowAssumption
    <2>5. (t <= w.highest /\ w.highest - t \in w.bitmap) <=> delivered[<<e, t>>] > 0
      BY <2>4, <1>7, <1>8
    <2>6. delivered'[<<e, t>>] = IF t = s THEN 1 ELSE delivered[<<e, t>>]
      BY <2>1, <1>4
    <2>7. QED BY <2>2, <2>3, <2>5, <2>6
  <1>d. AtMostOnce'
    <2>1. DOMAIN delivered' = Epoch \X Seq1 /\ DOMAIN delivered = Epoch \X Seq1
      BY <1>1, <1>3
    <2>2. QED BY <2>1, <1>4 DEF SessionInv, AtMostOnce
  <1>e. NeverPoisoned'
    <2>1. CASE s > w.highest
      <3>1. n.highest = s
        BY <2>1, <1>2
      <3>2. body \in sealed' /\ body.epoch = rx'.cur_epoch /\ body.seq = rx'.replay.highest
        BY <3>1, <1>0, <1>1
      <3>3. QED BY <3>2 DEF NeverPoisoned
    <2>2. CASE ~(s > w.highest)
      <3>1. w # EmptyWindow
        BY <2>2, <1>0, SessionAssumption DEF EmptyWindow, Seq1
      <3>2. e = rx.cur_epoch /\ w = rx.replay /\ e # 0
        BY <3>1, <1>0, <1>5, <1>6, SessionAssumption DEF Epoch
      <3>3. PICK b \in sealed : b.epoch = rx.cur_epoch /\ b.seq = rx.replay.highest
        BY <3>2 DEF SessionInv, NeverPoisoned
      <3>4. rx'.replay.highest = rx.replay.highest /\ rx'.cur_epoch = e
        BY <2>2, <1>1, <1>2, <3>2
      <3>5. b \in sealed' /\ b.epoch = rx'.cur_epoch /\ b.seq = rx'.replay.highest
        BY <3>2, <3>3, <3>4
      <3>6. QED BY <3>5 DEF NeverPoisoned
    <2>3. QED BY <2>1, <2>2
  <1>f. QED BY <1>a, <1>b, <1>c, <1>d, <1>e DEF SessionInv

LEMMA InitInv == SessionInit => SessionInv
  <1> SUFFICES ASSUME SessionInit PROVE SessionInv
    OBVIOUS
  <1>1. TypeOK
    BY WindowAssumption, SessionAssumption
       DEF SessionInit, TypeOK, NewTx, NewRx, EmptyWindow, ReplayWindow, Bits, Epoch,
           Seq1, NothingDelivered, Body
  <1>2. AboveIsNew /\ AtMostOnce
    BY DEF SessionInit, AboveIsNew, AtMostOnce, NothingDelivered
  <1>3. WindowExact /\ NeverPoisoned
    BY DEF SessionInit, NewRx, WindowExact, NeverPoisoned
  <1>4. QED BY <1>1, <1>2, <1>3 DEF SessionInv

\* A step that leaves the receiver alone and only adds sealed bodies.
LEMMA SenderInv ==
    ASSUME SessionInv, TypeOK', sealed \subseteq sealed', UNCHANGED <<rx, delivered>>
    PROVE  SessionInv'
  <1>1. AboveIsNew' /\ AtMostOnce'
    BY DEF SessionInv, AboveIsNew, AtMostOnce
  <1>2. WindowExact'
    BY DEF SessionInv, WindowExact
  <1>3. NeverPoisoned'
    BY DEF SessionInv, NeverPoisoned
  <1>4. QED BY <1>1, <1>2, <1>3 DEF SessionInv

LEMMA NextInv == SessionInv /\ [SessionNext]_sessionVars => SessionInv'
  <1> SUFFICES ASSUME SessionInv, [SessionNext]_sessionVars PROVE SessionInv'
    OBVIOUS
  <1>1. ASSUME NEW pay \in Payload, Seal(pay) PROVE SessionInv'
    <2>1. tx.next_seq \in Seq1 /\ tx.epoch \in Epoch
      BY DEF SessionInv, TypeOK
    <2>2. SaturatingSucc(tx.next_seq) \in Seq1
      BY <2>1, SessionAssumption DEF SaturatingSucc, Seq1
    <2>3. TypeOK'
      BY <1>1, <2>1, <2>2 DEF SessionInv, TypeOK, Seal, Body
    <2>4. sealed \subseteq sealed' /\ UNCHANGED <<rx, delivered>>
      BY <1>1 DEF Seal
    <2>5. QED BY <2>3, <2>4, SenderInv
  <1>2. ASSUME RestartTx PROVE SessionInv'
    <2>1. TypeOK'
      BY <1>2, SessionAssumption DEF SessionInv, TypeOK, RestartTx, NewTx, Epoch, Seq1
    <2>2. sealed \subseteq sealed' /\ UNCHANGED <<rx, delivered>>
      BY <1>2 DEF RestartTx
    <2>3. QED BY <2>1, <2>2, SenderInv
  <1>3. ASSUME NEW body \in wire, NEW header \in Header, Receive(header, body)
        PROVE  SessionInv'
    <2>1. CASE AcceptDatagram(header, body)
      BY <2>1, <1>3, AcceptInv DEF Receive
    <2>2. CASE Drop(header, body)
      <3>1. UNCHANGED <<tx, sealed, wire, rx, delivered>>
        BY <2>2, <1>3 DEF Receive, Drop
      <3>2. TypeOK'
        BY <3>1 DEF SessionInv, TypeOK
      <3>3. QED BY <3>1, <3>2, SenderInv
    <2>3. QED BY <2>1, <2>2, <1>3 DEF Receive
  <1>4. ASSUME NEW body \in wire, Lose(body) PROVE SessionInv'
    <2>1. TypeOK'
      BY <1>4 DEF SessionInv, TypeOK, Lose
    <2>2. sealed \subseteq sealed' /\ UNCHANGED <<rx, delivered>>
      BY <1>4 DEF Lose
    <2>3. QED BY <2>1, <2>2, SenderInv
  <1>5. ASSUME RestartRx PROVE SessionInv'
    <2>1. TypeOK'
      BY <1>5, WindowAssumption, SessionAssumption
         DEF SessionInv, TypeOK, RestartRx, NewRx, EmptyWindow, ReplayWindow,
             NothingDelivered
    <2>2. AboveIsNew' /\ AtMostOnce'
      BY <1>5 DEF RestartRx, AboveIsNew, AtMostOnce, NothingDelivered
    <2>3. WindowExact' /\ NeverPoisoned'
      BY <1>5 DEF RestartRx, NewRx, WindowExact, NeverPoisoned
    <2>4. QED BY <2>1, <2>2, <2>3 DEF SessionInv
  <1>6. CASE UNCHANGED sessionVars
    <2>1. TypeOK' /\ sealed \subseteq sealed' /\ UNCHANGED <<rx, delivered>>
      BY <1>6 DEF sessionVars, SessionInv, TypeOK
    <2>2. QED BY <2>1, SenderInv
  <1>7. QED BY <1>1, <1>2, <1>3, <1>4, <1>5, <1>6 DEF SessionNext

\* The inductive invariant holds in every reachable state of a link.
LEMMA InvHolds == SessionSpec => []SessionInv
  BY InitInv, NextInv, PTL DEF SessionSpec

\* Type correctness of the link: in particular the sequence counter never
\* leaves 1 .. MaxSeq and every body in the network was sealed by the peer.
THEOREM TypeCorrect == SessionSpec => []TypeOK
  <1>1. SessionInv => TypeOK
    BY DEF SessionInv
  <1>2. QED BY <1>1, InvHolds, PTL

\* RxSession::accept never accepts one (epoch, seq) twice in the life of a
\* receiver, for any window width and any behaviour of the network.
THEOREM NoReplay == SessionSpec => []AtMostOnce
  <1>1. SessionInv => AtMostOnce
    BY DEF SessionInv
  <1>2. QED BY <1>1, InvHolds, PTL

\* The replay bitmap is exact inside the window.
THEOREM ExactWindow == SessionSpec => []WindowExact
  <1>1. SessionInv => WindowExact
    BY DEF SessionInv
  <1>2. QED BY <1>1, InvHolds, PTL

\* No datagram that fails authentication ever moves the receive state.
THEOREM NoPoison == SessionSpec => []NeverPoisoned
  <1>1. SessionInv => NeverPoisoned
    BY DEF SessionInv
  <1>2. QED BY <1>1, InvHolds, PTL

-------------------------------------------------------------------------------
(* The session implements the abstract link. *)

LEMMA LinkInitImpl == SessionInit => Link!LinkInit
  BY DEF SessionInit, Link!LinkInit, Link!Id, NewRx, NothingDelivered, Epoch, Seq1

LEMMA LinkStep == SessionInv /\ [SessionNext]_sessionVars => [Link!LinkNext]_(Link!linkVars)
  <1> DEFINE numbers == {<<b.epoch, b.seq>> : b \in sealed}
  <1> SUFFICES ASSUME SessionInv, [SessionNext]_sessionVars
               PROVE  Link!LinkNext \/ UNCHANGED Link!linkVars
    OBVIOUS
  <1>0. Link!Id = Epoch \X Seq1
    BY DEF Link!Id, Epoch, Seq1
  <1>1. ASSUME NEW pay \in Payload, Seal(pay) PROVE Link!LinkNext
    <2>1. PICK id \in Link!Id : id = <<tx.epoch, tx.next_seq>>
      BY <1>0 DEF SessionInv, TypeOK
    <2>2. numbers' = numbers \cup {id}
      <3> DEFINE body == [epoch |-> tx.epoch, seq |-> tx.next_seq, pay |-> pay]
      <3>1. sealed' = sealed \cup {body}
        BY <1>1 DEF Seal
      <3>2. body.epoch = tx.epoch /\ body.seq = tx.next_seq
        OBVIOUS
      <3> HIDE DEF body
      <3>3. QED BY <3>1, <3>2, <2>1
    <2>3. Link!Send(id)
      BY <2>2, <1>1 DEF Seal, Link!Send
    <2>4. QED BY <2>3 DEF Link!LinkNext
  <1>2. ASSUME RestartTx PROVE UNCHANGED Link!linkVars
    BY <1>2 DEF RestartTx, Link!linkVars
  <1>3. ASSUME NEW body \in wire, NEW header \in Header, Receive(header, body)
        PROVE  Link!LinkNext \/ UNCHANGED Link!linkVars
    <2>1. CASE AcceptDatagram(header, body)
      <3> DEFINE id == <<header.epoch, header.seq>>
      <3>1. /\ header.epoch \in Epoch /\ header.seq \in Seq1 /\ body \in sealed
            /\ body.epoch = header.epoch /\ body.seq = header.seq
            /\ header.epoch >= rx.cur_epoch /\ delivered[id] = 0
        BY <2>1, AcceptFacts
      <3>2. id \in Link!Id /\ id \in numbers /\ id[1] = header.epoch
        BY <3>1, <1>0
      <3>3. delivered' = [delivered EXCEPT ![id] = 1]
        BY <2>1, <3>1 DEF AcceptDatagram
      <3>4. rx'.cur_epoch = header.epoch
        BY <2>1 DEF AcceptDatagram
      <3>5. numbers' = numbers
        BY <1>3 DEF Receive
      <3>6. Link!Deliver(id)
        BY <3>1, <3>2, <3>3, <3>4, <3>5 DEF Link!Deliver
      <3>7. QED BY <3>2, <3>6 DEF Link!LinkNext
    <2>2. CASE Drop(header, body)
      BY <2>2, <1>3 DEF Receive, Drop, Link!linkVars
    <2>3. QED BY <2>1, <2>2, <1>3 DEF Receive
  <1>4. ASSUME NEW body \in wire, Lose(body) PROVE UNCHANGED Link!linkVars
    BY <1>4 DEF Lose, Link!linkVars
  <1>5. ASSUME RestartRx PROVE Link!LinkNext
    <2>1. Link!Forget
      BY <1>5, <1>0 DEF RestartRx, NewRx, NothingDelivered, Link!Forget
    <2>2. QED BY <2>1 DEF Link!LinkNext
  <1>6. CASE UNCHANGED sessionVars
    BY <1>6 DEF sessionVars, Link!linkVars
  <1>7. QED BY <1>1, <1>2, <1>3, <1>4, <1>5, <1>6 DEF SessionNext

\* Every behaviour of the session, with its lossy, duplicating and reordering
\* network and restarts of both ends, is a behaviour of the at-most-once link.
THEOREM SessionImplementsLink == SessionSpec => ImplementsLink
  BY LinkInitImpl, LinkStep, InvHolds, PTL DEF SessionSpec, ImplementsLink, Link!LinkSpec

-------------------------------------------------------------------------------
(* A node of the mesh *)

\* What the underlay delivers to a user-space stack is numbered, and its IP packets
\* are segments of the connections.
DatagramShape ==
    \A c \in Configs : c.device = "netstack" =>
        \A t \in [PeerIds(c) -> SUBSET Nat] : \A d \in Datagrams(c, t) :
            d.id \in Nat /\ (d.inner.kind = "ip" => d.inner \in TcpPacket)

Destinations == {k.dst : k \in HostPackets} \cup {Allowed(cfg.peers[1].id)}
OwnPacket == [kind : {"ip"}, src : {cfg.overlay_ip}, dst : Destinations]

\* The node runs a configuration it accepted, the tables have an entry per peer, and
\* what the node sends carries its own address.
MeshInv ==
    /\ cfg \in Configs /\ to_runtime(cfg)
    /\ DOMAIN endpoint = PeerIds(cfg) /\ DOMAIN taken = PeerIds(cfg)
    /\ toMesh \in Seq(OwnPacket)
    /\ EndpointVouched
    /\ RelayedRight

-------------------------------------------------------------------------------
(* The user-space stack *)

Live == {"Established", "FinWait1", "FinWait2", "CloseWait", "LastAck", "Closing", "TimeWait"}
States == Live \cup {"none", "SynReceived", "SynSent", "Closed"}
Sock == [role : {"none", "listener", "connect", "conn"}, st : States, in : Nat, out : Nat]
Shared == [rx : 0 .. ConnCap, tx : Nat, app_shutdown : BOOLEAN, net_closed : BOOLEAN,
           aborted : BOOLEAN, reader : {"idle", "asleep"}, writer : {"idle", "asleep"}]
Served == {"queued", "open", "dropped"}
Unserved == {"none", "dialing", "given_up", "refused"}
Net == [spare : Nat, accepts : Seq(Flows), sock : [Flows -> Sock], shared : [Flows -> Shared],
        stream : [Flows -> Served \cup Unserved],
        got : [Flows -> Int], read : [Flows -> Nat], wrote : [Flows -> Nat],
        eof : [Flows -> BOOLEAN], ended : [Flows -> {"none", "reset", "last_ack", "expired"}]]

\* The states a socket of each role may be in at a point of the driver's turn.
Stage(s, listening, connecting, connected) ==
    /\ s.role = "none" => s = NoSocket
    /\ s.role = "listener" => s.st \in listening
    /\ s.role = "connect" => s.st \in connecting
    /\ s.role = "conn" => s.st \in connected

Settled(s) == Stage(s, {"SynReceived"}, {"SynSent"}, Live)

\* One connection: its socket s, the shared half g of its stream, the state w of the
\* stream, and what the application has seen.
Joined(s, g, w, read, eof) ==
    /\ s.st \in {"SynReceived", "SynSent"} => s.in = 0
    /\ s.role = "listener" => w = "none"
    /\ s.role = "connect" => w \in {"dialing", "given_up"}
    /\ s.role = "conn" => w \in Served
    /\ w \in Unserved => g = NewShared /\ read = 0 /\ ~eof
    /\ w \in Served /\ ~g.net_closed => s.role = "conn"
    /\ g.net_closed =>
          \/ s.role = "none"
          \/ s.in = 0 /\ s.st \in {"CloseWait", "LastAck", "Closing", "TimeWait", "Closed"}
    /\ eof => g.net_closed /\ g.rx = 0
    /\ g.reader = "asleep" => g.rx = 0 /\ ~g.net_closed
    /\ g.writer = "asleep" => g.tx > 0

\* A closed socket went with up to SockBuf bytes behind a full read buffer; kept bytes
\* were read or can still be.
Cut(kept, got, ended) ==
    ended # "none" /\ kept >= ConnCap /\ got - kept \in 1 .. SockBuf

\* Every byte acknowledged to the peer was read, or is in one of the two buffers,
\* or was cut off with the socket.
Counted(s, g, got, read, ended) ==
    /\ s.in <= SockBuf
    /\ s.role = "connect" => s.in = 0
    /\ s.role # "none" => got = read + g.rx + s.in
    /\ s.role = "none" => got = read + g.rx \/ Cut(read + g.rx, got, ended)
    /\ s.st = "Closed" => ended # "none"

FlowSound(n, f) ==
    /\ Joined(n.sock[f], n.shared[f], n.stream[f], n.read[f], n.eof[f])
    /\ Counted(n.sock[f], n.shared[f], n.got[f], n.read[f], n.ended[f])

\* The driver has nothing to do for the two halves of a stream that sleep.
Attended(s, g) ==
    /\ g.reader = "asleep" => s.in = 0
    /\ g.writer = "asleep" /\ s.role = "conn" => ~can_send(s)

Filled(n) == n.spare >= Backlog \/ Pool(n) >= MaxListen

StackInv ==
    /\ net \in Net
    /\ kick \in BOOLEAN
    /\ \A f \in Flows : Settled(net.sock[f]) /\ FlowSound(net, f)
    /\ \A i \in DOMAIN net.accepts : net.stream[net.accepts[i]] \in Served
    /\ ~kick => \A f \in Flows : Attended(net.sock[f], net.shared[f])
    /\ cfg.device = "netstack" =>
          /\ taken \in [PeerIds(cfg) -> SUBSET Nat]
          /\ toLocal \in Seq(TcpPacket)
          /\ cfg.mode = "hub" => Filled(net)

OverlayInv == MeshInv /\ StackInv
-------------------------------------------------------------------------------
(* The longest of finitely many, by the least counterexample *)

LEMMA LeastNat ==
    ASSUME NEW T \in SUBSET Nat, T # {}
    PROVE  \E x \in T : \A y \in T : x <= y
  <1>1. PICK x \in T : \A y \in T : <<y, x>> \notin OpToRel(<, Nat)
    BY WFMin, NatLessThanWellFounded, Zenon
  <1>2. \A y \in T : ~(y < x)
    BY <1>1, Zenon DEF OpToRel
  <1>3. QED BY <1>2

LEMMA Longest ==
    ASSUME NEW N \in Nat, NEW len \in [1 .. N -> Nat], NEW S \in SUBSET (1 .. N), S # {}
    PROVE  \E i \in S : \A j \in S : len[j] <= len[i]
  <1> DEFINE Tops(k) == {i \in S : i <= k /\ \A j \in S : j <= k => len[j] <= len[i]}
             Bad == {k \in Nat : (\E i \in S : i <= k) /\ Tops(k) = {}}
  <1>1. \A i \in S : i \in Nat /\ 1 <= i /\ i <= N /\ len[i] \in Nat
    OBVIOUS
  <1>2. ASSUME Bad # {} PROVE FALSE
    <2>1. PICK k \in Bad : \A m \in Bad : k <= m
      BY <1>2, LeastNat
    <2>2. k \in Nat /\ (\E i \in S : i <= k) /\ Tops(k) = {}
      BY <2>1
    <2>3. k # 0
      BY <1>1, <2>2
    <2>4. k - 1 \in Nat /\ k - 1 \notin Bad
      <3>1. k - 1 \in Nat /\ ~(k <= k - 1)
        BY <2>2, <2>3
      <3> HIDE DEF Bad
      <3>2. QED BY <2>1, <3>1
    <2>5. \A i \in S : i <= k <=> i <= k - 1 \/ i = k
      <3>1. ASSUME NEW i \in Nat PROVE i <= k <=> i <= k - 1 \/ i = k
        BY <2>2
      <3>2. QED BY <1>1, <3>1
    <2>6. CASE \A i \in S : ~(i <= k - 1)
      <3>1. k \in S /\ \A j \in S : j <= k => j = k
        BY <2>2, <2>5, <2>6
      <3>2. k \in Tops(k)
        BY <1>1, <3>1
      <3>3. QED BY <2>2, <3>2
    <2>7. CASE \E i \in S : i <= k - 1
      <3>1. PICK i \in S : i <= k - 1 /\ \A j \in S : j <= k - 1 => len[j] <= len[i]
        BY <2>4, <2>7
      <3>2. i <= k
        BY <2>5, <3>1
      <3>3. CASE k \in S /\ len[i] < len[k]
        <4>1. \A j \in S : j <= k => len[j] <= len[k]
          BY <1>1, <2>5, <3>1, <3>3
        <4>2. k \in Tops(k)
          BY <2>2, <3>3, <4>1
        <4>3. QED BY <2>2, <4>2
      <3>4. CASE ~(k \in S /\ len[i] < len[k])
        <4>1. \A j \in S : j <= k => len[j] <= len[i]
          BY <1>1, <2>5, <3>1, <3>4
        <4>2. i \in Tops(k)
          BY <3>2, <4>1
        <4>3. QED BY <2>2, <4>2
      <3>5. QED BY <3>3, <3>4
    <2>8. QED BY <2>6, <2>7
  <1>3. \E i \in S : i <= N
    BY <1>1
  <1>4. PICK i \in S : \A j \in S : j <= N => len[j] <= len[i]
    BY <1>2, <1>3
  <1>5. QED BY <1>1, <1>4

-------------------------------------------------------------------------------
(* The peer table *)

\* Ids are unique in an accepted configuration, so that a peer is found by its id.
LEMMA PeerNet ==
    ASSUME cfg \in Configs, to_runtime(cfg), NEW i \in DOMAIN cfg.peers
    PROVE  /\ cfg.peers[i].id \in Nat \ {NoPeer}
           /\ Allowed(cfg.peers[i].id) = cfg.peers[i].allowed_src
  <1>1. cfg.peers[i].id \in Nat \ {NoPeer}
    BY ConfigShape DEF to_runtime, ValidPeer
  <1>2. \A j \in DOMAIN cfg.peers : cfg.peers[j].id = cfg.peers[i].id => j = i
    <2>1. TAKE j \in DOMAIN cfg.peers
    <2>2. HAVE cfg.peers[j].id = cfg.peers[i].id
    <2>3. i \in Nat /\ j \in Nat /\ i >= 1 /\ j >= 1
      BY ConfigShape
    <2>4. ~(j < i) /\ ~(i < j)
      BY <2>2, <2>3 DEF to_runtime, ValidPeer
    <2>5. QED BY <2>3, <2>4
  <1>3. (CHOOSE j \in DOMAIN cfg.peers : cfg.peers[j].id = cfg.peers[i].id) = i
    BY <1>2
  <1>4. QED BY <1>1, <1>3 DEF Allowed

LEMMA PeerIdsNat ==
    ASSUME cfg \in Configs, to_runtime(cfg)
    PROVE  PeerIds(cfg) \subseteq Nat \ {NoPeer}
  BY PeerNet DEF PeerIds

\* PeerTable::route finds an owner of the destination with the longest prefix.
LEMMA RouteOwns ==
    ASSUME cfg \in Configs, to_runtime(cfg), NEW dst, route(dst) # NoPeer
    PROVE  /\ route(dst) \in PeerIds(cfg)
           /\ contains(Allowed(route(dst)), dst)
           /\ \A p \in PeerIds(cfg) :
                contains(Allowed(p), dst) => Len(Allowed(p)) <= Len(Allowed(route(dst)))
  <1> DEFINE own == {i \in DOMAIN cfg.peers : contains(cfg.peers[i].allowed_src, dst)}
             best == {i \in own : \A j \in own :
                        Len(cfg.peers[j].allowed_src) <= Len(cfg.peers[i].allowed_src)}
             last == CHOOSE i \in best : \A j \in best : j <= i
  <1>1. own # {} /\ route(dst) = cfg.peers[last].id
    BY DEF route
  <1>2. PICK N \in Nat : DOMAIN cfg.peers = 1 .. N
    BY ConfigShape
  <1>3. \A i \in DOMAIN cfg.peers : Len(cfg.peers[i].allowed_src) \in Nat
    BY ConfigShape
  <1>4. best # {}
    <2> DEFINE len == [i \in 1 .. N |-> Len(cfg.peers[i].allowed_src)]
    <2>1. len \in [1 .. N -> Nat] /\ own \in SUBSET (1 .. N)
      BY <1>2, <1>3
    <2>2. \E i \in own : \A j \in own : len[j] <= len[i]
      <3> HIDE DEF len, own
      <3>1. QED BY <1>1, <2>1, Longest
    <2>3. \A i \in own : len[i] = Len(cfg.peers[i].allowed_src)
      BY <1>2
    <2> HIDE DEF len, own
    <2>4. QED BY <2>2, <2>3
  <1>5. \E i \in best : \A j \in best : j <= i
    <2> DEFINE ident == [i \in 1 .. N |-> i]
    <2>1. ident \in [1 .. N -> Nat] /\ best \in SUBSET (1 .. N)
      BY <1>2
    <2>2. \E i \in best : \A j \in best : ident[j] <= ident[i]
      <3> HIDE DEF ident, best
      <3>1. QED BY <1>4, <2>1, Longest
    <2>3. \A i \in best : ident[i] = i
      BY <1>2
    <2> HIDE DEF ident, best
    <2>4. QED BY <2>2, <2>3
  <1>6. last \in best
    <2> HIDE DEF best
    <2>1. QED BY <1>5
  <1>7. last \in DOMAIN cfg.peers /\ contains(cfg.peers[last].allowed_src, dst)
    <2> HIDE DEF last
    <2>1. QED BY <1>6
  <1>8. Allowed(route(dst)) = cfg.peers[last].allowed_src
    <2> HIDE DEF last
    <2>1. QED BY <1>1, <1>7, PeerNet
  <1>9. ASSUME NEW p \in PeerIds(cfg), contains(Allowed(p), dst)
        PROVE  Len(Allowed(p)) <= Len(Allowed(route(dst)))
    <2>1. PICK i \in DOMAIN cfg.peers : cfg.peers[i].id = p
      BY DEF PeerIds
    <2>2. Allowed(p) = cfg.peers[i].allowed_src
      BY <2>1, PeerNet
    <2>3. i \in own
      BY <1>9, <2>2
    <2> HIDE DEF last, own
    <2>4. QED BY <1>6, <1>8, <2>2, <2>3
  <1>10. route(dst) \in PeerIds(cfg)
    <2> HIDE DEF last
    <2>1. QED BY <1>1, <1>7 DEF PeerIds
  <1>11. QED BY <1>7, <1>8, <1>9, <1>10

-------------------------------------------------------------------------------
(* The reactor *)

Written(p) == cfg.peers[CHOOSE i \in DOMAIN cfg.peers : cfg.peers[i].id = p].endpoint

\* What a message that was sent must satisfy.
Right(m) ==
    m.inner.kind = "ip" =>
        /\ m.from # m.to
        /\ IF m.from = Local THEN m.inner.src = cfg.overlay_ip
                             ELSE cfg.mode = "hub" /\ contains(Allowed(m.from), m.inner.src)
        /\ contains(Allowed(m.to), m.inner.dst)
        /\ \A p \in PeerIds(cfg) :
             contains(Allowed(p), m.inner.dst) => Len(Allowed(p)) <= Len(Allowed(m.to))

\* The configuration never changes, and neither does what is read from it.
LEMMA SameConfig ==
    ASSUME UNCHANGED cfg
    PROVE  /\ PeerIds(cfg)' = PeerIds(cfg)
           /\ OwnPacket' = OwnPacket
           /\ to_runtime(cfg)' = to_runtime(cfg)
           /\ \A p : Allowed(p)' = Allowed(p) /\ Written(p)' = Written(p)
           /\ \A m : Right(m)' = Right(m)
  <1>1. \A p : Allowed(p)' = Allowed(p) /\ Written(p)' = Written(p)
    BY DEF Allowed, Written
  <1>2. PeerIds(cfg)' = PeerIds(cfg)
    BY DEF PeerIds
  <1>3. OwnPacket' = OwnPacket
    BY <1>1 DEF OwnPacket, Destinations
  <1>4. to_runtime(cfg)' = to_runtime(cfg)
    BY DEF to_runtime, ValidDevice, ValidPeer
  <1>5. \A m : Right(m)' = Right(m)
    BY <1>1, <1>2 DEF Right
  <1>6. QED BY <1>1, <1>2, <1>3, <1>4, <1>5

\* The two properties, before and after a step that keeps the configuration.
LEMMA RightSent ==
    ASSUME UNCHANGED cfg
    PROVE  /\ RelayedRight <=> \A m \in sent : Right(m)
           /\ RelayedRight' <=> \A m \in sent' : Right(m)
  <1>1. RelayedRight' <=> \A m \in sent' : Right(m)'
    BY DEF RelayedRight, Right
  <1>2. QED BY <1>1, SameConfig DEF RelayedRight, Right

LEMMA VouchedWritten ==
    ASSUME UNCHANGED cfg
    PROVE  /\ EndpointVouched <=>
                 \A p \in PeerIds(cfg) : endpoint[p] = Written(p) \/ <<p, endpoint[p]>> \in vouched
           /\ EndpointVouched' <=>
                 \A p \in PeerIds(cfg) : endpoint'[p] = Written(p) \/ <<p, endpoint'[p]>> \in vouched'
  <1>1. EndpointVouched' <=>
          \A p \in PeerIds(cfg)' : endpoint'[p] = Written(p)' \/ <<p, endpoint'[p]>> \in vouched'
    BY DEF EndpointVouched, Written
  <1>2. QED BY <1>1, SameConfig DEF EndpointVouched, Written

LEMMA InboundMesh ==
    ASSUME MeshInv, NEW d, Inbound(d)
    PROVE  MeshInv'
  <1>1. UNCHANGED <<cfg, toMesh>>
    BY DEF Inbound
  <1>2. /\ PeerIds(cfg)' = PeerIds(cfg) /\ OwnPacket' = OwnPacket /\ to_runtime(cfg)' = to_runtime(cfg)
    BY <1>1, SameConfig
  <1> DEFINE p == select(d)
  <1>3. /\ PeerIds(cfg) \subseteq Nat \ {NoPeer}
        /\ p \in PeerIds(cfg) \/ p = NoPeer
    BY PeerIdsNat DEF MeshInv, select
  <1>4. accept(p, d) => p \in PeerIds(cfg) /\ d.by = p /\ d.id \notin taken[p]
    BY <1>3 DEF accept
  <1>5. learns(p, d) => accept(p, d) /\ MaySend(p, d)
    BY DEF learns
  <1>6. DOMAIN endpoint' = PeerIds(cfg) /\ DOMAIN taken' = PeerIds(cfg)
    BY DEF Inbound, MeshInv
  <1>7. vouched \subseteq vouched' /\ (learns(p, d) => <<p, d.via>> \in vouched')
    BY <1>4, <1>5 DEF Inbound
  <1>8. ASSUME NEW q \in PeerIds(cfg)
        PROVE  endpoint'[q] = Written(q) \/ <<q, endpoint'[q]>> \in vouched'
    <2>1. endpoint[q] = Written(q) \/ <<q, endpoint[q]>> \in vouched
      BY <1>1, VouchedWritten DEF MeshInv
    <2>2. CASE learns(p, d) /\ q = p
      <3>1. endpoint'[q] = d.via
        BY <2>2 DEF Inbound, MeshInv
      <3>2. QED BY <1>7, <2>2, <3>1
    <2>3. CASE ~(learns(p, d) /\ q = p)
      <3>1. endpoint'[q] = endpoint[q]
        BY <2>3 DEF Inbound, MeshInv
      <3>2. QED BY <1>7, <2>1, <3>1
    <2>4. QED BY <2>2, <2>3
  <1>9. ASSUME NEW m \in sent'
        PROVE  Right(m)
    <2>1. m \in relay(p, d.inner) /\ learns(p, d) /\ MaySend(p, d) /\ d.inner.kind = "ip"
      BY <1>9 DEF Inbound
    <2>2. cfg.mode = "hub" /\ route(d.inner.dst) \notin {NoPeer, p}
          /\ m \in seal_for(p, route(d.inner.dst), d.inner)
      BY <2>1 DEF relay
    <2>3. m.from = p /\ m.to = route(d.inner.dst) /\ m.inner = d.inner
      BY <2>2 DEF seal_for
    <2>4. p \in PeerIds(cfg) /\ p # Local
      BY <1>3, <1>4, <1>5, <2>1 DEF Local
    <2>5. contains(Allowed(p), d.inner.src)
      BY <2>1 DEF MaySend
    <2>6. /\ contains(Allowed(m.to), d.inner.dst)
          /\ \A q \in PeerIds(cfg) : contains(Allowed(q), d.inner.dst) => Len(Allowed(q)) <= Len(Allowed(m.to))
      BY <2>2, <2>3, RouteOwns DEF MeshInv
    <2>7. QED BY <2>2, <2>3, <2>4, <2>5, <2>6 DEF Right
  <1>10. EndpointVouched'
    BY <1>1, <1>8, VouchedWritten
  <1>11. RelayedRight'
    BY <1>1, <1>9, RightSent
  <1>12. QED BY <1>1, <1>2, <1>6, <1>10, <1>11 DEF MeshInv

LEMMA OutboundMesh ==
    ASSUME MeshInv, Outbound
    PROVE  MeshInv'
  <1>1. UNCHANGED <<cfg, endpoint, taken, vouched>> /\ toMesh # <<>> /\ toMesh' = Tail(toMesh)
    BY DEF Outbound
  <1>2. PeerIds(cfg)' = PeerIds(cfg) /\ OwnPacket' = OwnPacket /\ to_runtime(cfg)' = to_runtime(cfg)
    BY <1>1, SameConfig
  <1>3. Head(toMesh) \in OwnPacket /\ toMesh' \in Seq(OwnPacket)
    BY <1>1 DEF MeshInv
  <1>4. Head(toMesh).src = cfg.overlay_ip
    BY <1>3 DEF OwnPacket
  <1>5. ASSUME NEW m \in sent'
        PROVE  Right(m)
    <2> DEFINE inner == Head(toMesh)
    <2>1. route(inner.dst) # NoPeer /\ m \in seal_for(Local, route(inner.dst), inner)
      BY <1>5 DEF Outbound
    <2>2. m.from = Local /\ m.to = route(inner.dst) /\ m.inner = inner
      BY <2>1 DEF seal_for
    <2>3. route(inner.dst) \in PeerIds(cfg)
          /\ contains(Allowed(m.to), inner.dst)
          /\ \A q \in PeerIds(cfg) : contains(Allowed(q), inner.dst) => Len(Allowed(q)) <= Len(Allowed(m.to))
      BY <2>1, <2>2, RouteOwns DEF MeshInv
    <2>4. m.to # Local
      BY <2>2, <2>3, PeerIdsNat DEF MeshInv, Local
    <2>5. QED BY <1>4, <2>2, <2>3, <2>4 DEF Right
  <1>6. EndpointVouched'
    BY <1>1, VouchedWritten DEF MeshInv
  <1>7. RelayedRight'
    BY <1>1, <1>5, RightSent
  <1>8. QED BY <1>1, <1>2, <1>3, <1>6, <1>7 DEF MeshInv

LEMMA KeepaliveMesh ==
    ASSUME MeshInv, send_keepalives
    PROVE  MeshInv'
  <1>1. UNCHANGED <<cfg, endpoint, taken, vouched, toMesh>>
    BY DEF send_keepalives
  <1>2. PeerIds(cfg)' = PeerIds(cfg) /\ OwnPacket' = OwnPacket /\ to_runtime(cfg)' = to_runtime(cfg)
    BY <1>1, SameConfig
  <1>3. ASSUME NEW m \in sent'
        PROVE  Right(m)
    <2>1. PICK p \in PeerIds(cfg) : m \in seal_for(Local, p, [kind |-> "keepalive"])
      BY <1>3 DEF send_keepalives
    <2>2. m.inner = [kind |-> "keepalive"]
      BY <2>1 DEF seal_for
    <2>3. QED BY <2>2 DEF Right
  <1>4. EndpointVouched'
    BY <1>1, VouchedWritten DEF MeshInv
  <1>5. RelayedRight'
    BY <1>1, <1>3, RightSent
  <1>6. QED BY <1>1, <1>2, <1>4, <1>5 DEF MeshInv

\* A step that sends nothing over the underlay, and gives the reactor at most a packet
\* of this node.
LEMMA QuietMesh ==
    ASSUME MeshInv, UNCHANGED <<cfg, endpoint, taken, sent, vouched>>,
           toMesh' = toMesh \/ \E k \in OwnPacket : toMesh' = Append(toMesh, k)
    PROVE  MeshInv'
  <1>1. PeerIds(cfg)' = PeerIds(cfg) /\ OwnPacket' = OwnPacket /\ to_runtime(cfg)' = to_runtime(cfg)
    BY SameConfig
  <1>2. toMesh' \in Seq(OwnPacket)
    BY DEF MeshInv
  <1>3. EndpointVouched'
    BY VouchedWritten DEF MeshInv
  <1>4. RelayedRight'
    BY RightSent DEF MeshInv
  <1>5. QED BY <1>1, <1>2, <1>3, <1>4 DEF MeshInv

LEMMA PumpMesh ==
    ASSUME NEW n, NEW f, Pump(n, f)
    PROVE  toMesh' = toMesh \/ \E k \in OwnPacket : toMesh' = Append(toMesh, k)
  <1> DEFINE k == [kind |-> "ip", src |-> cfg.overlay_ip, dst |-> Allowed(cfg.peers[1].id)]
  <1>1. k \in OwnPacket
    BY DEF OwnPacket, Destinations
  <1>2. toMesh' = toMesh \/ toMesh' = Append(toMesh, k)
    BY DEF Pump, Send
  <1>3. QED BY <1>1, <1>2

LEMMA MeshInvInit == Init => MeshInv
  <1>1. SUFFICES ASSUME Init PROVE MeshInv
    OBVIOUS
  <1>2. cfg \in Configs /\ to_runtime(cfg) /\ toMesh = <<>> /\ sent = {}
    BY <1>1 DEF Init, MeshInit
  <1>3. DOMAIN endpoint = PeerIds(cfg) /\ DOMAIN taken = PeerIds(cfg)
    BY <1>1 DEF Init, MeshInit
  <1>4. EndpointVouched
    BY <1>1 DEF Init, MeshInit, EndpointVouched
  <1>5. RelayedRight
    BY <1>2 DEF RelayedRight
  <1>6. QED BY <1>2, <1>3, <1>4, <1>5 DEF MeshInv

vars == <<meshVars, netVars>>

LEMMA MeshInvNext == MeshInv /\ [Next]_vars => MeshInv'
  <1>1. SUFFICES ASSUME MeshInv, [Next]_vars PROVE MeshInv'
    OBVIOUS
  <1>2. ASSUME NEW d \in Datagrams(cfg, taken), Inbound(d) PROVE MeshInv'
    BY <1>1, <1>2, InboundMesh
  <1>3. CASE Outbound
    BY <1>1, <1>3, OutboundMesh
  <1>4. CASE send_keepalives
    BY <1>1, <1>4, KeepaliveMesh
  <1>5. CASE ReactorExit \/ PumpToDevice \/ PumpStop
    BY <1>1, <1>5, QuietMesh DEF ReactorExit, PumpToDevice, PumpStop
  <1>6. ASSUME NEW packet \in HostPackets, PumpFromDevice(packet) PROVE MeshInv'
    <2>1. packet.src = cfg.overlay_ip
      <3>1. packet.ipv4 \in BOOLEAN /\ packet.size \in Nat /\ Mtu \in Nat
        BY <1>1, MeshBounds, ConfigShape DEF MeshInv, Mtu
      <3>2. egress_verdict(packet) = "forward"
        BY <1>6 DEF PumpFromDevice
      <3>3. packet.ipv4 /\ ~(packet.size > Mtu)
        BY <3>1, <3>2 DEF egress_verdict
      <3>4. packet.size <= Mtu
        BY <3>1, <3>3
      <3>5. QED BY <3>2, <3>3, <3>4 DEF egress_verdict
    <2>2. [kind |-> "ip", src |-> packet.src, dst |-> packet.dst] \in OwnPacket
      BY <2>1 DEF OwnPacket, Destinations
    <2>3. UNCHANGED <<cfg, endpoint, taken, sent, vouched>>
          /\ \E k \in OwnPacket : toMesh' = Append(toMesh, k)
      BY <1>6, <2>2 DEF PumpFromDevice
    <2>4. QED BY <1>1, <2>3, QuietMesh
  <1>7. CASE DriverPacket
    <2>1. UNCHANGED <<cfg, endpoint, taken, sent, vouched>> /\ \E n, f : Pump(n, f)
      BY <1>7 DEF DriverPacket
    <2>2. QED BY <1>1, <2>1, PumpMesh, QuietMesh
  <1>8. CASE DriverNotified
    <2>1. UNCHANGED <<cfg, endpoint, taken, sent, vouched>> /\ \E n, f : Pump(n, f)
      BY <1>8 DEF DriverNotified
    <2>2. QED BY <1>1, <2>1, PumpMesh, QuietMesh
  <1>9. ASSUME NEW f, DriverConnect(f) \/ DriverTimer(f) PROVE MeshInv'
    <2>1. UNCHANGED <<cfg, endpoint, taken, sent, vouched>> /\ \E n, h : Pump(n, h)
      BY <1>9 DEF DriverConnect, DriverTimer
    <2>2. QED BY <1>1, <2>1, PumpMesh, QuietMesh
  <1>10. CASE UNCHANGED meshVars
    BY <1>1, <1>10, QuietMesh DEF meshVars
  <1>11. ASSUME NEW f, GiveUp(f) \/ poll_read(f) \/ poll_write(f) \/ poll_flush(f)
                       \/ poll_shutdown(f) \/ DropStream(f)
         PROVE  UNCHANGED meshVars
    BY <1>11 DEF GiveUp, poll_read, poll_write, poll_flush, poll_shutdown, DropStream, Proxy
  <1>12. Accept \/ StopAccepting => UNCHANGED meshVars
    BY DEF Accept, StopAccepting, Proxy
  <1>13. QED
    BY <1>1, <1>2, <1>3, <1>4, <1>5, <1>6, <1>7, <1>8, <1>9, <1>10, <1>11, <1>12
       DEF Next, MeshNext, Streams, vars

\* A peer is only sent to where it was configured, or where a packet it may send first came
\* from: no replayed, forged or spoofed datagram moves an endpoint (PeerTable::ingest).
THEOREM EndpointStaysVouched == Spec => []EndpointVouched
  <1>1. MeshInv => EndpointVouched
    BY DEF MeshInv
  <1>2. QED BY <1>1, MeshInvInit, MeshInvNext, PTL DEF Spec, vars

\* Whatever a node sends goes to the peer that owns the destination, with a source its
\* origin may use, and never back (Reactor::relay, egress_verdict).
THEOREM RelayStaysRight == Spec => []RelayedRight
  <1>1. MeshInv => RelayedRight
    BY DEF MeshInv
  <1>2. QED BY <1>1, MeshInvInit, MeshInvNext, PTL DEF Spec, vars

-------------------------------------------------------------------------------
(* A segment at a socket *)

Ending == {"CloseWait", "LastAck", "Closing", "TimeWait"}

\* Segment moves a socket along the states of TCP; it takes data only before the FIN
\* of the peer.
LEMMA SegmentMoves ==
    ASSUME NEW s \in Sock, NEW seg, s.role # "none", Settled(s),
           s.st \in {"SynReceived", "SynSent"} => s.in = 0,
           ~(s.st = "SynReceived" /\ seg = "rst"),
           NEW t, t = Segment(s, seg)
    PROVE  /\ t \in Sock /\ t.role = s.role
           /\ Stage(t, {"SynReceived", "Established", "CloseWait"},
                       {"SynSent", "Established", "Closed"}, Live \cup {"Closed"})
           /\ t.st \in {"SynReceived", "SynSent"} => t.in = 0
           /\ s.st \in Ending => t.st \in Ending \cup {"Closed"} /\ t.in = s.in
           /\ s.in <= SockBuf => t.in <= SockBuf
           /\ s.role = "connect" => t.in = s.in
  <1>1. SockBuf \in Nat /\ SockBuf > 0
    BY NetBounds
  <1>2. /\ s.role \in {"listener", "connect", "conn"} /\ s.in \in Nat /\ s.out \in Nat
        /\ s.role = "listener" => s.st = "SynReceived"
        /\ s.role = "connect" => s.st = "SynSent"
        /\ s.role = "conn" => s.st \in Live
    BY DEF Settled, Stage, Sock
  <1> USE DEF Stage, Live, Ending, Sock, States
  <1>3. CASE seg = "data"
    <2>1. t = TakeData(s)
      BY <1>3 DEF Segment
    <2>2. CASE s.st \in {"SynReceived", "Established", "FinWait1", "FinWait2"} /\ s.in < SockBuf
      <3> DEFINE st == IF s.st = "SynReceived" THEN "Established" ELSE s.st
      <3>1. t = [s EXCEPT !.in = s.in + 1, !.st = st]
        BY <2>1, <2>2 DEF TakeData
      <3>2. t.role = s.role /\ t.st = st /\ t.in = s.in + 1 /\ t.out = s.out
        BY <3>1
      <3>3. t \in Sock
        <4>1. st \in States /\ s.in + 1 \in Nat
          BY <1>2, <2>2
        <4> HIDE DEF st, States
        <4>2. QED BY <3>1, <4>1
      <3>4. t.in <= SockBuf /\ s.role # "connect"
        BY <1>1, <1>2, <2>2, <3>2
      <3>5. QED BY <1>2, <2>2, <3>2, <3>3, <3>4
    <2>3. CASE ~(s.st \in {"SynReceived", "Established", "FinWait1", "FinWait2"} /\ s.in < SockBuf)
      <3>1. t = s
        BY <2>1, <2>3 DEF TakeData
      <3>2. QED BY <1>1, <1>2, <2>3, <3>1
    <2>4. QED BY <2>2, <2>3
  <1>4. CASE seg = "fin"
    <2>1. t = TakeFin(s)
      BY <1>4 DEF Segment
    <2>2. QED BY <1>2, <2>1 DEF TakeFin
  <1>5. CASE seg = "ack"
    <2>1. t = TakeAck(s)
      BY <1>5 DEF Segment
    <2> DEFINE st == CASE s.st = "SynReceived" -> "Established"
                       [] s.st = "FinWait1" -> "FinWait2"
                       [] s.st = "Closing" -> "TimeWait"
                       [] s.st = "LastAck" -> "Closed"
                       [] OTHER -> s.st
    <2>2. t = [s EXCEPT !.out = 0, !.st = st]
      BY <2>1 DEF TakeAck
    <2>3. t.role = s.role /\ t.st = st /\ t.in = s.in
      BY <2>2
    <2>4. /\ s.st = "SynReceived" => st = "Established"
          /\ s.st = "SynSent" => st = "SynSent"
          /\ s.st \in Live => st \in Live \cup {"Closed"}
          /\ s.st \in Ending => st \in Ending \cup {"Closed"}
      OBVIOUS
    <2> HIDE DEF st
    <2>5. t \in Sock
      <3>1. st \in States /\ 0 \in Nat
        BY <1>2, <2>4
      <3> HIDE DEF States
      <3>2. QED BY <2>2, <3>1
    <2>6. QED BY <1>2, <2>3, <2>4, <2>5
  <1>6. CASE seg = "synack"
    <2>1. t = IF s.st = "SynSent" THEN [s EXCEPT !.st = "Established"] ELSE s
      BY <1>6 DEF Segment
    <2>2. QED BY <1>2, <2>1
  <1>7. CASE seg = "rst"
    <2>1. t = [s EXCEPT !.st = "Closed"]
      BY <1>7 DEF Segment
    <2>2. QED BY <1>2, <1>7, <2>1
  <1>8. CASE seg \notin {"data", "fin", "ack", "synack", "rst"}
    <2>1. t = s
      BY <1>8 DEF Segment
    <2>2. QED BY <1>2, <2>1
  <1>9. QED BY <1>3, <1>4, <1>5, <1>6, <1>7, <1>8

\* What the driver's pass makes of a connection, (s, g) before and (t, k) after it.
PassEffect(s, g, t, k) ==
    \E moved \in 0 .. s.in, pushed \in Nat :
        /\ t \in Sock /\ k \in Shared
        /\ t.role \in {"none", "conn"} /\ Settled(t)
        /\ k.rx = g.rx + moved /\ k.tx = g.tx - pushed
        /\ s.st = "Closed" => t.role = "none"
        /\ s.st \in Ending => t.role = "none" \/ t.st \in Ending
        /\ t.role = "conn" => t.in = s.in - moved
        /\ t.role = "none" => k.net_closed /\ (moved = s.in \/ (s.st = "Closed" /\ k.rx = ConnCap))
        /\ k.net_closed => g.net_closed \/ t.role = "none" \/ (t.in = 0 /\ t.st \in Ending)
        /\ g.net_closed => k.net_closed
        /\ k.reader = "asleep" =>
              /\ g.reader = "asleep" /\ moved = 0 /\ k.net_closed = g.net_closed
              /\ (g.rx = 0 => s.in = 0)
        /\ k.writer = "asleep" =>
              /\ t.role = "conn" /\ g.writer = "asleep" /\ pushed = 0
              /\ (g.tx > 0 => ~can_send(t))

LEMMA ServeConnEffect ==
    ASSUME NEW s \in Sock, NEW g \in Shared, s.role = "conn", s.st \in Live \cup {"Closed"},
           NEW r, r = ServeConn(s, g)
    PROVE  PassEffect(s, g, r.sock, r.shared)
  <1> DEFINE moved  == Min2(s.in, ConnCap - g.rx)
             pushed == IF can_send(s) THEN Min2(g.tx, SockBuf - s.out) ELSE 0
             s1     == [s EXCEPT !.in = @ - moved, !.out = @ + pushed]
             s2     == IF g.app_shutdown /\ g.tx = pushed /\ may_send(s1) THEN close(s1) ELSE s1
             eof    == ~may_recv(s2) /\ ~g.net_closed
  <1>1. SockBuf \in Nat /\ ConnCap \in Nat /\ ConnCap > 0
    BY NetBounds
  <1>2. /\ s.in \in Nat /\ s.out \in Nat /\ g.rx \in Nat /\ g.rx <= ConnCap /\ g.tx \in Nat
        /\ g.net_closed \in BOOLEAN /\ g.app_shutdown \in BOOLEAN
    BY <1>1 DEF Sock, Shared
  <1>3. /\ moved \in 0 .. s.in /\ g.rx + moved \in 0 .. ConnCap
        /\ moved = 0 /\ g.rx = 0 => s.in = 0
        /\ moved = s.in \/ g.rx + moved = ConnCap
    BY <1>1, <1>2 DEF Min2
  <1>4. pushed \in Nat /\ g.tx - pushed \in Nat
        /\ (pushed = 0 /\ g.tx > 0 => ~can_send(s))
    BY <1>1, <1>2 DEF Min2, can_send
  <1> HIDE DEF moved, pushed
  <1>5. s1 \in Sock /\ s1.role = "conn" /\ s1.st = s.st /\ s1.in = s.in - moved /\ s1.out = s.out + pushed
    <2>1. s.in - moved \in Nat /\ s.out + pushed \in Nat
      BY <1>2, <1>3, <1>4
    <2>2. QED BY <2>1 DEF Sock
  <1> HIDE DEF s1
  <1>6. /\ s2 \in Sock /\ s2.role = "conn" /\ s2.in = s1.in /\ s2.out = s1.out
        /\ s2.st = s1.st \/ (s1.st = "Established" /\ s2.st = "FinWait1")
                         \/ (s1.st = "CloseWait" /\ s2.st = "LastAck")
    BY <1>5 DEF close, Sock, States, Live
  <1> HIDE DEF s2
  <1>7. over(s2) <=> s.st = "Closed" \/ (s2.st = "TimeWait" /\ s2.in = 0)
    BY <1>5, <1>6 DEF over
  <1>8. /\ r.sock = IF over(s2) THEN NoSocket ELSE s2
        /\ r.shared = [g EXCEPT !.rx = g.rx + moved, !.tx = g.tx - pushed,
                              !.net_closed = g.net_closed \/ eof \/ over(s2),
                              !.reader = IF moved > 0 \/ eof \/ over(s2) THEN "idle" ELSE g.reader,
                              !.writer = IF pushed > 0 \/ over(s2) THEN "idle" ELSE g.writer]
    BY DEF ServeConn, moved, pushed, s1, s2
  <1>9. /\ r.sock \in Sock /\ r.sock.role \in {"none", "conn"}
        /\ r.sock.role = "none" <=> over(s2)
        /\ r.sock.role = "conn" => r.sock = s2
    BY <1>6, <1>8 DEF NoSocket, Sock, States
  <1>10. Settled(r.sock)
    <2>1. ~over(s2) => s2.st \in Live
      BY <1>5, <1>6, <1>7 DEF Live
    <2>2. QED BY <1>6, <1>8, <2>1 DEF Settled, Stage, NoSocket
  <1>11. eof \in BOOLEAN /\ over(s2) \in BOOLEAN
    BY DEF over
  <1>12. r.shared \in Shared
    BY <1>2, <1>3, <1>4, <1>8, <1>11 DEF Shared
  <1>13. /\ r.shared.rx = g.rx + moved /\ r.shared.tx = g.tx - pushed
         /\ r.shared.net_closed = (g.net_closed \/ eof \/ over(s2))
         /\ r.shared.reader = IF moved > 0 \/ eof \/ over(s2) THEN "idle" ELSE g.reader
         /\ r.shared.writer = IF pushed > 0 \/ over(s2) THEN "idle" ELSE g.writer
    BY <1>8 DEF Shared
  <1>14. eof /\ ~over(s2) => s2.in = 0 /\ s2.st \in Ending
    BY <1>2, <1>5, <1>6, <1>7 DEF may_recv, Live, Ending, Sock
  <1>15. r.sock.role = "none" =>
            r.shared.net_closed /\ (moved = s.in \/ (s.st = "Closed" /\ r.shared.rx = ConnCap))
    <2>1. s.in - moved = 0 => moved = s.in
      BY <1>2, <1>3
    <2>2. moved = s.in \/ r.shared.rx = ConnCap
      BY <1>3, <1>13
    <2>3. over(s2) => s.st = "Closed" \/ moved = s.in
      BY <1>5, <1>6, <1>7, <2>1
    <2>4. r.sock.role = "none" => over(s2)
      BY <1>9
    <2>5. over(s2) => r.shared.net_closed
      BY <1>13
    <2>6. ASSUME r.sock.role = "none" PROVE r.shared.net_closed
      BY <2>4, <2>5, <2>6, Zenon
    <2>7. ASSUME r.sock.role = "none"
          PROVE  moved = s.in \/ (s.st = "Closed" /\ r.shared.rx = ConnCap)
      BY <2>2, <2>3, <2>4, <2>7, Zenon
    <2>8. QED BY <2>6, <2>7, Zenon
  <1>16. s.st \in Ending => r.sock.role = "none" \/ r.sock.st \in Ending
    BY <1>5, <1>6, <1>9 DEF Ending
  <1>17. ~can_send(s) /\ pushed = 0 => ~can_send(s2)
    BY <1>2, <1>5, <1>6 DEF can_send, may_send
  <1> HIDE DEF eof
  <1>18. r.shared.net_closed =>
             \/ g.net_closed \/ r.sock.role = "none"
             \/ r.sock.in = 0 /\ r.sock.st \in Ending
    BY <1>9, <1>13, <1>14
  <1>19. g.net_closed => r.shared.net_closed
    BY <1>13
  <1>20. r.shared.reader = "asleep" =>
            /\ g.reader = "asleep" /\ moved = 0 /\ r.shared.net_closed = g.net_closed
            /\ (g.rx = 0 => s.in = 0)
    BY <1>2, <1>3, <1>13
  <1>21. r.shared.writer = "asleep" =>
            /\ r.sock.role = "conn" /\ g.writer = "asleep" /\ pushed = 0
            /\ (g.tx > 0 => ~can_send(r.sock))
    BY <1>4, <1>9, <1>13, <1>17
  <1>22. r.sock.role = "conn" => r.sock.in = s.in - moved
    BY <1>5, <1>6, <1>9
  <1>23. s.st = "Closed" => r.sock.role = "none"
    BY <1>7, <1>9
  <1>24. QED
    BY <1>3, <1>4, <1>9, <1>10, <1>12, <1>13, <1>15, <1>16, <1>18, <1>19, <1>20, <1>21, <1>22, <1>23
       DEF PassEffect

-------------------------------------------------------------------------------
(* The passes of a turn of the driver *)

NetSound(n) ==
    /\ n \in Net
    /\ \A h \in Flows : FlowSound(n, h)
    /\ \A i \in DOMAIN n.accepts : n.stream[n.accepts[i]] \in Served

\* In the middle of a turn only the connection the turn is about may be in between.
Turn(n, f, listening, connecting) ==
    /\ NetSound(n)
    /\ \A h \in Flows \ {f} : Settled(n.sock[h])
    /\ Stage(n.sock[f], listening, connecting, Live \cup {"Closed"})

Polled(n, f)   == Turn(n, f, {"SynReceived", "Established", "CloseWait"}, {"SynSent", "Established", "Closed"})
Promoted(n, f) == Turn(n, f, {"SynReceived"}, {"SynSent", "Established", "Closed"})
Resolved(n, f) == Turn(n, f, {"SynReceived"}, {"SynSent"})

LEMMA NetFields ==
    ASSUME NEW n \in Net, NEW f \in Flows
    PROVE  /\ n.sock[f] \in Sock /\ n.shared[f] \in Shared
           /\ n.stream[f] \in Served \cup Unserved
           /\ n.got[f] \in Int /\ n.read[f] \in Nat /\ n.eof[f] \in BOOLEAN
  BY DEF Net

LEMMA NetParts ==
    ASSUME NEW n \in Net
    PROVE  /\ n.spare \in Nat /\ n.accepts \in Seq(Flows)
           /\ n.sock \in [Flows -> Sock] /\ n.shared \in [Flows -> Shared]
           /\ n.stream \in [Flows -> Served \cup Unserved]
           /\ n.got \in [Flows -> Int]
           /\ n.ended \in [Flows -> {"none", "reset", "last_ack", "expired"}]
  BY DEF Net

\* From n to m only connection f changes; it may be queued for the accept loop.
OnlyAt(f, n, m) ==
    /\ \/ m.accepts = n.accepts
       \/ m.accepts = Append(n.accepts, f) /\ m.stream[f] \in Served
    /\ n.stream[f] \in Served => m.stream[f] \in Served
    /\ \A h \in Flows \ {f} :
          /\ m.sock[h] = n.sock[h] /\ m.shared[h] = n.shared[h] /\ m.stream[h] = n.stream[h]
          /\ m.got[h] = n.got[h] /\ m.read[h] = n.read[h] /\ m.eof[h] = n.eof[h]
          /\ m.ended[h] = n.ended[h]

\* A change of one connection that keeps it sound keeps the rest.
LEMMA ChangeOne ==
    ASSUME NEW n, NetSound(n), NEW f \in Flows, NEW m \in Net, FlowSound(m, f), OnlyAt(f, n, m)
    PROVE  NetSound(m)
  <1>1. \A h \in Flows : FlowSound(m, h)
    BY DEF NetSound, FlowSound, OnlyAt
  <1>2. n.accepts \in Seq(Flows) /\ m.accepts \in Seq(Flows)
    BY DEF NetSound, Net
  <1>3. ASSUME NEW i \in DOMAIN m.accepts PROVE m.stream[m.accepts[i]] \in Served
    <2>1. m.accepts[i] \in Flows
      BY <1>2, <1>3
    <2>2. CASE i \in DOMAIN n.accepts /\ m.accepts[i] = n.accepts[i]
      BY <2>1, <2>2 DEF NetSound, OnlyAt
    <2>3. CASE ~(i \in DOMAIN n.accepts /\ m.accepts[i] = n.accepts[i])
      <3>1. m.accepts = Append(n.accepts, f) /\ m.stream[f] \in Served
        BY <1>3, <2>3 DEF OnlyAt
      <3>2. m.accepts[i] = f
        BY <1>2, <1>3, <2>3, <3>1
      <3>3. QED BY <3>1, <3>2
    <2>4. QED BY <2>2, <2>3
  <1>4. QED BY <1>1, <1>3 DEF NetSound

\* Interface::poll with one segment.
\* Nothing was acknowledged on a connection that has no socket and no stream yet.
LEMMA NothingKept ==
    ASSUME NEW got \in Int, NEW ended, Counted(NoSocket, NewShared, got, 0, ended)
    PROVE  got = 0
  <1>1. got = 0 + 0 \/ 0 + 0 >= ConnCap
    BY DEF Counted, Cut, NoSocket, NewShared
  <1>2. QED BY <1>1, NetBounds

LEMMA PollTurn ==
    ASSUME NEW n, NetSound(n), \A h \in Flows : Settled(n.sock[h]), NEW f \in Flows, NEW seg,
           NEW m, m = poll(n, f, seg)
    PROVE  Polled(m, f)
  <1> DEFINE s == n.sock[f]
             g == n.shared[f]
  <1>1. n \in Net /\ FlowSound(n, f) /\ Settled(s)
    BY DEF NetSound
  <1>2. /\ s \in Sock /\ g \in Shared /\ n.stream[f] \in Served \cup Unserved
        /\ n.got[f] \in Int /\ n.read[f] \in Nat /\ n.eof[f] \in BOOLEAN
    BY <1>1, NetFields
  <1>3. /\ s.role = "listener" <=> s.st = "SynReceived"
        /\ s.role = "none" <=> s = NoSocket
    BY <1>1, <1>2 DEF Settled, Stage, Live, NoSocket, Sock
  <1>4. CASE s = NoSocket /\ seg = "syn" /\ n.spare > 0 /\ n.stream[f] = "none"
    <2>1. m = [n EXCEPT !.spare = @ - 1, !.sock[f] = Socket("listener", "SynReceived")]
      BY <1>4 DEF poll
    <2>2. Socket("listener", "SynReceived") \in Sock
      BY DEF Socket, Sock, States
    <2>3. /\ m \in Net /\ m.sock[f] = Socket("listener", "SynReceived")
          /\ \A h \in Flows \ {f} : m.sock[h] = n.sock[h]
          /\ m.shared = n.shared /\ m.stream = n.stream /\ m.accepts = n.accepts
          /\ m.got = n.got /\ m.read = n.read /\ m.eof = n.eof /\ m.ended = n.ended
      <3>1. PICK spare \in Nat, sock \in [Flows -> Sock] :
               /\ spare = n.spare - 1 /\ sock = [n.sock EXCEPT ![f] = Socket("listener", "SynReceived")]
        <4>1. n.spare - 1 \in Nat
          BY <1>1, <1>4, NetParts
        <4>2. [n.sock EXCEPT ![f] = Socket("listener", "SynReceived")] \in [Flows -> Sock]
          BY <1>1, <2>2, NetParts
        <4>3. QED BY <4>1, <4>2
      <3>2. m = [n EXCEPT !.spare = spare, !.sock = sock]
        BY <2>1, <3>1
      <3>3. sock[f] = Socket("listener", "SynReceived") /\ \A h \in Flows \ {f} : sock[h] = n.sock[h]
        BY <1>1, <2>2, <3>1, NetParts
      <3>4. /\ m \in Net /\ m.sock = sock
            /\ m.shared = n.shared /\ m.stream = n.stream /\ m.accepts = n.accepts
            /\ m.got = n.got /\ m.read = n.read /\ m.eof = n.eof /\ m.ended = n.ended
        BY <1>1, <3>2 DEF Net
      <3>5. QED BY <3>3, <3>4
    <2>4. FlowSound(m, f)
      <3>1. g = NewShared /\ n.read[f] = 0 /\ ~n.eof[f]
        BY <1>1, <1>4 DEF FlowSound, Joined, Unserved
      <3>2. n.got[f] = 0
        BY <1>1, <1>2, <1>4, <3>1, NothingKept DEF FlowSound
      <3>3. Joined(m.sock[f], g, n.stream[f], n.read[f], n.eof[f])
        BY <1>4, <2>3, <3>1 DEF Joined, Socket, NewShared, Served
      <3>4. Counted(m.sock[f], g, 0, 0, n.ended[f])
        BY <2>3, <3>1, NetBounds DEF Counted, Socket, NewShared
      <3>5. QED BY <2>3, <3>1, <3>2, <3>3, <3>4 DEF FlowSound
    <2>5. NetSound(m)
      <3>1. m \in Net /\ OnlyAt(f, n, m)
        BY <2>3 DEF OnlyAt
      <3>2. QED BY <2>4, <3>1, ChangeOne
    <2>6. QED BY <2>3, <2>5 DEF Polled, Turn, Stage, Socket
  <1>5. CASE s.st = "SynReceived" /\ seg = "rst"
    <2>1. m = [n EXCEPT !.spare = @ + 1, !.sock[f] = NoSocket]
      BY <1>5 DEF poll, NoSocket
    <2>2. NoSocket \in Sock
      BY DEF NoSocket, Sock, States
    <2>3. /\ m \in Net /\ m.sock[f] = NoSocket
          /\ \A h \in Flows \ {f} : m.sock[h] = n.sock[h]
          /\ m.shared = n.shared /\ m.stream = n.stream /\ m.accepts = n.accepts
          /\ m.got = n.got /\ m.read = n.read /\ m.eof = n.eof /\ m.ended = n.ended
      <3>1. PICK spare \in Nat, sock \in [Flows -> Sock] :
               spare = n.spare + 1 /\ sock = [n.sock EXCEPT ![f] = NoSocket]
        <4>1. n.spare + 1 \in Nat
          BY <1>1, NetParts
        <4>2. [n.sock EXCEPT ![f] = NoSocket] \in [Flows -> Sock]
          BY <1>1, <2>2, NetParts
        <4>3. QED BY <4>1, <4>2
      <3>2. m = [n EXCEPT !.spare = spare, !.sock = sock]
        BY <2>1, <3>1
      <3>3. sock[f] = NoSocket /\ \A h \in Flows \ {f} : sock[h] = n.sock[h]
        BY <1>1, <2>2, <3>1, NetParts
      <3>4. /\ m \in Net /\ m.sock = sock
            /\ m.shared = n.shared /\ m.stream = n.stream /\ m.accepts = n.accepts
            /\ m.got = n.got /\ m.read = n.read /\ m.eof = n.eof /\ m.ended = n.ended
        BY <1>1, <3>2 DEF Net
      <3>5. QED BY <3>3, <3>4
    <2>4. FlowSound(m, f)
      <3>1. n.stream[f] = "none" /\ s.in = 0
        BY <1>1, <1>3, <1>5 DEF FlowSound, Joined
      <3>2. g = NewShared /\ n.read[f] = 0 /\ ~n.eof[f]
        BY <1>1, <3>1 DEF FlowSound, Joined, Unserved
      <3>3. Joined(NoSocket, g, n.stream[f], n.read[f], n.eof[f])
        BY <3>1, <3>2 DEF Joined, NoSocket, NewShared, Served
      <3>4. Counted(NoSocket, g, n.got[f], n.read[f], n.ended[f])
        <4>1. n.got[f] = n.read[f] + g.rx + s.in
          BY <1>1, <1>3, <1>5 DEF FlowSound, Counted
        <4>2. n.got[f] = n.read[f] + g.rx
          BY <3>1, <3>2, <4>1 DEF NewShared
        <4>3. QED BY <4>2, NetBounds DEF Counted, NoSocket
      <3>5. QED BY <2>3, <3>3, <3>4 DEF FlowSound
    <2>5. NetSound(m)
      <3>1. m \in Net /\ OnlyAt(f, n, m)
        BY <2>3 DEF OnlyAt
      <3>2. QED BY <2>4, <3>1, ChangeOne
    <2>6. QED BY <2>3, <2>5 DEF Polled, Turn, Stage, NoSocket
  <1>6. CASE s # NoSocket /\ ~(s.st = "SynReceived" /\ seg = "rst")
    <2> DEFINE t == Segment(s, seg)
    <2>1. m = [n EXCEPT !.sock[f] = t,
                        !.got[f] = @ + (t.in - s.in),
                        !.ended[f] = IF t.st # "Closed" THEN @ ELSE IF seg = "rst" THEN "reset" ELSE "last_ack"]
      BY <1>6 DEF poll
    <2>2. s.st \in {"SynReceived", "SynSent"} => s.in = 0
      BY <1>1 DEF FlowSound, Joined
    <2>3. /\ t \in Sock /\ t.role = s.role
          /\ Stage(t, {"SynReceived", "Established", "CloseWait"},
                      {"SynSent", "Established", "Closed"}, Live \cup {"Closed"})
          /\ t.st \in {"SynReceived", "SynSent"} => t.in = 0
          /\ s.st \in Ending => t.st \in Ending \cup {"Closed"} /\ t.in = s.in
          /\ s.in <= SockBuf => t.in <= SockBuf
          /\ s.role = "connect" => t.in = s.in
      BY <1>1, <1>2, <1>3, <1>6, <2>2, SegmentMoves
    <2> HIDE DEF t
    <2>4. s.in \in Nat /\ t.in \in Nat
      BY <1>2, <2>3 DEF Sock
    <2> DEFINE ended == IF t.st # "Closed" THEN n.ended[f] ELSE IF seg = "rst" THEN "reset" ELSE "last_ack"
    <2>5. PICK socks \in [Flows -> Sock], gots \in [Flows -> Int],
               ends \in [Flows -> {"none", "reset", "last_ack", "expired"}] :
             /\ socks = [n.sock EXCEPT ![f] = t]
             /\ gots = [n.got EXCEPT ![f] = n.got[f] + (t.in - s.in)]
             /\ ends = [n.ended EXCEPT ![f] = ended]
      <3>1. n.got[f] + (t.in - s.in) \in Int
        BY <1>2, <2>4
      <3>2. ended \in {"none", "reset", "last_ack", "expired"}
        BY <1>1, NetParts
      <3> HIDE DEF ended
      <3>3. QED BY <1>1, <2>3, <3>1, <3>2, NetParts
    <2>6. /\ m \in Net /\ m.sock = socks /\ m.got = gots /\ m.ended = ends
          /\ m.shared = n.shared /\ m.stream = n.stream /\ m.accepts = n.accepts
          /\ m.read = n.read /\ m.eof = n.eof
      <3>1. m = [n EXCEPT !.sock = socks, !.got = gots, !.ended = ends]
        BY <2>1, <2>5
      <3>2. QED BY <1>1, <3>1 DEF Net
    <2>7. /\ m.sock[f] = t /\ m.got[f] = n.got[f] + (t.in - s.in) /\ m.ended[f] = ended
           /\ \A h \in Flows \ {f} : m.sock[h] = n.sock[h] /\ m.got[h] = n.got[h] /\ m.ended[h] = n.ended[h]
      <3> HIDE DEF ended
      <3>1. QED BY <1>1, <2>5, <2>6, NetParts
    <2>8. Joined(t, g, n.stream[f], n.read[f], n.eof[f])
      <3>1. Joined(s, g, n.stream[f], n.read[f], n.eof[f]) /\ s.role # "none"
        BY <1>1, <1>3, <1>6 DEF FlowSound
      <3>2. g.net_closed => s.in = 0 /\ s.st \in Ending
        <4>1. s.st # "Closed"
          BY <1>1, <1>2, <3>1 DEF Settled, Stage, Live, Sock
        <4>2. QED BY <3>1, <4>1 DEF Joined, Ending
      <3>3. g.net_closed => t.in = 0 /\ t.st \in {"CloseWait", "LastAck", "Closing", "TimeWait", "Closed"}
        BY <2>3, <3>2 DEF Ending
      <3>4. QED BY <2>3, <3>1, <3>3 DEF Joined
    <2>9. Counted(t, g, m.got[f], n.read[f], m.ended[f])
      <3>1. t.st = "Closed" => m.ended[f] # "none"
        BY <2>7
      <3>2. /\ s.role # "none" /\ n.got[f] = n.read[f] + g.rx + s.in /\ s.in <= SockBuf
            /\ s.role = "connect" => s.in = 0
        BY <1>1, <1>3, <1>6 DEF FlowSound, Counted
      <3>3. g.rx \in Nat
        BY <1>2, NetBounds DEF Shared
      <3>4. m.got[f] = n.read[f] + g.rx + t.in
        BY <1>2, <2>4, <2>7, <3>2, <3>3
      <3>5. QED BY <2>3, <3>1, <3>2, <3>4 DEF Counted
    <2>10. FlowSound(m, f)
      BY <2>6, <2>7, <2>8, <2>9 DEF FlowSound
    <2>11. NetSound(m)
      <3>1. m \in Net /\ OnlyAt(f, n, m)
        BY <2>6, <2>7 DEF OnlyAt
      <3>2. QED BY <2>10, <3>1, ChangeOne
    <2>12. QED BY <2>3, <2>7, <2>11 DEF Polled, Turn
  <1>7. CASE ~(s = NoSocket /\ seg = "syn" /\ n.spare > 0 /\ n.stream[f] = "none")
             /\ ~(s.st = "SynReceived" /\ seg = "rst") /\ s = NoSocket
    <2>1. m = n
      BY <1>7 DEF poll
    <2>2. QED BY <1>7, <2>1 DEF Polled, Turn, Stage, NoSocket
  <1>8. QED BY <1>4, <1>5, <1>6, <1>7

LEMMA PromoteTurn ==
    ASSUME NEW n, NEW f \in Flows, Polled(n, f), NEW m, m = promote_listeners(n, f)
    PROVE  Promoted(m, f)
  <1> DEFINE s == n.sock[f]
             g == n.shared[f]
  <1>1. n \in Net /\ NetSound(n) /\ FlowSound(n, f) /\ \A h \in Flows \ {f} : Settled(n.sock[h])
    BY DEF Polled, Turn, NetSound
  <1>2. /\ s \in Sock /\ g \in Shared /\ n.stream[f] \in Served \cup Unserved
        /\ n.got[f] \in Int /\ n.read[f] \in Nat /\ n.eof[f] \in BOOLEAN
    BY <1>1, NetFields
  <1>3. /\ Stage(s, {"SynReceived", "Established", "CloseWait"}, {"SynSent", "Established", "Closed"},
                 Live \cup {"Closed"})
        /\ s.role = "listener" => s.st \in {"SynReceived", "Established", "CloseWait"}
    BY DEF Polled, Turn, Stage
  <1>4. CASE s.role # "listener" \/ s.st = "SynReceived"
    <2>1. m = n
      BY <1>4 DEF promote_listeners
    <2>2. Stage(s, {"SynReceived"}, {"SynSent", "Established", "Closed"}, Live \cup {"Closed"})
      BY <1>3, <1>4 DEF Stage
    <2>3. QED BY <1>1, <2>1, <2>2 DEF Promoted, Turn
  <1>5. CASE s.role = "listener" /\ s.st # "SynReceived"
    <2>1. s.st \in {"Established", "CloseWait"}
      BY <1>3, <1>5
    <2>2. n.stream[f] = "none" /\ g = NewShared /\ n.read[f] = 0 /\ ~n.eof[f]
      BY <1>1, <1>5 DEF FlowSound, Joined, Unserved
    <2>3. n.got[f] = n.read[f] + g.rx + s.in /\ s.in <= SockBuf
      BY <1>1, <1>5 DEF FlowSound, Counted
    <2>4. CASE accepting /\ Len(n.accepts) < AcceptDepth
      <3> DEFINE t == [s EXCEPT !.role = "conn"]
      <3>1. m = [n EXCEPT !.sock[f].role = "conn", !.shared[f] = NewShared,
                          !.stream[f] = "queued", !.accepts = Append(@, f)]
        BY <1>5, <2>1, <2>4 DEF promote_listeners
      <3>2. t \in Sock /\ t.role = "conn" /\ t.st = s.st /\ t.in = s.in
        BY <1>2 DEF Sock
      <3>3. NewShared \in Shared
        BY NetBounds DEF NewShared, Shared
      <3>4. PICK socks \in [Flows -> Sock], shareds \in [Flows -> Shared],
                 streams \in [Flows -> Served \cup Unserved], accepts \in Seq(Flows) :
               /\ socks = [n.sock EXCEPT ![f] = t] /\ shareds = [n.shared EXCEPT ![f] = NewShared]
               /\ streams = [n.stream EXCEPT ![f] = "queued"] /\ accepts = Append(n.accepts, f)
        <4>1. "queued" \in Served \cup Unserved
          BY DEF Served
        <4> HIDE DEF t
        <4>2. [n.sock EXCEPT ![f] = t] \in [Flows -> Sock]
          BY <1>1, <3>2, NetParts
        <4>3. [n.shared EXCEPT ![f] = NewShared] \in [Flows -> Shared]
          BY <1>1, <3>3, NetParts
        <4>4. [n.stream EXCEPT ![f] = "queued"] \in [Flows -> Served \cup Unserved]
          BY <1>1, <4>1, NetParts
        <4>5. Append(n.accepts, f) \in Seq(Flows)
          BY <1>1, NetParts
        <4>6. QED BY <4>2, <4>3, <4>4, <4>5
      <3>5. m = [n EXCEPT !.sock = socks, !.shared = shareds, !.stream = streams, !.accepts = accepts]
        BY <3>1, <3>4
      <3>6. /\ m \in Net /\ m.sock = socks /\ m.shared = shareds /\ m.stream = streams
            /\ m.accepts = accepts /\ m.got = n.got /\ m.read = n.read /\ m.eof = n.eof
            /\ m.ended = n.ended
        BY <1>1, <3>5 DEF Net
      <3> HIDE DEF t
      <3>7. /\ m.sock[f] = t /\ m.shared[f] = NewShared /\ m.stream[f] = "queued"
            /\ \A h \in Flows \ {f} : m.sock[h] = n.sock[h] /\ m.shared[h] = n.shared[h]
                                       /\ m.stream[h] = n.stream[h]
        BY <1>1, <3>4, <3>6, NetParts
      <3>8. Joined(t, NewShared, "queued", n.read[f], n.eof[f])
        BY <2>1, <2>2, <3>2 DEF Joined, NewShared, Served, Unserved
      <3>9. Counted(t, NewShared, n.got[f], n.read[f], n.ended[f])
        BY <2>1, <2>2, <2>3, <3>2 DEF Counted
      <3>10. FlowSound(m, f)
        BY <3>6, <3>7, <3>8, <3>9 DEF FlowSound
      <3>11. OnlyAt(f, n, m)
        BY <3>4, <3>6, <3>7 DEF OnlyAt, Served
      <3>12. NetSound(m)
        BY <1>1, <3>6, <3>10, <3>11, ChangeOne
      <3>13. Stage(t, {"SynReceived"}, {"SynSent", "Established", "Closed"}, Live \cup {"Closed"})
        BY <2>1, <3>2 DEF Stage, Live
      <3>14. QED BY <1>1, <3>7, <3>12, <3>13 DEF Promoted, Turn
    <2>5. CASE ~(accepting /\ Len(n.accepts) < AcceptDepth)
      <3>1. m = [n EXCEPT !.sock[f] = NoSocket, !.got[f] = 0]
        BY <1>5, <2>1, <2>5 DEF promote_listeners
      <3>2. NoSocket \in Sock
        BY DEF NoSocket, Sock, States
      <3>3. PICK socks \in [Flows -> Sock], gots \in [Flows -> Int] :
               socks = [n.sock EXCEPT ![f] = NoSocket] /\ gots = [n.got EXCEPT ![f] = 0]
        <4>1. [n.sock EXCEPT ![f] = NoSocket] \in [Flows -> Sock]
          BY <1>1, <3>2, NetParts
        <4>2. [n.got EXCEPT ![f] = 0] \in [Flows -> Int]
          BY <1>1, NetParts
        <4>3. QED BY <4>1, <4>2
      <3>4. m = [n EXCEPT !.sock = socks, !.got = gots]
        BY <3>1, <3>3
      <3>5. /\ m \in Net /\ m.sock = socks /\ m.got = gots /\ m.shared = n.shared /\ m.stream = n.stream
            /\ m.accepts = n.accepts /\ m.read = n.read /\ m.eof = n.eof /\ m.ended = n.ended
        BY <1>1, <3>4 DEF Net
      <3>6. /\ m.sock[f] = NoSocket /\ m.got[f] = 0
            /\ \A h \in Flows \ {f} : m.sock[h] = n.sock[h] /\ m.got[h] = n.got[h]
        BY <1>1, <3>3, <3>5, NetParts
      <3>7. Joined(NoSocket, NewShared, "none", 0, n.eof[f])
        BY <2>2 DEF Joined, NoSocket, NewShared, Served
      <3>8. Counted(NoSocket, NewShared, 0, 0, n.ended[f])
        BY NetBounds DEF Counted, NoSocket, NewShared
      <3>9. FlowSound(m, f)
        BY <2>2, <3>5, <3>6, <3>7, <3>8 DEF FlowSound
      <3>10. OnlyAt(f, n, m)
        BY <3>5, <3>6 DEF OnlyAt
      <3>11. NetSound(m)
        BY <1>1, <3>5, <3>9, <3>10, ChangeOne
      <3>12. QED BY <1>1, <3>6, <3>11 DEF Promoted, Turn, Stage, NoSocket
    <2>6. QED BY <2>4, <2>5
  <1>6. QED BY <1>4, <1>5

LEMMA FilledKept ==
    ASSUME NEW n, NEW m, Filled(n), m.spare = n.spare,
           \A h \in Flows : m.sock[h].role = "listener" <=> n.sock[h].role = "listener"
    PROVE  Filled(m)
  <1>1. {h \in Flows : m.sock[h].role = "listener"} = {h \in Flows : n.sock[h].role = "listener"}
    OBVIOUS
  <1>2. Pool(m) = Pool(n)
    BY <1>1 DEF Pool
  <1>3. QED BY <1>2 DEF Filled

\* The pool is full after top_up_listeners, whatever the packet of the turn did to it.
LEMMA TopUpTurn ==
    ASSUME NEW n, NEW f \in Flows, Promoted(n, f), NEW m, m = top_up_listeners(n)
    PROVE  Promoted(m, f) /\ (cfg.mode = "hub" => Filled(m))
  <1> DEFINE heard == {h \in Flows : n.sock[h].role = "listener"}
             missing == Min2(Backlog - n.spare, MaxListen - Pool(n))
  <1>1. n \in Net /\ n.spare \in Nat
    BY NetParts DEF Promoted, Turn, NetSound
  <1>2. Cardinality(heard) \in Nat
    BY NetBounds, FS_Subset, FS_CardinalityType
  <1> HIDE DEF heard
  <1>3. Pool(n) = n.spare + Cardinality(heard)
    BY DEF Pool, heard
  <1>4. Backlog \in Nat /\ MaxListen \in Nat
    BY NetBounds
  <1>5. CASE cfg.mode = "hub" /\ missing > 0
    <2>1. PICK spare \in Nat : spare = n.spare + missing
      BY <1>1, <1>2, <1>3, <1>4, <1>5 DEF Min2
    <2>2. m = [n EXCEPT !.spare = spare]
      BY <1>5, <2>1 DEF top_up_listeners
    <2>3. /\ m \in Net /\ m.spare = spare /\ m.sock = n.sock /\ m.shared = n.shared /\ m.stream = n.stream
          /\ m.accepts = n.accepts /\ m.got = n.got /\ m.read = n.read /\ m.eof = n.eof /\ m.ended = n.ended
      BY <1>1, <2>2 DEF Net
    <2>4. FlowSound(m, f) /\ OnlyAt(f, n, m)
      BY <2>3 DEF FlowSound, OnlyAt, Promoted, Turn, NetSound
    <2>5. NetSound(m)
      BY <2>3, <2>4, ChangeOne DEF Promoted, Turn
    <2>6. Pool(m) = spare + Cardinality(heard)
      BY <2>3 DEF Pool, heard
    <2>7. spare >= Backlog \/ Pool(m) >= MaxListen
      BY <1>1, <1>2, <1>3, <1>4, <2>1, <2>6 DEF Min2
    <2>8. QED BY <2>3, <2>5, <2>7 DEF Promoted, Turn, Filled
  <1>6. CASE ~(cfg.mode = "hub" /\ missing > 0)
    <2>1. m = n
      BY <1>6 DEF top_up_listeners
    <2>2. cfg.mode = "hub" => n.spare >= Backlog \/ Pool(n) >= MaxListen
      BY <1>1, <1>2, <1>3, <1>4, <1>6 DEF Min2
    <2>3. QED BY <2>1, <2>2 DEF Filled
  <1>7. QED BY <1>5, <1>6

LEMMA ResolveTurn ==
    ASSUME NEW n, NEW f \in Flows, Promoted(n, f), NEW m, m = resolve_connects(n, f)
    PROVE  Resolved(m, f) /\ (Filled(n) => Filled(m))
  <1> DEFINE s == n.sock[f]
             g == n.shared[f]
  <1>1. n \in Net /\ NetSound(n) /\ FlowSound(n, f) /\ \A h \in Flows \ {f} : Settled(n.sock[h])
    BY DEF Promoted, Turn, NetSound
  <1>2. /\ s \in Sock /\ n.got[f] \in Int /\ n.read[f] \in Nat /\ n.eof[f] \in BOOLEAN
    BY <1>1, NetFields
  <1>3. /\ Stage(s, {"SynReceived"}, {"SynSent", "Established", "Closed"}, Live \cup {"Closed"})
        /\ s.role = "connect" => s.st \in {"SynSent", "Established", "Closed"}
    BY DEF Promoted, Turn, Stage
  <1>4. s.role = "connect" =>
           /\ n.stream[f] \in {"dialing", "given_up"} /\ g = NewShared /\ n.read[f] = 0 /\ ~n.eof[f]
    BY <1>1 DEF FlowSound, Joined, Unserved
  <1>5. CASE ~(s.role = "connect" /\ s.st \in {"Established", "Closed"})
    <2>1. m = n
      BY <1>5 DEF resolve_connects
    <2>2. Stage(s, {"SynReceived"}, {"SynSent"}, Live \cup {"Closed"})
      BY <1>3, <1>5 DEF Stage
    <2>3. QED BY <1>1, <2>1, <2>2 DEF Resolved, Turn
  <1>6. CASE s.role = "connect" /\ s.st = "Established"
    <2> DEFINE t == [s EXCEPT !.role = "conn"]
               w == IF n.stream[f] = "given_up" THEN "dropped" ELSE "open"
               k == [NewShared EXCEPT !.app_shutdown = (n.stream[f] = "given_up")]
    <2>1. m = [n EXCEPT !.sock[f].role = "conn", !.shared[f] = k, !.stream[f] = w]
      BY <1>6 DEF resolve_connects
    <2>2. t \in Sock /\ t.role = "conn" /\ t.st = "Established" /\ t.in = s.in
      BY <1>2, <1>6 DEF Sock
    <2>3. /\ k \in Shared /\ k.rx = 0 /\ ~k.net_closed /\ k.reader = "idle" /\ k.writer = "idle"
      <3>1. PICK b \in BOOLEAN : b = (n.stream[f] = "given_up")
        OBVIOUS
      <3>2. k = [NewShared EXCEPT !.app_shutdown = b]
        BY <3>1
      <3>3. 0 \in 0 .. ConnCap
        BY NetBounds
      <3>4. QED BY <3>2, <3>3 DEF NewShared, Shared
    <2>4. w \in Served
      BY DEF Served
    <2> HIDE DEF t, k, w
    <2>5. PICK socks \in [Flows -> Sock], shareds \in [Flows -> Shared],
               streams \in [Flows -> Served \cup Unserved] :
             /\ socks = [n.sock EXCEPT ![f] = t] /\ shareds = [n.shared EXCEPT ![f] = k]
             /\ streams = [n.stream EXCEPT ![f] = w]
      <3>1. [n.sock EXCEPT ![f] = t] \in [Flows -> Sock]
        BY <1>1, <2>2, NetParts
      <3>2. [n.shared EXCEPT ![f] = k] \in [Flows -> Shared]
        BY <1>1, <2>3, NetParts
      <3>3. [n.stream EXCEPT ![f] = w] \in [Flows -> Served \cup Unserved]
        BY <1>1, <2>4, NetParts
      <3>4. QED BY <3>1, <3>2, <3>3
    <2>6. m = [n EXCEPT !.sock = socks, !.shared = shareds, !.stream = streams]
      BY <2>1, <2>5 DEF t
    <2>7. /\ m \in Net /\ m.spare = n.spare /\ m.sock = socks /\ m.shared = shareds /\ m.stream = streams
          /\ m.accepts = n.accepts /\ m.got = n.got /\ m.read = n.read /\ m.eof = n.eof
          /\ m.ended = n.ended
      BY <1>1, <2>6 DEF Net
    <2>8. /\ m.sock[f] = t /\ m.shared[f] = k /\ m.stream[f] = w
          /\ \A h \in Flows \ {f} : m.sock[h] = n.sock[h] /\ m.shared[h] = n.shared[h]
                                     /\ m.stream[h] = n.stream[h]
      BY <1>1, <2>5, <2>7, NetParts
    <2>9. Joined(t, k, w, n.read[f], n.eof[f])
      BY <1>4, <1>6, <2>2, <2>3, <2>4 DEF Joined, Served, Unserved
    <2>10. Counted(t, k, n.got[f], n.read[f], n.ended[f])
      <3>1. n.got[f] = n.read[f] + g.rx + s.in /\ s.in <= SockBuf
        BY <1>1, <1>6 DEF FlowSound, Counted
      <3>2. QED BY <1>4, <1>6, <2>2, <2>3, <3>1 DEF Counted, NewShared
    <2>11. FlowSound(m, f)
      BY <2>7, <2>8, <2>9, <2>10 DEF FlowSound
    <2>12. OnlyAt(f, n, m)
      BY <2>4, <2>7, <2>8 DEF OnlyAt
    <2>13. NetSound(m)
      BY <1>1, <2>7, <2>11, <2>12, ChangeOne
    <2>14. Stage(t, {"SynReceived"}, {"SynSent"}, Live \cup {"Closed"})
      BY <2>2 DEF Stage, Live
    <2>15. Resolved(m, f)
      BY <1>1, <2>8, <2>13, <2>14 DEF Resolved, Turn
    <2>16. \A h \in Flows : m.sock[h].role = "listener" <=> n.sock[h].role = "listener"
      BY <1>6, <2>2, <2>8
    <2>17. QED BY <2>7, <2>15, <2>16, FilledKept
  <1>7. CASE s.role = "connect" /\ s.st = "Closed"
    <2>1. m = [n EXCEPT !.sock[f] = NoSocket, !.stream[f] = "refused"]
      BY <1>7 DEF resolve_connects
    <2>2. NoSocket \in Sock /\ "refused" \in Served \cup Unserved
      BY DEF NoSocket, Sock, States, Unserved
    <2>3. PICK socks \in [Flows -> Sock], streams \in [Flows -> Served \cup Unserved] :
             socks = [n.sock EXCEPT ![f] = NoSocket] /\ streams = [n.stream EXCEPT ![f] = "refused"]
      <3>1. [n.sock EXCEPT ![f] = NoSocket] \in [Flows -> Sock]
        BY <1>1, <2>2, NetParts
      <3>2. [n.stream EXCEPT ![f] = "refused"] \in [Flows -> Served \cup Unserved]
        BY <1>1, <2>2, NetParts
      <3>3. QED BY <3>1, <3>2
    <2>4. m = [n EXCEPT !.sock = socks, !.stream = streams]
      BY <2>1, <2>3
    <2>5. /\ m \in Net /\ m.spare = n.spare /\ m.sock = socks /\ m.stream = streams /\ m.shared = n.shared
          /\ m.accepts = n.accepts /\ m.got = n.got /\ m.read = n.read /\ m.eof = n.eof
          /\ m.ended = n.ended
      BY <1>1, <2>4 DEF Net
    <2>6. /\ m.sock[f] = NoSocket /\ m.stream[f] = "refused"
          /\ \A h \in Flows \ {f} : m.sock[h] = n.sock[h] /\ m.stream[h] = n.stream[h]
      BY <1>1, <2>3, <2>5, NetParts
    <2>7. Joined(NoSocket, g, "refused", n.read[f], n.eof[f])
      BY <1>4, <1>7 DEF Joined, NoSocket, NewShared, Served, Unserved
    <2>8. Counted(NoSocket, g, n.got[f], n.read[f], n.ended[f])
      <3>1. n.got[f] = n.read[f] + g.rx + s.in /\ s.in = 0
        BY <1>1, <1>7 DEF FlowSound, Counted
      <3>2. n.got[f] = n.read[f] + g.rx
        BY <1>4, <1>7, <3>1 DEF NewShared
      <3>3. QED BY <3>2, NetBounds DEF Counted, NoSocket
    <2>9. FlowSound(m, f)
      BY <2>5, <2>6, <2>7, <2>8 DEF FlowSound
    <2>10. OnlyAt(f, n, m)
      BY <1>4, <1>7, <2>5, <2>6 DEF OnlyAt, Served
    <2>11. NetSound(m)
      BY <1>1, <2>5, <2>9, <2>10, ChangeOne
    <2>12. Resolved(m, f)
      BY <1>1, <2>6, <2>11 DEF Resolved, Turn, Stage, NoSocket
    <2>13. \A h \in Flows : m.sock[h].role = "listener" <=> n.sock[h].role = "listener"
      BY <1>7, <2>6 DEF NoSocket
    <2>14. QED BY <2>5, <2>12, <2>13, FilledKept
  <1>8. QED BY <1>5, <1>6, <1>7

\* One pass over the connections leaves none of them over, and no sleeper unattended.
LEMMA ServiceTurn ==
    ASSUME NEW n, NEW f \in Flows, Resolved(n, f), NEW m, m = service_conns(n)
    PROVE  /\ NetSound(m)
           /\ \A h \in Flows : Settled(m.sock[h]) /\ Attended(m.sock[h], m.shared[h])
           /\ Filled(n) => Filled(m)
  <1> DEFINE Serves(h) == n.sock[h].role = "conn"
             r(h) == ServeConn(n.sock[h], n.shared[h])
  <1>1. n \in Net /\ NetSound(n)
    BY DEF Resolved, Turn, NetSound
  <1>2. \A h \in Flows : n.sock[h] \in Sock /\ n.shared[h] \in Shared /\ FlowSound(n, h)
    BY <1>1, NetFields DEF NetSound
  <1>3. \A h \in Flows : Stage(n.sock[h], {"SynReceived"}, {"SynSent"}, Live \cup {"Closed"})
    BY DEF Resolved, Turn, Settled, Stage
  <1>4. m = [n EXCEPT !.sock = [h \in Flows |-> IF Serves(h) THEN r(h).sock ELSE n.sock[h]],
                      !.shared = [h \in Flows |-> IF Serves(h) THEN r(h).shared ELSE n.shared[h]]]
    BY DEF service_conns
  <1>5. ASSUME NEW h \in Flows, Serves(h)
        PROVE  PassEffect(n.sock[h], n.shared[h], r(h).sock, r(h).shared)
    <2>1. n.sock[h].st \in Live \cup {"Closed"}
      BY <1>3, <1>5 DEF Stage
    <2>2. QED BY <1>2, <1>5, <2>1, ServeConnEffect
  <1> HIDE DEF r
  <1>6. PICK socks \in [Flows -> Sock], shareds \in [Flows -> Shared] :
           /\ socks = [h \in Flows |-> IF Serves(h) THEN r(h).sock ELSE n.sock[h]]
           /\ shareds = [h \in Flows |-> IF Serves(h) THEN r(h).shared ELSE n.shared[h]]
    <2>1. \A h \in Flows : Serves(h) => r(h).sock \in Sock /\ r(h).shared \in Shared
      BY <1>5 DEF PassEffect
    <2>2. QED BY <1>2, <2>1
  <1>7. m = [n EXCEPT !.sock = socks, !.shared = shareds]
    BY <1>4, <1>6
  <1>8. /\ m \in Net /\ m.spare = n.spare /\ m.sock = socks /\ m.shared = shareds /\ m.stream = n.stream
        /\ m.accepts = n.accepts /\ m.got = n.got /\ m.read = n.read /\ m.eof = n.eof /\ m.ended = n.ended
    BY <1>1, <1>7 DEF Net
  <1>9. ASSUME NEW h \in Flows
        PROVE  /\ FlowSound(m, h) /\ Settled(m.sock[h]) /\ Attended(m.sock[h], m.shared[h])
               /\ m.sock[h].role = "listener" <=> n.sock[h].role = "listener"
    <2> DEFINE s == n.sock[h]
               g == n.shared[h]
               w == n.stream[h]
    <2>1. /\ s \in Sock /\ g \in Shared /\ n.got[h] \in Int /\ n.read[h] \in Nat /\ n.eof[h] \in BOOLEAN
          /\ w \in Served \cup Unserved
      BY <1>1, NetFields
    <2>2. Joined(s, g, w, n.read[h], n.eof[h]) /\ Counted(s, g, n.got[h], n.read[h], n.ended[h])
      BY <1>2 DEF FlowSound
    <2>3. CASE ~Serves(h)
      <3>1. m.sock[h] = s /\ m.shared[h] = g
        BY <1>6, <1>8, <2>3
      <3>2. g.reader = "idle"
        <4>1. w \in Unserved => g.reader = "idle"
          BY <2>2 DEF Joined, NewShared
        <4>2. w \in Served => g.net_closed
          BY <2>2, <2>3 DEF Joined
        <4>3. g.reader = "asleep" => ~g.net_closed
          BY <2>2 DEF Joined
        <4>4. g.reader \in {"idle", "asleep"}
          BY <2>1 DEF Shared
        <4>5. QED BY <2>1, <4>1, <4>2, <4>3, <4>4
      <3>3. Attended(s, g)
        BY <2>3, <3>2 DEF Attended
      <3>4. Settled(s)
        BY <1>3, <2>3 DEF Stage, Settled
      <3>5. QED BY <1>8, <2>2, <3>1, <3>3, <3>4 DEF FlowSound
    <2>4. CASE Serves(h)
      <3> DEFINE t == r(h).sock
                 k == r(h).shared
      <3>1. m.sock[h] = t /\ m.shared[h] = k
        BY <1>6, <1>8, <2>4
      <3>2. PICK moved \in 0 .. s.in, pushed \in Nat :
                  /\ t \in Sock /\ k \in Shared
                  /\ t.role \in {"none", "conn"} /\ Settled(t)
                  /\ k.rx = g.rx + moved /\ k.tx = g.tx - pushed
                  /\ s.st = "Closed" => t.role = "none"
                  /\ t.role = "conn" => t.in = s.in - moved
                  /\ t.role = "none" =>
                        k.net_closed /\ (moved = s.in \/ (s.st = "Closed" /\ k.rx = ConnCap))
                  /\ s.st \in Ending => t.role = "none" \/ t.st \in Ending
                  /\ k.net_closed => g.net_closed \/ t.role = "none" \/ (t.in = 0 /\ t.st \in Ending)
                  /\ g.net_closed => k.net_closed
                  /\ k.reader = "asleep" =>
                        /\ g.reader = "asleep" /\ moved = 0 /\ k.net_closed = g.net_closed
                        /\ (g.rx = 0 => s.in = 0)
                  /\ k.writer = "asleep" =>
                        /\ t.role = "conn" /\ g.writer = "asleep" /\ pushed = 0
                        /\ (g.tx > 0 => ~can_send(t))
        BY <1>5, <2>4 DEF PassEffect
      <3> HIDE DEF t, k
      <3>3. s.in \in Nat /\ g.rx \in Nat /\ g.tx \in Nat /\ moved \in Nat /\ moved <= s.in
        BY <2>1, <3>2, NetBounds DEF Sock, Shared
      <3>4. w \in Served /\ w \notin Unserved
        BY <2>2, <2>4 DEF Joined, Served, Unserved
      <3>5. g.net_closed => s.in = 0 /\ moved = 0 /\ s.st \in Ending \cup {"Closed"}
        BY <2>2, <2>4, <3>3 DEF Joined, Ending
      <3>6. t.role = "none" => t = NoSocket
        BY <3>2 DEF Settled, Stage
      <3>7. t.role = "conn" => t.st \in Live
        BY <3>2 DEF Settled, Stage
      <3>8. t.st \notin {"SynReceived", "SynSent", "Closed"}
        BY <3>2, <3>6, <3>7 DEF Live, NoSocket
      <3>9. k.net_closed => t.role = "none" \/ (t.in = 0 /\ t.st \in Ending)
        <4>1. CASE g.net_closed /\ t.role = "conn"
          <5>1. s.st # "Closed"
            BY <3>2, <4>1
          <5>2. QED BY <3>2, <3>3, <3>5, <4>1, <5>1
        <4>2. QED BY <3>2, <4>1
      <3>10. n.eof[h] => k.net_closed /\ k.rx = 0
        BY <2>2, <3>2, <3>3, <3>5 DEF Joined
      <3>11. k.reader = "asleep" => k.rx = 0 /\ ~k.net_closed /\ t.in = 0
        BY <2>2, <3>2, <3>3, <3>6 DEF Joined, NoSocket
      <3>12. k.writer = "asleep" => k.tx > 0 /\ ~can_send(t)
        BY <2>2, <2>4, <3>2, <3>3 DEF Joined
      <3>13. Joined(t, k, w, n.read[h], n.eof[h])
        BY <3>2, <3>4, <3>8, <3>9, <3>10, <3>11, <3>12 DEF Joined, Ending
      <3>14. /\ n.got[h] = n.read[h] + g.rx + s.in /\ s.in <= SockBuf
             /\ s.st = "Closed" => n.ended[h] # "none"
        BY <2>2, <2>4 DEF Counted
      <3>15. Counted(t, k, n.got[h], n.read[h], n.ended[h])
        <4>1. SockBuf \in Nat /\ ConnCap \in Nat
          BY NetBounds
        <4>2. CASE t.role = "conn"
          <5>1. n.got[h] = n.read[h] + k.rx + t.in /\ t.in <= SockBuf
            BY <2>1, <3>2, <3>3, <3>14, <4>1, <4>2
          <5>2. QED BY <3>8, <4>2, <5>1 DEF Counted
        <4>3. CASE t.role = "none"
          <5>1. t.in = 0 /\ t.in <= SockBuf
            BY <3>6, <4>1, <4>3 DEF NoSocket
          <5>2. n.got[h] = n.read[h] + k.rx \/ Cut(n.read[h] + k.rx, n.got[h], n.ended[h])
            <6>1. CASE moved = s.in
              BY <2>1, <3>2, <3>3, <3>14, <6>1
            <6>2. CASE moved # s.in /\ s.st = "Closed" /\ k.rx = ConnCap
              <7>1. n.got[h] - (n.read[h] + k.rx) = s.in - moved
                BY <2>1, <3>2, <3>3, <3>14
              <7>2. s.in - moved \in 1 .. SockBuf
                BY <3>3, <3>14, <4>1, <6>2
              <7>3. n.read[h] + k.rx >= ConnCap
                BY <2>1, <4>1, <6>2
              <7>4. QED BY <3>14, <6>2, <7>1, <7>2, <7>3 DEF Cut
            <6>3. QED BY <3>2, <4>3, <6>1, <6>2
          <5>3. QED BY <3>8, <4>3, <5>1, <5>2 DEF Counted
        <4>4. QED BY <3>2, <4>2, <4>3
      <3>16. Attended(t, k)
        BY <3>11, <3>12 DEF Attended
      <3>17. QED BY <1>8, <2>4, <3>1, <3>2, <3>13, <3>15, <3>16 DEF FlowSound
    <2>5. QED BY <2>3, <2>4
  <1>10. NetSound(m)
    BY <1>1, <1>8, <1>9 DEF NetSound
  <1>11. Filled(n) => Filled(m)
    BY <1>8, <1>9, FilledKept
  <1>12. QED BY <1>9, <1>10, <1>11

LEMMA PumpTurn ==
    ASSUME NEW n, NEW f \in Flows, Polled(n, f), Pump(n, f)
    PROVE  /\ NetSound(net')
           /\ \A h \in Flows : Settled(net'.sock[h]) /\ Attended(net'.sock[h], net'.shared[h])
           /\ cfg.mode = "hub" => Filled(net')
  <1>1. PICK a : a = promote_listeners(n, f)
    OBVIOUS
  <1>2. PICK b : b = top_up_listeners(a)
    OBVIOUS
  <1>3. PICK c : c = resolve_connects(b, f)
    OBVIOUS
  <1>4. net' = service_conns(c)
    BY <1>1, <1>2, <1>3 DEF Pump, service
  <1>5. Promoted(a, f)
    BY <1>1, PromoteTurn
  <1>6. Promoted(b, f) /\ (cfg.mode = "hub" => Filled(b))
    BY <1>2, <1>5, TopUpTurn
  <1>7. Resolved(c, f) /\ (cfg.mode = "hub" => Filled(c))
    BY <1>3, <1>6, ResolveTurn
  <1>8. QED BY <1>4, <1>7, ServiceTurn

-------------------------------------------------------------------------------
(* The stack's part of the invariant, step by step *)

LEMMA StackSound ==
    ASSUME StackInv
    PROVE  NetSound(net) /\ \A h \in Flows : Settled(net.sock[h])
  BY DEF StackInv, NetSound

\* A turn of the driver.
LEMMA DriverKeeps ==
    ASSUME StackInv, UNCHANGED <<cfg, taken>>, NEW n, NEW f \in Flows, Polled(n, f), Pump(n, f),
           kick' \in BOOLEAN,
           cfg.device = "netstack" => toLocal' \in Seq(TcpPacket)
    PROVE  StackInv'
  <1>1. /\ NetSound(net')
        /\ \A h \in Flows : Settled(net'.sock[h]) /\ Attended(net'.sock[h], net'.shared[h])
        /\ cfg.mode = "hub" => Filled(net')
    BY PumpTurn
  <1>2. PeerIds(cfg)' = PeerIds(cfg)
    BY DEF PeerIds
  <1>3. /\ net' \in Net
        /\ \A h \in Flows : FlowSound(net', h)
        /\ \A i \in DOMAIN net'.accepts : net'.stream[net'.accepts[i]] \in Served
    BY <1>1 DEF NetSound
  <1>4. QED BY <1>1, <1>2, <1>3 DEF StackInv

\* A step of the proxy that touches one stream and no socket.
LEMMA ProxyKeeps ==
    ASSUME StackInv, UNCHANGED meshVars, NEW f \in Flows,
           net' \in Net, net'.spare = net.spare, net'.sock = net.sock,
           net'.got = net.got, net'.ended = net.ended, OnlyAt(f, net, net'),
           Joined(net.sock[f], net'.shared[f], net'.stream[f], net'.read[f], net'.eof[f]),
           net'.read[f] + net'.shared[f].rx = net.read[f] + net.shared[f].rx,
           kick' \in BOOLEAN, kick => kick', kick' \/ net'.shared[f] = net.shared[f]
    PROVE  StackInv'
  <1>1. NetSound(net) /\ \A h \in Flows : Settled(net.sock[h])
    BY StackSound
  <1>2. FlowSound(net', f)
    <2>1. net \in Net /\ Counted(net.sock[f], net.shared[f], net.got[f], net.read[f], net.ended[f])
      BY <1>1 DEF NetSound, FlowSound
    <2>2. net.sock[f] \in Sock /\ net.shared[f] \in Shared /\ net.read[f] \in Nat
          /\ net'.shared[f] \in Shared /\ net'.read[f] \in Nat
      BY <2>1, NetFields
    <2>3. net.sock[f].in \in Nat /\ net.shared[f].rx \in Nat /\ net'.shared[f].rx \in Nat
      BY <2>2, NetBounds DEF Sock, Shared
    <2>4. Counted(net'.sock[f], net'.shared[f], net'.got[f], net'.read[f], net'.ended[f])
      <3>1. net'.read[f] + net'.shared[f].rx + net.sock[f].in
              = net.read[f] + net.shared[f].rx + net.sock[f].in
        BY <2>2, <2>3
      <3>2. QED BY <2>1, <3>1 DEF Counted
    <2>5. QED BY <2>4 DEF FlowSound
  <1>3. NetSound(net')
    BY <1>1, <1>2, ChangeOne
  <1>4. ~kick' => \A h \in Flows : Attended(net'.sock[h], net'.shared[h])
    BY DEF StackInv, OnlyAt
  <1>5. cfg.device = "netstack" /\ cfg.mode = "hub" => Filled(net')
    BY FilledKept DEF StackInv
  <1>6. PeerIds(cfg)' = PeerIds(cfg) /\ UNCHANGED <<cfg, taken, toLocal>>
    BY DEF PeerIds, meshVars
  <1>7. /\ \A h \in Flows : FlowSound(net', h)
        /\ \A i \in DOMAIN net'.accepts : net'.stream[net'.accepts[i]] \in Served
    BY <1>3 DEF NetSound
  <1>8. QED BY <1>1, <1>4, <1>5, <1>6, <1>7 DEF StackInv

LEMMA DriverPacketStack ==
    ASSUME StackInv, DriverPacket
    PROVE  StackInv'
  <1>1. cfg.device = "netstack" /\ toLocal # <<>> /\ toLocal \in Seq(TcpPacket)
    BY DEF DriverPacket, Stack, StackInv
  <1>2. PICK f \in Flows, seg \in {Head(toLocal).seg} : f = Head(toLocal).flow /\ seg = Head(toLocal).seg
    <2>1. Head(toLocal) \in TcpPacket
      BY <1>1
    <2>2. Head(toLocal).flow \in Flows
      BY <2>1 DEF TcpPacket
    <2>3. QED BY <2>2
  <1>3. PICK n : n = poll(net, f, seg)
    OBVIOUS
  <1>4. Polled(n, f)
    BY <1>3, StackSound, PollTurn
  <1>5. Pump(n, f) /\ UNCHANGED <<cfg, taken>> /\ kick' = kick /\ toLocal' = Tail(toLocal)
    BY <1>2, <1>3 DEF DriverPacket
  <1>6. toLocal' \in Seq(TcpPacket) /\ kick' \in BOOLEAN
    BY <1>1, <1>5 DEF StackInv
  <1>7. QED BY <1>4, <1>5, <1>6, DriverKeeps

LEMMA DriverNotifiedStack ==
    ASSUME StackInv, DriverNotified
    PROVE  StackInv'
  <1>1. PICK f \in Flows : Pump(net, f)
    BY DEF DriverNotified
  <1>2. Polled(net, f)
    BY StackSound DEF Polled, Turn, Settled, Stage
  <1>3. UNCHANGED <<cfg, taken>> /\ kick' \in BOOLEAN /\ toLocal' = toLocal
    BY DEF DriverNotified
  <1>4. cfg.device = "netstack" => toLocal' \in Seq(TcpPacket)
    BY <1>3 DEF StackInv
  <1>5. QED BY <1>1, <1>2, <1>3, <1>4, DriverKeeps

LEMMA DriverConnectStack ==
    ASSUME StackInv, NEW f \in Flows, DriverConnect(f)
    PROVE  StackInv'
  <1> DEFINE t == Socket("connect", "SynSent")
  <1>1. PICK n : n = [net EXCEPT !.sock[f] = t, !.stream[f] = "dialing"]
    OBVIOUS
  <1>2. Pump(n, f) /\ net.stream[f] = "none" /\ net.sock[f] = NoSocket
        /\ UNCHANGED <<cfg, taken, toLocal, kick>>
    BY <1>1 DEF DriverConnect
  <1>3. net \in Net /\ NetSound(net) /\ FlowSound(net, f) /\ \A h \in Flows : Settled(net.sock[h])
    BY StackSound DEF NetSound
  <1>4. t \in Sock /\ t.role = "connect" /\ t.st = "SynSent" /\ t.in = 0 /\ "dialing" \in Served \cup Unserved
    BY DEF Socket, Sock, States, Unserved
  <1> HIDE DEF t
  <1>5. PICK socks \in [Flows -> Sock], streams \in [Flows -> Served \cup Unserved] :
           socks = [net.sock EXCEPT ![f] = t] /\ streams = [net.stream EXCEPT ![f] = "dialing"]
    <2>1. [net.sock EXCEPT ![f] = t] \in [Flows -> Sock]
      BY <1>3, <1>4, NetParts
    <2>2. [net.stream EXCEPT ![f] = "dialing"] \in [Flows -> Served \cup Unserved]
      BY <1>3, <1>4, NetParts
    <2>3. QED BY <2>1, <2>2
  <1>6. n = [net EXCEPT !.sock = socks, !.stream = streams]
    BY <1>1, <1>5
  <1>7. /\ n \in Net /\ n.sock = socks /\ n.stream = streams /\ n.shared = net.shared
        /\ n.accepts = net.accepts /\ n.got = net.got /\ n.read = net.read /\ n.eof = net.eof
        /\ n.ended = net.ended
    BY <1>3, <1>6 DEF Net
  <1>8. /\ n.sock[f] = t /\ n.stream[f] = "dialing"
        /\ \A h \in Flows \ {f} : n.sock[h] = net.sock[h] /\ n.stream[h] = net.stream[h]
    BY <1>3, <1>5, <1>7, NetParts
  <1>9. Joined(t, net.shared[f], "dialing", net.read[f], net.eof[f])
    <2>1. net.shared[f] = NewShared /\ net.read[f] = 0 /\ ~net.eof[f]
      BY <1>2, <1>3 DEF FlowSound, Joined, Unserved
    <2>2. QED BY <1>4, <2>1 DEF Joined, NewShared, Served
  <1>10. Counted(t, net.shared[f], net.got[f], net.read[f], net.ended[f])
    <2>1. net.shared[f] = NewShared /\ net.read[f] = 0
      BY <1>2, <1>3 DEF FlowSound, Joined, Unserved
    <2>2. net.got[f] = 0
      BY <1>2, <1>3, <2>1, NetFields, NothingKept DEF FlowSound
    <2>3. QED BY <1>4, <2>1, <2>2, NetBounds DEF Counted, NewShared
  <1>11. FlowSound(n, f)
    BY <1>7, <1>8, <1>9, <1>10 DEF FlowSound
  <1>12. OnlyAt(f, net, n)
    BY <1>2, <1>7, <1>8 DEF OnlyAt, Served
  <1>13. NetSound(n)
    BY <1>3, <1>7, <1>11, <1>12, ChangeOne
  <1>14. Polled(n, f)
    BY <1>3, <1>4, <1>8, <1>13 DEF Polled, Turn, Stage
  <1>15. kick' \in BOOLEAN /\ (cfg.device = "netstack" => toLocal' \in Seq(TcpPacket))
    BY <1>2 DEF StackInv
  <1>16. QED BY <1>2, <1>14, <1>15, DriverKeeps

LEMMA DriverTimerStack ==
    ASSUME StackInv, NEW f \in Flows, DriverTimer(f)
    PROVE  StackInv'
  <1> DEFINE s == net.sock[f]
             t == [s EXCEPT !.st = "Closed"]
  <1>1. PICK n : n = [net EXCEPT !.sock[f].st = "Closed", !.ended[f] = "expired"]
    OBVIOUS
  <1>2. Pump(n, f) /\ s.st = "TimeWait" /\ UNCHANGED <<cfg, taken, toLocal, kick>>
    BY <1>1 DEF DriverTimer
  <1>3. net \in Net /\ NetSound(net) /\ FlowSound(net, f) /\ \A h \in Flows : Settled(net.sock[h])
    BY StackSound DEF NetSound
  <1>4. s \in Sock
    BY <1>3, NetFields
  <1>5. s.role = "conn"
    BY <1>2, <1>3, <1>4 DEF Settled, Stage, Sock, NoSocket
  <1>6. t \in Sock /\ t.role = "conn" /\ t.st = "Closed" /\ t.in = s.in
    BY <1>4, <1>5 DEF Sock, States
  <1> HIDE DEF t
  <1>7. PICK socks \in [Flows -> Sock], ends \in [Flows -> {"none", "reset", "last_ack", "expired"}] :
           socks = [net.sock EXCEPT ![f] = t] /\ ends = [net.ended EXCEPT ![f] = "expired"]
    <2>1. [net.sock EXCEPT ![f] = t] \in [Flows -> Sock]
      BY <1>3, <1>6, NetParts
    <2>2. [net.ended EXCEPT ![f] = "expired"] \in [Flows -> {"none", "reset", "last_ack", "expired"}]
      BY <1>3, NetParts
    <2>3. QED BY <2>1, <2>2
  <1>8. n = [net EXCEPT !.sock = socks, !.ended = ends]
    BY <1>1, <1>7 DEF t
  <1>9. /\ n \in Net /\ n.sock = socks /\ n.stream = net.stream /\ n.shared = net.shared
        /\ n.accepts = net.accepts /\ n.got = net.got /\ n.read = net.read /\ n.eof = net.eof
        /\ n.ended = ends
    BY <1>3, <1>8 DEF Net
  <1>10. /\ n.sock[f] = t /\ n.ended[f] = "expired"
         /\ \A h \in Flows \ {f} : n.sock[h] = net.sock[h] /\ n.ended[h] = net.ended[h]
    BY <1>3, <1>7, <1>9, NetParts
  <1>11. Joined(t, net.shared[f], net.stream[f], net.read[f], net.eof[f])
    BY <1>2, <1>3, <1>5, <1>6 DEF FlowSound, Joined
  <1>12. FlowSound(n, f)
    <2>1. Counted(t, net.shared[f], net.got[f], net.read[f], "expired")
      BY <1>3, <1>5, <1>6 DEF FlowSound, Counted
    <2>2. QED BY <1>9, <1>10, <1>11, <2>1 DEF FlowSound
  <1>13. OnlyAt(f, net, n)
    BY <1>9, <1>10 DEF OnlyAt
  <1>14. NetSound(n)
    BY <1>3, <1>9, <1>12, <1>13, ChangeOne
  <1>15. Polled(n, f)
    BY <1>3, <1>6, <1>10, <1>14 DEF Polled, Turn, Stage
  <1>16. kick' \in BOOLEAN /\ (cfg.device = "netstack" => toLocal' \in Seq(TcpPacket))
    BY <1>2 DEF StackInv
  <1>17. QED BY <1>2, <1>15, <1>16, DriverKeeps

\* Facts that the steps of a stream start from.
LEMMA StreamFacts ==
    ASSUME StackInv, NEW f \in Flows
    PROVE  /\ net \in Net /\ kick \in BOOLEAN
           /\ net.sock[f] \in Sock /\ net.shared[f] \in Shared
           /\ net.read[f] \in Nat /\ net.eof[f] \in BOOLEAN /\ net.wrote[f] \in Nat
           /\ net.shared[f].rx \in 0 .. ConnCap /\ net.shared[f].tx \in Nat
           /\ ConnCap \in Nat /\ ConnCap > 0
           /\ Joined(net.sock[f], net.shared[f], net.stream[f], net.read[f], net.eof[f])
  <1>1. net \in Net /\ kick \in BOOLEAN /\ FlowSound(net, f)
    BY DEF StackInv
  <1>2. net.sock[f] \in Sock /\ net.shared[f] \in Shared /\ net.read[f] \in Nat /\ net.eof[f] \in BOOLEAN
    BY <1>1, NetFields
  <1>3. net.wrote[f] \in Nat
    BY <1>1 DEF Net
  <1>4. net.shared[f].rx \in 0 .. ConnCap /\ net.shared[f].tx \in Nat
    BY <1>2 DEF Shared
  <1>5. QED BY <1>1, <1>2, <1>3, <1>4, NetBounds DEF FlowSound

\* Changes of one entry of a function.
At(f, old, new) == \A h \in Flows \ {f} : new[h] = old[h]

\* A step that changes the shared half of stream f, or what the application saw of it.
LEMMA SharedStep ==
    ASSUME StackInv, NEW f \in Flows, Open(f),
           NEW shared \in [Flows -> Shared], At(f, net.shared, shared),
           NEW stream \in [Flows -> Served \cup Unserved], At(f, net.stream, stream), stream[f] \in Served,
           NEW read \in [Flows -> Nat], At(f, net.read, read),
           NEW wrote \in [Flows -> Nat],
           NEW eof \in [Flows -> BOOLEAN], At(f, net.eof, eof),
           NEW notified \in BOOLEAN, notified \/ shared[f] = net.shared[f],
           Proxy([net EXCEPT !.shared = shared, !.stream = stream, !.read = read, !.wrote = wrote,
                             !.eof = eof], notified),
           Joined(net.sock[f], shared[f], stream[f], read[f], eof[f]),
           read[f] + shared[f].rx = net.read[f] + net.shared[f].rx
    PROVE  StackInv'
  <1>1. net \in Net /\ kick \in BOOLEAN
    BY DEF StackInv
  <1>2. PICK n : n = [net EXCEPT !.shared = shared, !.stream = stream, !.read = read, !.wrote = wrote,
                                 !.eof = eof]
    OBVIOUS
  <1>3. net' = n /\ kick' = (kick \/ notified) /\ UNCHANGED meshVars
    BY <1>2 DEF Proxy
  <1>4. /\ n \in Net /\ n.spare = net.spare /\ n.sock = net.sock /\ n.got = net.got
        /\ n.ended = net.ended /\ n.accepts = net.accepts
        /\ n.shared = shared /\ n.stream = stream /\ n.read = read /\ n.eof = eof
    BY <1>1, <1>2 DEF Net
  <1>5. OnlyAt(f, net, n)
    BY <1>4 DEF OnlyAt, At
  <1>6. kick' \in BOOLEAN /\ (kick => kick') /\ (kick' \/ n.shared[f] = net.shared[f])
    BY <1>1, <1>3, <1>4
  <1>7. /\ Joined(net.sock[f], n.shared[f], n.stream[f], n.read[f], n.eof[f])
        /\ n.read[f] + n.shared[f].rx = net.read[f] + net.shared[f].rx
    BY <1>4
  <1>8. QED BY <1>3, <1>4, <1>5, <1>6, <1>7, ProxyKeeps

\* The common case: the step puts k in place of the shared half and tells the driver.
LEMMA PutShared ==
    ASSUME StackInv, NEW f \in Flows, Open(f), NEW k \in Shared, k.rx = net.shared[f].rx,
           Proxy([net EXCEPT !.shared = [net.shared EXCEPT ![f] = k]], TRUE),
           Joined(net.sock[f], k, net.stream[f], net.read[f], net.eof[f])
    PROVE  StackInv'
  <1>1. net \in Net
    BY DEF StackInv
  <1>2. PICK shared \in [Flows -> Shared] : shared = [net.shared EXCEPT ![f] = k]
    BY <1>1, NetParts
  <1>3. shared[f] = k /\ At(f, net.shared, shared)
    BY <1>1, <1>2, NetParts DEF At
  <1>4. [net EXCEPT !.shared = shared]
          = [net EXCEPT !.shared = shared, !.stream = net.stream, !.read = net.read,
                        !.wrote = net.wrote, !.eof = net.eof]
    BY <1>1 DEF Net
  <1>5. /\ net.stream \in [Flows -> Served \cup Unserved] /\ net.read \in [Flows -> Nat]
        /\ net.wrote \in [Flows -> Nat] /\ net.eof \in [Flows -> BOOLEAN]
    BY <1>1 DEF Net
  <1>6. At(f, net.stream, net.stream) /\ At(f, net.read, net.read) /\ At(f, net.eof, net.eof)
    BY DEF At
  <1>7. net.stream[f] \in Served
    BY DEF Open, Served
  <1>8. Proxy([net EXCEPT !.shared = shared, !.stream = net.stream, !.read = net.read,
                          !.wrote = net.wrote, !.eof = net.eof], TRUE)
    BY <1>2, <1>4
  <1>9. net.read[f] + shared[f].rx = net.read[f] + net.shared[f].rx
    BY <1>3
  <1>10. QED BY <1>2, <1>3, <1>5, <1>6, <1>7, <1>8, <1>9, SharedStep

LEMMA PollReadStack ==
    ASSUME StackInv, NEW f \in Flows, poll_read(f)
    PROVE  StackInv'
  <1> DEFINE g == net.shared[f]
  <1>1. /\ net \in Net /\ net.sock[f] \in Sock /\ g \in Shared
        /\ net.read[f] \in Nat /\ net.eof[f] \in BOOLEAN
        /\ g.rx \in 0 .. ConnCap /\ g.tx \in Nat /\ ConnCap \in Nat
        /\ Joined(net.sock[f], g, net.stream[f], net.read[f], net.eof[f])
    BY StreamFacts
  <1>2. Open(f) /\ g.reader = "idle" /\ ~net.eof[f] /\ net.stream[f] = "open"
    BY DEF poll_read, Open
  <1>3. /\ net.stream \in [Flows -> Served \cup Unserved] /\ net.read \in [Flows -> Nat]
        /\ net.wrote \in [Flows -> Nat] /\ net.eof \in [Flows -> BOOLEAN]
        /\ net.shared \in [Flows -> Shared]
    BY <1>1 DEF Net
  <1>4. /\ At(f, net.stream, net.stream) /\ At(f, net.read, net.read) /\ At(f, net.eof, net.eof)
        /\ At(f, net.shared, net.shared)
    BY DEF At
  <1>5. net.stream[f] \in Served
    BY <1>2 DEF Served
  <1>6. CASE g.rx > 0 /\ Proxy([net EXCEPT !.shared[f].rx = @ - 1, !.read[f] = @ + 1], TRUE)
    <2> DEFINE k == [g EXCEPT !.rx = @ - 1]
    <2>1. k \in Shared /\ k.rx = g.rx - 1 /\ k.reader = "idle" /\ k.net_closed = g.net_closed
          /\ k.writer = g.writer /\ k.tx = g.tx
      <3>1. g.rx - 1 \in 0 .. ConnCap
        BY <1>1, <1>6
      <3>2. QED BY <1>1, <1>2, <3>1 DEF Shared
    <2> HIDE DEF k
    <2>2. PICK shared \in [Flows -> Shared], read \in [Flows -> Nat] :
             shared = [net.shared EXCEPT ![f] = k] /\ read = [net.read EXCEPT ![f] = net.read[f] + 1]
      <3>1. [net.shared EXCEPT ![f] = k] \in [Flows -> Shared]
        BY <1>3, <2>1
      <3>2. [net.read EXCEPT ![f] = net.read[f] + 1] \in [Flows -> Nat]
        BY <1>1, <1>3
      <3>3. QED BY <3>1, <3>2
    <2>3. [net EXCEPT !.shared[f].rx = @ - 1, !.read[f] = @ + 1]
            = [net EXCEPT !.shared = shared, !.read = read]
      BY <2>2 DEF k
    <2>4. [net EXCEPT !.shared = shared, !.read = read]
            = [net EXCEPT !.shared = shared, !.stream = net.stream, !.read = read,
                          !.wrote = net.wrote, !.eof = net.eof]
      BY <1>1 DEF Net
    <2>5. Proxy([net EXCEPT !.shared = shared, !.stream = net.stream, !.read = read,
                            !.wrote = net.wrote, !.eof = net.eof], TRUE)
      BY <1>6, <2>3, <2>4
    <2>6. /\ shared[f] = k /\ At(f, net.shared, shared)
          /\ read[f] = net.read[f] + 1 /\ At(f, net.read, read)
      BY <1>3, <2>2 DEF At
    <2>7. Joined(net.sock[f], k, net.stream[f], net.read[f] + 1, net.eof[f])
      BY <1>1, <1>2, <2>1 DEF Joined, Served, Unserved
    <2>8. read[f] + shared[f].rx = net.read[f] + net.shared[f].rx
      BY <1>1, <2>1, <2>6
    <2>9. Joined(net.sock[f], shared[f], net.stream[f], read[f], net.eof[f])
      BY <2>6, <2>7
    <2>10. QED BY <1>2, <1>3, <1>4, <1>5, <2>2, <2>5, <2>6, <2>8, <2>9, SharedStep
  <1>7. CASE g.rx = 0 /\ g.net_closed /\ Proxy([net EXCEPT !.eof[f] = TRUE], FALSE)
    <2>1. PICK eof \in [Flows -> BOOLEAN] : eof = [net.eof EXCEPT ![f] = TRUE]
      BY <1>3
    <2>2. [net EXCEPT !.eof[f] = TRUE]
            = [net EXCEPT !.shared = net.shared, !.stream = net.stream, !.read = net.read,
                          !.wrote = net.wrote, !.eof = eof]
      BY <1>1, <2>1 DEF Net
    <2>3. Proxy([net EXCEPT !.shared = net.shared, !.stream = net.stream, !.read = net.read,
                            !.wrote = net.wrote, !.eof = eof], FALSE)
      BY <1>7, <2>2
    <2>4. eof[f] /\ At(f, net.eof, eof)
      BY <1>3, <2>1 DEF At
    <2>5. Joined(net.sock[f], g, net.stream[f], net.read[f], eof[f])
      BY <1>1, <1>2, <1>7 DEF Joined, Unserved
    <2>6. QED BY <1>2, <1>3, <1>4, <1>5, <2>1, <2>3, <2>4, <2>5, SharedStep
  <1>8. CASE g.rx = 0 /\ ~g.net_closed /\ Proxy([net EXCEPT !.shared[f].reader = "asleep"], TRUE)
    <2> DEFINE k == [g EXCEPT !.reader = "asleep"]
    <2>1. k \in Shared /\ k.rx = g.rx /\ k.reader = "asleep" /\ k.net_closed = g.net_closed
          /\ k.writer = g.writer /\ k.tx = g.tx
      BY <1>1 DEF Shared
    <2>2. Proxy([net EXCEPT !.shared = [net.shared EXCEPT ![f] = k]], TRUE)
      BY <1>8
    <2> HIDE DEF k
    <2>3. Joined(net.sock[f], k, net.stream[f], net.read[f], net.eof[f])
      BY <1>1, <1>2, <1>8, <2>1 DEF Joined, Unserved
    <2>4. QED BY <1>2, <2>1, <2>2, <2>3, PutShared
  <1>9. QED BY <1>6, <1>7, <1>8 DEF poll_read

LEMMA PollWriteStack ==
    ASSUME StackInv, NEW f \in Flows, poll_write(f) \/ poll_flush(f) \/ poll_shutdown(f)
    PROVE  StackInv'
  <1> DEFINE g == net.shared[f]
  <1>1. /\ net \in Net /\ net.sock[f] \in Sock /\ g \in Shared /\ net.wrote[f] \in Nat
        /\ g.tx \in Nat /\ ConnCap \in Nat /\ ConnCap > 0
        /\ Joined(net.sock[f], g, net.stream[f], net.read[f], net.eof[f])
    BY StreamFacts
  <1>2. Open(f) /\ g.writer = "idle" /\ net.stream[f] = "open"
    BY DEF poll_write, poll_flush, poll_shutdown, Open
  <1>3. CASE g.tx > 0 /\ Proxy([net EXCEPT !.shared[f].writer = "asleep"], TRUE)
    <2> DEFINE k == [g EXCEPT !.writer = "asleep"]
    <2>1. k \in Shared /\ k.rx = g.rx /\ k.reader = g.reader /\ k.net_closed = g.net_closed
          /\ k.writer = "asleep" /\ k.tx = g.tx
      BY <1>1 DEF Shared
    <2>2. Proxy([net EXCEPT !.shared = [net.shared EXCEPT ![f] = k]], TRUE)
      BY <1>3
    <2> HIDE DEF k
    <2>3. Joined(net.sock[f], k, net.stream[f], net.read[f], net.eof[f])
      BY <1>1, <1>2, <1>3, <2>1 DEF Joined, Unserved
    <2>4. QED BY <1>2, <2>1, <2>2, <2>3, PutShared
  <1>4. CASE Proxy([net EXCEPT !.shared[f].app_shutdown = TRUE], TRUE)
    <2> DEFINE k == [g EXCEPT !.app_shutdown = TRUE]
    <2>1. k \in Shared /\ k.rx = g.rx /\ k.reader = g.reader /\ k.net_closed = g.net_closed
          /\ k.writer = "idle" /\ k.tx = g.tx
      BY <1>1, <1>2 DEF Shared
    <2>2. Proxy([net EXCEPT !.shared = [net.shared EXCEPT ![f] = k]], TRUE)
      BY <1>4
    <2> HIDE DEF k
    <2>3. Joined(net.sock[f], k, net.stream[f], net.read[f], net.eof[f])
      BY <1>1, <1>2, <2>1 DEF Joined, Unserved
    <2>4. QED BY <1>2, <2>1, <2>2, <2>3, PutShared
  <1>5. CASE Proxy([net EXCEPT !.shared[f].tx = @ + 1, !.wrote[f] = @ + 1], TRUE)
    <2> DEFINE k == [g EXCEPT !.tx = @ + 1]
    <2>1. k \in Shared /\ k.rx = g.rx /\ k.reader = g.reader /\ k.net_closed = g.net_closed
          /\ k.writer = "idle" /\ k.tx = g.tx + 1
      <3>1. g.tx + 1 \in Nat
        BY <1>1
      <3>2. QED BY <1>1, <1>2, <3>1 DEF Shared
    <2> HIDE DEF k
    <2>2. /\ net.stream \in [Flows -> Served \cup Unserved] /\ net.read \in [Flows -> Nat]
          /\ net.wrote \in [Flows -> Nat] /\ net.eof \in [Flows -> BOOLEAN]
          /\ net.shared \in [Flows -> Shared]
      BY <1>1 DEF Net
    <2>3. PICK shared \in [Flows -> Shared], wrote \in [Flows -> Nat] :
             shared = [net.shared EXCEPT ![f] = k] /\ wrote = [net.wrote EXCEPT ![f] = net.wrote[f] + 1]
      <3>1. [net.shared EXCEPT ![f] = k] \in [Flows -> Shared]
        BY <2>1, <2>2
      <3>2. [net.wrote EXCEPT ![f] = net.wrote[f] + 1] \in [Flows -> Nat]
        BY <1>1, <2>2
      <3>3. QED BY <3>1, <3>2
    <2>4. [net EXCEPT !.shared[f].tx = @ + 1, !.wrote[f] = @ + 1]
            = [net EXCEPT !.shared = shared, !.wrote = wrote]
      BY <2>3 DEF k
    <2>5. [net EXCEPT !.shared = shared, !.wrote = wrote]
            = [net EXCEPT !.shared = shared, !.stream = net.stream, !.read = net.read,
                          !.wrote = wrote, !.eof = net.eof]
      BY <1>1 DEF Net
    <2>6. Proxy([net EXCEPT !.shared = shared, !.stream = net.stream, !.read = net.read,
                            !.wrote = wrote, !.eof = net.eof], TRUE)
      BY <1>5, <2>4, <2>5
    <2>7. /\ shared[f] = k /\ At(f, net.shared, shared)
          /\ At(f, net.stream, net.stream) /\ At(f, net.read, net.read) /\ At(f, net.eof, net.eof)
      BY <2>2, <2>3 DEF At
    <2>8. Joined(net.sock[f], shared[f], net.stream[f], net.read[f], net.eof[f])
      BY <1>1, <1>2, <2>1, <2>7 DEF Joined, Unserved
    <2>9. net.read[f] + shared[f].rx = net.read[f] + g.rx /\ net.stream[f] \in Served
      BY <1>2, <2>1, <2>7 DEF Served
    <2>10. QED BY <1>2, <2>2, <2>6, <2>7, <2>8, <2>9, SharedStep
  <1>6. poll_write(f) => \/ Proxy([net EXCEPT !.shared[f].tx = @ + 1, !.wrote[f] = @ + 1], TRUE)
                         \/ g.tx > 0 /\ Proxy([net EXCEPT !.shared[f].writer = "asleep"], TRUE)
    <2>1. ~(g.tx < ConnCap) => g.tx > 0
      BY <1>1
    <2>2. QED BY <2>1 DEF poll_write
  <1>7. QED BY <1>3, <1>4, <1>5, <1>6 DEF poll_flush, poll_shutdown

LEMMA DropStack ==
    ASSUME StackInv, NEW f \in Flows, DropStream(f)
    PROVE  StackInv'
  <1> DEFINE g == net.shared[f]
             k == [g EXCEPT !.app_shutdown = TRUE]
  <1>1. /\ net \in Net /\ net.sock[f] \in Sock /\ g \in Shared
        /\ Joined(net.sock[f], g, net.stream[f], net.read[f], net.eof[f])
    BY StreamFacts
  <1>2. Open(f) /\ net.stream[f] = "open"
    BY DEF DropStream, Open
  <1>3. k \in Shared /\ k.rx = g.rx /\ k.reader = g.reader /\ k.net_closed = g.net_closed
        /\ k.writer = g.writer /\ k.tx = g.tx
    BY <1>1 DEF Shared
  <1> HIDE DEF k
  <1>4. /\ net.stream \in [Flows -> Served \cup Unserved] /\ net.read \in [Flows -> Nat]
        /\ net.wrote \in [Flows -> Nat] /\ net.eof \in [Flows -> BOOLEAN]
        /\ net.shared \in [Flows -> Shared]
    BY <1>1 DEF Net
  <1>5. PICK shared \in [Flows -> Shared], stream \in [Flows -> Served \cup Unserved] :
           shared = [net.shared EXCEPT ![f] = k] /\ stream = [net.stream EXCEPT ![f] = "dropped"]
    <2>1. [net.shared EXCEPT ![f] = k] \in [Flows -> Shared]
      BY <1>3, <1>4
    <2>2. [net.stream EXCEPT ![f] = "dropped"] \in [Flows -> Served \cup Unserved]
      BY <1>4 DEF Served
    <2>3. QED BY <2>1, <2>2
  <1>6. [net EXCEPT !.stream[f] = "dropped", !.shared[f].app_shutdown = TRUE]
          = [net EXCEPT !.stream = stream, !.shared = shared]
    BY <1>5 DEF k
  <1>7. [net EXCEPT !.stream = stream, !.shared = shared]
          = [net EXCEPT !.shared = shared, !.stream = stream, !.read = net.read,
                        !.wrote = net.wrote, !.eof = net.eof]
    BY <1>1 DEF Net
  <1>8. Proxy([net EXCEPT !.shared = shared, !.stream = stream, !.read = net.read,
                          !.wrote = net.wrote, !.eof = net.eof], TRUE)
    BY <1>6, <1>7 DEF DropStream
  <1>9. /\ shared[f] = k /\ At(f, net.shared, shared) /\ stream[f] = "dropped" /\ At(f, net.stream, stream)
        /\ At(f, net.read, net.read) /\ At(f, net.eof, net.eof)
    BY <1>4, <1>5 DEF At
  <1>10. Joined(net.sock[f], shared[f], stream[f], net.read[f], net.eof[f])
    BY <1>1, <1>2, <1>3, <1>9 DEF Joined, Served, Unserved
  <1>11. net.read[f] + shared[f].rx = net.read[f] + g.rx /\ stream[f] \in Served
    BY <1>3, <1>9 DEF Served
  <1>12. QED BY <1>2, <1>4, <1>5, <1>8, <1>9, <1>10, <1>11, SharedStep

LEMMA GiveUpStack ==
    ASSUME StackInv, NEW f \in Flows, GiveUp(f)
    PROVE  StackInv'
  <1>1. /\ net \in Net /\ kick \in BOOLEAN
        /\ Joined(net.sock[f], net.shared[f], net.stream[f], net.read[f], net.eof[f])
    BY StreamFacts
  <1>2. PICK stream \in [Flows -> Served \cup Unserved] : stream = [net.stream EXCEPT ![f] = "given_up"]
    BY <1>1, NetParts DEF Unserved
  <1>3. PICK n : n = [net EXCEPT !.stream = stream]
    OBVIOUS
  <1>4. net' = n /\ kick' = kick /\ UNCHANGED meshVars /\ net.stream[f] = "dialing"
    BY <1>1, <1>2, <1>3 DEF GiveUp, Proxy
  <1>5. /\ n \in Net /\ n.spare = net.spare /\ n.sock = net.sock /\ n.got = net.got
        /\ n.ended = net.ended /\ n.accepts = net.accepts
        /\ n.shared = net.shared /\ n.stream = stream /\ n.read = net.read /\ n.eof = net.eof
    BY <1>1, <1>3 DEF Net
  <1>6. n.stream[f] = "given_up" /\ \A h \in Flows \ {f} : n.stream[h] = net.stream[h]
    BY <1>1, <1>2, <1>5, NetParts
  <1>7. OnlyAt(f, net, n)
    BY <1>4, <1>5, <1>6 DEF OnlyAt, Served
  <1>8. Joined(net.sock[f], n.shared[f], n.stream[f], n.read[f], n.eof[f])
    BY <1>1, <1>4, <1>5, <1>6 DEF Joined, Served, Unserved
  <1>9. QED BY <1>1, <1>4, <1>5, <1>7, <1>8, ProxyKeeps

\* A step of the accept loop: streams go from one served state to another.
LEMMA AcceptKeeps ==
    ASSUME StackInv, UNCHANGED meshVars, UNCHANGED kick,
           NEW accepts \in Seq(Flows), NEW stream \in [Flows -> Served \cup Unserved],
           net' = [net EXCEPT !.accepts = accepts, !.stream = stream],
           \A h \in Flows : \/ stream[h] = net.stream[h]
                            \/ stream[h] \in Served /\ net.stream[h] \in Served,
           \A i \in DOMAIN accepts : \E j \in DOMAIN net.accepts : accepts[i] = net.accepts[j]
    PROVE  StackInv'
  <1>1. net \in Net
    BY DEF StackInv
  <1>2. /\ net' \in Net /\ net'.spare = net.spare /\ net'.sock = net.sock /\ net'.got = net.got
        /\ net'.ended = net.ended /\ net'.accepts = accepts
        /\ net'.shared = net.shared /\ net'.stream = stream /\ net'.read = net.read /\ net'.eof = net.eof
    BY <1>1 DEF Net
  <1>3. \A h \in Flows : FlowSound(net, h) /\ net.stream[h] \in Served \cup Unserved
    BY <1>1, NetParts DEF StackInv
  <1>4. ASSUME NEW h \in Flows PROVE FlowSound(net', h)
    <2>1. CASE stream[h] = net.stream[h]
      BY <1>2, <1>3, <2>1 DEF FlowSound
    <2>2. CASE stream[h] \in Served /\ net.stream[h] \in Served
      <3>1. Joined(net.sock[h], net.shared[h], net.stream[h], net.read[h], net.eof[h])
        BY <1>3 DEF FlowSound
      <3>2. Joined(net.sock[h], net.shared[h], stream[h], net.read[h], net.eof[h])
        BY <2>2, <3>1 DEF Joined, Served, Unserved
      <3>3. QED BY <1>2, <1>3, <3>2 DEF FlowSound
    <2>3. QED BY <2>1, <2>2
  <1>5. ASSUME NEW i \in DOMAIN accepts PROVE stream[accepts[i]] \in Served
    <2>1. PICK j \in DOMAIN net.accepts : accepts[i] = net.accepts[j]
      OBVIOUS
    <2>2. net.stream[accepts[i]] \in Served /\ accepts[i] \in Flows
      BY <2>1 DEF StackInv
    <2>3. QED BY <2>2
  <1>6. PeerIds(cfg)' = PeerIds(cfg) /\ UNCHANGED <<cfg, taken, toLocal>>
    BY DEF PeerIds, meshVars
  <1>7. cfg.device = "netstack" /\ cfg.mode = "hub" => Filled(net')
    <2>1. cfg.device = "netstack" /\ cfg.mode = "hub" => Filled(net)
      BY DEF StackInv
    <2>2. \A h \in Flows : net'.sock[h].role = "listener" <=> net.sock[h].role = "listener"
      BY <1>2
    <2>3. net'.spare = net.spare
      BY <1>2
    <2>4. PICK n : n = net'
      OBVIOUS
    <2>5. Filled(net) => Filled(n)
      <3>1. n.spare = net.spare /\ \A h \in Flows : n.sock[h].role = "listener" <=> net.sock[h].role = "listener"
        BY <2>2, <2>3, <2>4
      <3>2. QED BY <3>1, FilledKept
    <2>6. QED BY <2>1, <2>4, <2>5
  <1>8. QED BY <1>2, <1>4, <1>5, <1>6, <1>7 DEF StackInv

LEMMA AcceptStack ==
    ASSUME StackInv, Accept
    PROVE  StackInv'
  <1>1. net \in Net /\ net.accepts \in Seq(Flows) /\ net.accepts # <<>> /\ kick \in BOOLEAN
    BY NetParts DEF StackInv, Accept
  <1>2. PICK f \in Flows : f = Head(net.accepts) /\ f = net.accepts[1] /\ 1 \in DOMAIN net.accepts
    BY <1>1
  <1>3. net.stream[f] \in Served
    BY <1>2 DEF StackInv
  <1>4. PICK stream \in [Flows -> Served \cup Unserved] : stream = [net.stream EXCEPT ![f] = "open"]
    BY <1>1, NetParts DEF Served
  <1>5. PICK accepts \in Seq(Flows) : accepts = Tail(net.accepts)
    <2>1. Tail(net.accepts) \in Seq(Flows)
      BY <1>1
    <2>2. QED BY <2>1
  <1>6. UNCHANGED meshVars /\ UNCHANGED kick
        /\ net' = [net EXCEPT !.accepts = Tail(@), !.stream[Head(net.accepts)] = "open"]
    BY <1>1 DEF Accept, Proxy
  <1>7. net' = [net EXCEPT !.accepts = accepts, !.stream = stream]
    BY <1>2, <1>4, <1>5, <1>6
  <1>8. \A h \in Flows : stream[h] = net.stream[h] \/ (stream[h] \in Served /\ net.stream[h] \in Served)
    BY <1>1, <1>3, <1>4, NetParts DEF Served
  <1>9. \A i \in DOMAIN accepts : \E j \in DOMAIN net.accepts : accepts[i] = net.accepts[j]
    <2>1. ASSUME NEW i \in DOMAIN accepts
          PROVE  i + 1 \in DOMAIN net.accepts /\ accepts[i] = net.accepts[i + 1]
      BY <1>1, <1>5
    <2>2. QED BY <2>1
  <1>10. UNCHANGED meshVars /\ UNCHANGED kick
    BY <1>6
  <1>11. QED BY <1>7, <1>8, <1>9, <1>10, AcceptKeeps

LEMMA StopAcceptingStack ==
    ASSUME StackInv, StopAccepting
    PROVE  StackInv'
  <1>1. net \in Net
    BY DEF StackInv
  <1>2. PICK stream \in [Flows -> Served \cup Unserved] :
           stream = [f \in Flows |-> IF net.stream[f] = "queued" THEN "open" ELSE net.stream[f]]
    BY <1>1, NetParts DEF Served
  <1>3. net' = [net EXCEPT !.accepts = <<>>, !.stream = stream] /\ UNCHANGED meshVars /\ UNCHANGED kick
    BY <1>2 DEF StopAccepting
  <1>4. \A h \in Flows : stream[h] = net.stream[h] \/ (stream[h] \in Served /\ net.stream[h] \in Served)
    BY <1>2 DEF Served
  <1>5. <<>> \in Seq(Flows) /\ \A i \in DOMAIN <<>> : \E j \in DOMAIN net.accepts : <<>>[i] = net.accepts[j]
    OBVIOUS
  <1>6. QED BY <1>3, <1>4, <1>5, AcceptKeeps

-------------------------------------------------------------------------------
(* The whole node *)

LEMMA StackInvInit == Init => StackInv
  <1>1. SUFFICES ASSUME Init PROVE StackInv
    OBVIOUS
  <1>2. NoSocket \in Sock /\ Settled(NoSocket) /\ NewShared \in Shared
    <2>1. 0 \in 0 .. ConnCap
      BY NetBounds
    <2>2. QED BY <2>1 DEF NoSocket, Sock, States, NewShared, Shared, Settled, Stage
  <1>3. /\ net.spare = IF cfg.device = "netstack" /\ cfg.mode = "hub" THEN Backlog ELSE 0
        /\ net.accepts = <<>>
        /\ net.sock = [f \in Flows |-> NoSocket] /\ net.shared = [f \in Flows |-> NewShared]
        /\ net.stream = [f \in Flows |-> "none"]
        /\ net.got = [f \in Flows |-> 0] /\ net.read = [f \in Flows |-> 0]
        /\ net.eof = [f \in Flows |-> FALSE]
        /\ kick = FALSE
    BY <1>1 DEF Init
  <1>4. net \in Net
    <2>1. /\ (IF cfg.device = "netstack" /\ cfg.mode = "hub" THEN Backlog ELSE 0) \in Nat
          /\ "none" \in Served \cup Unserved
      BY NetBounds DEF Unserved
    <2>2. QED BY <1>1, <1>2, <2>1 DEF Init, Net
  <1>5. Joined(NoSocket, NewShared, "none", 0, FALSE)
    BY DEF Joined, NoSocket, NewShared, Served, Unserved
  <1>6. \A e : Counted(NoSocket, NewShared, 0, 0, e)
    BY NetBounds DEF Counted, NoSocket, NewShared
  <1>7. \A f \in Flows : Settled(net.sock[f]) /\ FlowSound(net, f)
    BY <1>2, <1>3, <1>5, <1>6 DEF FlowSound
  <1>8. Attended(NoSocket, NewShared)
    BY DEF Attended, NoSocket, NewShared
  <1>9. cfg.device = "netstack" /\ cfg.mode = "hub" => Filled(net)
    BY <1>3, NetBounds DEF Filled
  <1>10. taken \in [PeerIds(cfg) -> SUBSET Nat] /\ toLocal \in Seq(TcpPacket)
    BY <1>1 DEF Init, MeshInit
  <1>11. \A f \in Flows : Attended(net.sock[f], net.shared[f])
    BY <1>3, <1>8
  <1>12. \A i \in DOMAIN net.accepts : net.stream[net.accepts[i]] \in Served
    BY <1>3
  <1>13. kick \in BOOLEAN
    BY <1>3
  <1>14. QED BY <1>4, <1>7, <1>9, <1>10, <1>11, <1>12, <1>13 DEF StackInv

\* Steps below the stack.
LEMMA MeshStack ==
    ASSUME DatagramShape, cfg \in Configs, StackInv, MeshNext, UNCHANGED netVars
    PROVE  StackInv'
  <1>1. UNCHANGED <<cfg, net, kick>>
    BY DEF MeshNext, Inbound, Outbound, send_keepalives, ReactorExit, PumpToDevice, PumpStop,
           PumpFromDevice, netVars
  <1>2. PeerIds(cfg)' = PeerIds(cfg)
    BY <1>1 DEF PeerIds
  <1>3. ASSUME cfg.device = "netstack"
        PROVE  taken' \in [PeerIds(cfg) -> SUBSET Nat] /\ toLocal' \in Seq(TcpPacket)
    <2>1. taken \in [PeerIds(cfg) -> SUBSET Nat] /\ toLocal \in Seq(TcpPacket)
      BY <1>3 DEF StackInv
    <2>2. ASSUME NEW d \in Datagrams(cfg, taken), Inbound(d)
          PROVE  taken' \in [PeerIds(cfg) -> SUBSET Nat] /\ toLocal' \in Seq(TcpPacket)
      <3>1. d.id \in Nat /\ (d.inner.kind = "ip" => d.inner \in TcpPacket)
        BY <1>3, <2>1 DEF DatagramShape
      <3>2. taken' \in [PeerIds(cfg) -> SUBSET Nat]
        BY <2>1, <2>2, <3>1 DEF Inbound
      <3>3. toLocal' = toLocal \/ (d.inner.kind = "ip" /\ toLocal' = Append(toLocal, d.inner))
        BY <2>2 DEF Inbound, Send
      <3>4. QED BY <2>1, <3>1, <3>2, <3>3
    <2>3. CASE Outbound \/ send_keepalives \/ ReactorExit \/ PumpToDevice \/ PumpStop
               \/ \E packet \in HostPackets : PumpFromDevice(packet)
      BY <1>3, <2>1, <2>3 DEF Outbound, send_keepalives, ReactorExit, PumpToDevice, PumpStop, PumpFromDevice
    <2>4. QED BY <2>2, <2>3 DEF MeshNext
  <1>4. QED BY <1>1, <1>2, <1>3 DEF StackInv

LEMMA IInvNext ==
    ASSUME DatagramShape
    PROVE  OverlayInv /\ [Next]_vars => OverlayInv'
  <1>1. SUFFICES ASSUME OverlayInv, [Next]_vars PROVE StackInv'
    BY MeshInvNext DEF OverlayInv
  <1>2. StackInv /\ cfg \in Configs
    BY <1>1 DEF OverlayInv, MeshInv
  <1>3. CASE MeshNext /\ UNCHANGED netVars
    BY <1>2, <1>3, MeshStack
  <1>4. CASE DriverPacket
    BY <1>2, <1>4, DriverPacketStack
  <1>5. CASE DriverNotified
    BY <1>2, <1>5, DriverNotifiedStack
  <1>6. CASE \E f \in Dialled(cfg) : DriverConnect(f)
    BY <1>2, <1>6, NetBounds, DriverConnectStack
  <1>7. CASE \E f \in Flows : DriverTimer(f)
    BY <1>2, <1>7, DriverTimerStack
  <1>8. CASE Accept \/ StopAccepting
    BY <1>2, <1>8, AcceptStack, StopAcceptingStack
  <1>9. CASE Streams
    BY <1>2, <1>9, GiveUpStack, PollReadStack, PollWriteStack, DropStack DEF Streams
  <1>10. CASE UNCHANGED vars
    <2>1. UNCHANGED <<cfg, taken, toLocal, net, kick>> /\ PeerIds(cfg)' = PeerIds(cfg)
      BY <1>10 DEF vars, meshVars, netVars, PeerIds
    <2>2. QED BY <1>2, <2>1 DEF StackInv
  <1>11. QED BY <1>1, <1>3, <1>4, <1>5, <1>6, <1>7, <1>8, <1>9, <1>10 DEF Next

\* The promise on top_up_listeners, for every backlog and every cap of the pool: the next SYN
\* finds a listening socket unless MAX_LISTEN_SOCKETS handshakes are under way.
THEOREM SynStaysServed ==
    ASSUME DatagramShape
    PROVE  Spec => []SynFindsListener
  <1>1. Init => OverlayInv
    BY MeshInvInit, StackInvInit DEF OverlayInv
  <1>2. OverlayInv /\ [Next]_vars => OverlayInv'
    BY IInvNext
  <1>3. OverlayInv => SynFindsListener
    <2>1. SUFFICES ASSUME OverlayInv, cfg.device = "netstack", cfg.mode = "hub", net.spare = 0
                   PROVE  Cardinality({f \in Flows : net.sock[f].st = "SynReceived"}) >= MaxListen
      BY DEF SynFindsListener
    <2>2. net \in Net /\ Filled(net) /\ \A f \in Flows : Settled(net.sock[f])
      BY <2>1 DEF OverlayInv, StackInv
    <2>3. \A f \in Flows : net.sock[f].st = "SynReceived" <=> net.sock[f].role = "listener"
      BY <2>2, NetFields DEF Settled, Stage, Sock, Live, NoSocket
    <2>4. PICK heard : heard = {f \in Flows : net.sock[f].role = "listener"}
      OBVIOUS
    <2>5. {f \in Flows : net.sock[f].st = "SynReceived"} = heard
      BY <2>3, <2>4
    <2>6. Cardinality(heard) \in Nat
      BY <2>4, NetBounds, FS_Subset, FS_CardinalityType
    <2>7. Pool(net) = net.spare + Cardinality(heard)
      BY <2>4 DEF Pool
    <2>8. Cardinality(heard) >= MaxListen
      BY <2>1, <2>2, <2>6, <2>7, NetBounds DEF Filled
    <2>9. QED BY <2>5, <2>8
  <1>4. QED BY <1>1, <1>2, <1>3, PTL DEF Spec, vars

\* For every size of the buffers: end of file comes after every byte that was acknowledged to
\* the peer, except for at most SOCKET_BUF that a closed socket held behind a full read buffer
\* when service_conns removed it, which takes a stream of more than CONN_BUF_CAP; no reader
\* sleeps over bytes or the end of the stream, and no writer sleeps over a socket that has room.
\* A writer of a stream whose socket is gone may sleep.
THEOREM StreamsStayIntact ==
    ASSUME DatagramShape
    PROVE  Spec => []StreamIntact
  <1>1. Init => OverlayInv
    BY MeshInvInit, StackInvInit DEF OverlayInv
  <1>2. OverlayInv /\ [Next]_vars => OverlayInv'
    BY IInvNext
  <1>3. OverlayInv => StreamIntact
    <2> DEFINE Ended(f) == net.eof[f] => net.read[f] = net.got[f] \/ CutShort(f)
               Reads(f) == net.shared[f].reader = "asleep" /\ ~kick =>
                  net.shared[f].rx = 0 /\ ~net.shared[f].net_closed /\ net.sock[f].in = 0
               Writes(f) == net.shared[f].writer = "asleep" /\ ~kick =>
                  /\ net.shared[f].tx > 0
                  /\ IF net.sock[f].role = "conn" THEN ~can_send(net.sock[f]) ELSE Abandoned(f)
    <2>1. SUFFICES ASSUME OverlayInv, NEW f \in Flows
                   PROVE  Ended(f) /\ Reads(f) /\ Writes(f)
      BY DEF StreamIntact
    <2>2. /\ net \in Net /\ Settled(net.sock[f])
          /\ Joined(net.sock[f], net.shared[f], net.stream[f], net.read[f], net.eof[f])
          /\ Counted(net.sock[f], net.shared[f], net.got[f], net.read[f], net.ended[f])
          /\ ~kick => Attended(net.sock[f], net.shared[f])
      BY <2>1 DEF OverlayInv, StackInv, FlowSound
    <2>3. /\ net.got[f] \in Int /\ net.read[f] \in Nat /\ net.sock[f] \in Sock
          /\ net.stream[f] \in Served \cup Unserved
      BY <2>2, NetFields
    <2>4. Ended(f)
      <3>1. net.eof[f] => net.shared[f].rx = 0 /\ net.sock[f].in = 0
        BY <2>2 DEF Joined, Settled, Stage, NoSocket
      <3>2. net.eof[f] =>
              \/ net.got[f] = net.read[f] + 0 \/ net.got[f] = net.read[f] + 0 + 0
              \/ Cut(net.read[f] + 0, net.got[f], net.ended[f])
        BY <2>2, <3>1 DEF Counted
      <3>3. net.read[f] + 0 = net.read[f] /\ net.read[f] + 0 + 0 = net.read[f]
        BY <2>3
      <3>4. QED BY <3>2, <3>3 DEF Cut, CutShort
    <2>5. Reads(f)
      BY <2>2 DEF Joined, Attended
    <2>6. Writes(f)
      <3>1. net.shared[f].writer = "asleep" => net.stream[f] \notin Unserved
        BY <2>2 DEF Joined, NewShared
      <3>2. net.shared[f].writer = "asleep" /\ net.sock[f].role # "conn" =>
              net.shared[f].net_closed /\ net.sock[f].role = "none"
        BY <2>2, <2>3, <3>1 DEF Joined, Sock, Served, Unserved
      <3>3. net.sock[f].role = "none" => net.sock[f] = NoSocket
        BY <2>2 DEF Settled, Stage
      <3>4. QED BY <2>2, <3>2, <3>3 DEF Joined, Attended, Abandoned
    <2>7. QED BY <2>4, <2>5, <2>6
  <1>4. QED BY <1>1, <1>2, <1>3, PTL DEF Spec, vars

===============================================================================
