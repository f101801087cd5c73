---------------------------- MODULE SubnetraSession ----------------------------
(***************************************************************************)
(* One directional Subnetra link: the TxSession of one node, the datagram  *)
(* network, and the RxSession of its peer (src/src/subnetra/session.rs,    *)
(* wire.rs, crypto.rs).                                                    *)
(*                                                                         *)
(* A sealed body is represented by what was sealed: the epoch of the       *)
(* session key, the sequence number used as the AEAD nonce and the inner   *)
(* packet.  The cleartext header travels beside it and may be damaged on   *)
(* the way, so the receiver is handed an arbitrary header together with    *)
(* any body still in the network; AEAD opens a body only under the key and *)
(* the nonce that sealed it.  The network loses, duplicates and reorders.  *)
(* Both ends may restart: the sender samples a later boot epoch and counts *)
(* from 1 again, the receiver forgets everything.                          *)
(***************************************************************************)
EXTENDS SubnetraReplay

CONSTANTS MaxEpoch,      \* bound on the boot epochs a run can sample
          MaxSeq,        \* the largest value of the counter; 2^64 - 1 in the code
          Payload        \* inner packets

ASSUME SessionAssumption ==
    /\ MaxEpoch \in Nat \ {0}
    /\ MaxSeq \in Nat \ {0}
    /\ Payload # {}

VARIABLES
    tx,          \* TxSession: its boot epoch and next sequence number
    sealed,      \* every body sealed so far (history)
    wire,        \* bodies still in the network
    rx,          \* RxSession: cur_epoch and replay window
    delivered    \* how often each (epoch, seq) was accepted since the
                 \* receiver started (history)

sessionVars == <<tx, sealed, wire, rx, delivered>>

Epoch == 1 .. MaxEpoch
Seq1  == 1 .. MaxSeq

Body == [epoch : Epoch, seq : Seq1, pay : Payload]

\* A header as parsed from the wire: any value of the two fields.
Header == [epoch : 0 .. MaxEpoch, seq : 0 .. MaxSeq]

TypeOK ==
    /\ tx \in [epoch : Epoch, next_seq : Seq1]
    /\ sealed \subseteq Body
    /\ wire \subseteq sealed
    /\ rx \in [cur_epoch : 0 .. MaxEpoch, replay : ReplayWindow]
    /\ delivered \in [Epoch \X Seq1 -> Nat]

NothingDelivered == [id \in Epoch \X Seq1 |-> 0]

\* TxSession::new with the boot epoch e.
NewTx(e) == [epoch |-> e, next_seq |-> 1]

\* RxSession::new
NewRx == [cur_epoch |-> 0, replay |-> EmptyWindow]

SessionInit ==
    /\ tx = NewTx(1)
    /\ sealed = {}
    /\ wire = {}
    /\ rx = NewRx
    /\ delivered = NothingDelivered

-------------------------------------------------------------------------------
(* The two AEAD and header facts the receive path relies on. *)

\* Faulty variant: one session key for every epoch.
OpensUnderAnyEpoch(header, body) == header.seq = body.seq

\* AeadKey::open under session_key(link_key, epoch) and nonce seq.
Opens(header, body) == header.epoch = body.epoch /\ header.seq = body.seq

\* Header::is_valid: epoch 0 is never legal on the wire.
IsValid(header) == header.epoch # 0

\* u64::saturating_add(1)
SaturatingSucc(n) == IF n < MaxSeq THEN n + 1 ELSE n

-------------------------------------------------------------------------------
(* TxSession *)

\* TxSession::seal: one datagram leaves under the next sequence number.
Seal(pay) ==
    LET body == [epoch |-> tx.epoch, seq |-> tx.next_seq, pay |-> pay]
    IN  /\ sealed' = sealed \cup {body}
        /\ wire' = wire \cup {body}
        /\ tx' = [tx EXCEPT !.next_seq = SaturatingSucc(@)]
        /\ UNCHANGED <<rx, delivered>>

\* The sending process restarts and samples a later boot epoch.
RestartTx ==
    /\ \E e \in Epoch : e > tx.epoch /\ tx' = NewTx(e)
    /\ UNCHANGED <<sealed, wire, rx, delivered>>

-------------------------------------------------------------------------------
(* RxSession *)

\* Faulty variant: the stale-epoch arm is missing.
AuthenticatesAnyEpoch(header, body) == IsValid(header) /\ Opens(header, body)

\* Ordering::Less is dropped before any cryptography; a body that does not
\* authenticate is dropped in both other arms.
Authenticates(header, body) ==
    /\ IsValid(header)
    /\ header.epoch >= rx.cur_epoch
    /\ Opens(header, body)

\* Faulty variants: the window is reset on every datagram, or never.
WindowAlwaysReset(header) == EmptyWindow
WindowNeverReset(header)  == rx.replay

\* The window check_and_set is applied to: the current one in the same epoch,
\* a reset one when a newer epoch is adopted.
WindowFor(header) ==
    IF header.epoch > rx.cur_epoch THEN EmptyWindow ELSE rx.replay

\* RxSession::accept returning Accept: the (possibly new) epoch is adopted and
\* the sequence number recorded.
AcceptDatagram(header, body) ==
    /\ Authenticates(header, body)
    /\ IsFresh(WindowFor(header), header.seq)
    /\ rx' = [cur_epoch |-> header.epoch,
              replay    |-> Record(WindowFor(header), header.seq)]
    /\ delivered' = [delivered EXCEPT ![<<header.epoch, header.seq>>] = @ + 1]

\* RxSession::accept returning Drop: a stale epoch, a body that does not open,
\* or an authentic replay.  In the last case a newer epoch would already be
\* adopted; check_and_set then runs on an empty window and cannot refuse.
Drop(header, body) ==
    /\ \/ ~Authenticates(header, body)
       \/ ~IsFresh(WindowFor(header), header.seq)
    /\ UNCHANGED <<rx, delivered>>

\* The network hands over some body under some header.  The body stays in the
\* network, where it can be duplicated or (Lose) disappear.
Receive(header, body) ==
    /\ body \in wire
    /\ AcceptDatagram(header, body) \/ Drop(header, body)
    /\ UNCHANGED <<tx, sealed, wire>>

\* A datagram is lost.
Lose(body) ==
    /\ body \in wire
    /\ wire' = wire \ {body}
    /\ UNCHANGED <<tx, sealed, rx, delivered>>

\* The receiving process restarts with RxSession::new.
RestartRx ==
    /\ rx' = NewRx
    /\ delivered' = NothingDelivered
    /\ UNCHANGED <<tx, sealed, wire>>

SessionNext ==
    \/ \E pay \in Payload : Seal(pay)
    \/ RestartTx
    \/ \E body \in wire, header \in Header : Receive(header, body)
    \/ \E body \in wire : Lose(body)
    \/ RestartRx

SessionSpec == SessionInit /\ [][SessionNext]_sessionVars

\* Fairness: a spoke seals a keepalive every keepalive_secs, so sealing never
\* stops, and a network that is offered datagrams again and again does not lose
\* every one of them.  Restarts, losses and damaged headers are never fair.
Arrive ==
    \E body \in wire :
        /\ body.epoch = tx.epoch
        /\ Receive([epoch |-> body.epoch, seq |-> body.seq], body)

FairSessionSpec ==
    /\ SessionSpec
    /\ WF_sessionVars(\E pay \in Payload : Seal(pay))
    /\ SF_sessionVars(Arrive)

-------------------------------------------------------------------------------
(* Properties *)

\* No datagram is handed to the routing step twice while the receiver lives,
\* however the network duplicates and reorders and however often the sender
\* restarts (RxSession::accept with ReplayWindow::check_and_set).
AtMostOnce == \A id \in DOMAIN delivered : delivered[id] <= 1

\* The bitmap is exactly the accepted numbers of the current epoch that are
\* still inside the window: nothing seen is forgotten while it could return,
\* and no number is marked that was never accepted (so an authentic datagram
\* that is merely late, but inside the window, is never refused).
WindowExact ==
    \A s \in Seq1 :
        rx.cur_epoch # 0 /\ s <= rx.replay.highest /\ rx.replay.highest - s < WINDOW
            => (s \in Remembered(rx.replay) <=> delivered[<<rx.cur_epoch, s>>] > 0)

\* A forged epoch, a wrong key or a damaged sequence number leaves no trace in
\* the receive state: the adopted epoch and the top of the window always belong
\* to a datagram the peer really sealed ("authenticate before mutating").
NeverPoisoned ==
    rx.cur_epoch # 0 =>
        \E b \in sealed : b.epoch = rx.cur_epoch /\ b.seq = rx.replay.highest

\* The session implements the at-most-once link of SubnetraLink.
Link == INSTANCE SubnetraLink WITH
            sent  <- {<<b.epoch, b.seq>> : b \in sealed},
            got   <- delivered,
            floor <- rx.cur_epoch
ImplementsLink == Link!LinkSpec

\* After restarts of either end the receiver always comes back to the sender's
\* current epoch (RxSession::accept, Ordering::Greater).
Resync == []<>(rx.cur_epoch = tx.epoch)
===============================================================================
