----------------------------- MODULE SubnetraLink -----------------------------
(***************************************************************************)
(* What a directional Subnetra link promises the layers above it: of the   *)
(* datagrams the peer really sealed, each is handed over at most once per  *)
(* life of the receiver, in any order within a boot epoch, and never again *)
(* from a boot epoch older than one already heard.  Nothing is promised    *)
(* about loss.                                                             *)
(***************************************************************************)
EXTENDS Naturals

CONSTANTS MaxEpoch, MaxSeq

VARIABLES sent,     \* identities <<epoch, seq>> that were sealed
          got,      \* how often each identity was handed over
          floor     \* newest epoch heard, 0 before the first

linkVars == <<sent, got, floor>>

Id == (1 .. MaxEpoch) \X (1 .. MaxSeq)

LinkInit == sent = {} /\ got = [id \in Id |-> 0] /\ floor = 0

Send(id) == sent' = sent \cup {id} /\ UNCHANGED <<got, floor>>

Deliver(id) ==
    /\ id \in sent
    /\ got[id] = 0
    /\ id[1] >= floor
    /\ got' = [got EXCEPT ![id] = 1]
    /\ floor' = id[1]
    /\ UNCHANGED sent

\* The receiver restarts and forgets.
Forget == got' = [id \in Id |-> 0] /\ floor' = 0 /\ UNCHANGED sent

LinkNext == (\E id \in Id : Send(id) \/ Deliver(id)) \/ Forget

LinkSpec == LinkInit /\ [][LinkNext]_linkVars
===============================================================================
