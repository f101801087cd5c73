----------------------------- MODULE MCReverseUdp -----------------------------
(* A small instance of ReverseUdp for TLC. *)
EXTENDS ReverseUdp

\* Two names for two addresses.
TwoAddresses == [h \in Host |-> IF h = "a" THEN 1 ELSE 2]
===============================================================================
