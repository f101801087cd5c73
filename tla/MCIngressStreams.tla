--------------------------- MODULE MCIngressStreams ---------------------------
(* A small instance of IngressStreams for TLC. *)
EXTENDS IngressStreams

OneLease == [c \in Client |-> "l1"]
TcpLease == [p \in Public |-> "l1"]
===============================================================================
