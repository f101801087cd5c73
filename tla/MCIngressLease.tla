---------------------------- MODULE MCIngressLease ----------------------------
(* A small instance of IngressLease for TLC. *)
EXTENDS IngressLease, TLC

Listener(id, transport, port) == [id |-> id, transport |-> transport, public_port |-> port]

CONSTANTS n1, n2

\* n1 has a fixed TCP port and a dynamic UDP port; n2 asks for one lease more than
\* it may hold, so it is refused, gives up what it had and comes back.
Configured == (n1 :> <<Listener("a", "tcp", 1), Listener("b", "udp", 0)>>)
              @@ (n2 :> <<Listener("d", "tcp", 3), Listener("e", "tcp", 2)>>)

\* The ports of the two nodes meet: a number n2's lease leaves reserved is withheld
\* from n1's dynamic listener on the other transport.
Granted == [k \in Key |-> CASE k.id = "a" -> {1} [] k.id = "b" -> {2, 3}
                             [] k.id = "d" -> {3} [] k.id = "e" -> {2}]

Uneven == (n1 :> 2) @@ (n2 :> 1)
===============================================================================
