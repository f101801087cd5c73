--------------------------- MODULE MCControlChannel -------------------------
EXTENDS ControlChannel

Cmd(kind, r, u, reply) ==
    [kind |-> kind, req |-> r, user |-> u, host |-> None, types |-> {}, ttl |-> Absent, reply |-> reply]

Probe == <<"p1", "p2">>

\* The second command may collide with the first or be of no consequence.
Script(k) ==
    {Cmd("start", "r1", "alice", "allowed"), Cmd("probe", Probe[k], None, "allowed"), Cmd("sync", None, None, None)}
    \cup IF k = 1 THEN {}
         ELSE {[Cmd("start", "r2", "alice", "allowed") EXCEPT !.types = {"limit", "summary"}],
               Cmd("cancel", "r1", None, None), Cmd("garbled", None, None, "sync"),
               Cmd("query", None, "alice", "allowed"), Cmd("start", "r1", None, "allowed")}

CONSTANTS c1, c2

\* One tunnel that ends well, one connection that may fail before its user is known.
Ends(c) == IF c = c1 THEN {[user |-> "alice", host |-> "h", stage |-> None]}
           ELSE {[user |-> "alice", host |-> "h", stage |-> "limit"], [user |-> None, host |-> None, stage |-> "parse"]}
=============================================================================
