---------------------------- MODULE MCConnection ----------------------------
(* A small instance of Connection for TLC. *)
EXTENDS Connection

Through(u)    == [type |-> "via", members |-> <<u>>]
Failover  == [type |-> "chain", members |-> {[priority |-> 20, upstream |-> "p2"],
                                             [priority |-> 10, upstream |-> "p1"],
                                             [priority |-> 30, upstream |-> "p3"]}]

\* Two connections that share a user, one at each kind of frontend.
Mixed == [c \in Conn |-> IF c = "c1" THEN {"http", "sni"} ELSE {"socks5", "tuic"}]

\* An address of two bits and a name of two labels.
Address(path, categories) == [ip |-> TRUE, path |-> path, words |-> {}, categories |-> categories]
Name(path, words, categories) ==
    [ip |-> FALSE, path |-> path, words |-> words, categories |-> categories]
Targets == [h \in Host |-> IF h = "ip" THEN Address(<<1, 0>>, {})
                           ELSE Name(<<"org", "a">>, {"a"}, {})]

Rule(type, arg)   == [type |-> type, arg |-> arg]
Route(rules, act) == [selectors |-> rules, action |-> act]

\* The address goes direct unless a name is sniffed, the name through a chain that a
\* later route would contradict; limit one.  Then the address is blocked by the first
\* of two routes, the name is not matched and goes through a single upstream, and
\* there may be two connections.  Last, the user is removed.
Published == <<
    [users    |-> [u \in User |-> [limit |-> 1, policy |-> "p"]],
     policies |-> [id \in {"p"} |->
        [routes  |-> << Route({Rule("domain", <<"org">>), Rule("keyword", "a")}, Failover),
                        Route({Rule("net", <<1>>), Rule("full", <<"org", "a">>)}, Direct) >>,
         default |-> Block]]],
    [users    |-> [u \in User |-> [limit |-> 2, policy |-> "p"]],
     policies |-> [id \in {"p"} |->
        [routes  |-> << Route({Rule("net", <<1, 0>>), Rule("book", "x")}, Block),
                        Route({Rule("net", <<1>>), Rule("net", <<1, 0>>)}, Direct) >>,
         default |-> Through("p1")]]],
    [users |-> <<>>, policies |-> <<>>] >>

\* The index agrees with the order of the routes: every list of up to three routes
\* with one rule or two routes with up to two rules, over rules of every kind that
\* overlap on the hosts below.
SomeRules == {Rule("full", <<"org", "a">>), Rule("domain", <<"org">>),
              Rule("domain", <<"org", "a">>), Rule("keyword", "a"),
              Rule("net", <<1>>), Rule("net", <<1, 0>>), Rule("book", "x")}
SomeHosts == {Address(<<1, 0>>, {}), Address(<<1, 1>>, {"x"}), Address(<<0, 0>>, {"x"}),
              Name(<<"org">>, {}, {}), Name(<<"org", "a">>, {"a"}, {"x"}),
              Name(<<"org", "b", "c">>, {}, {"x"}), Name(<<"com", "a">>, {"a"}, {}),
              Name(<<>>, {}, {"x"})}
SomeRoutes(n, k) ==
    [1 .. n -> {Route(rs, Direct) : rs \in {q \in SUBSET SomeRules : Cardinality(q) \in 1 .. k}}]
ASSUME IndexAgrees ==
    \A routes \in SomeRoutes(3, 1) \cup SomeRoutes(2, 2), h \in SomeHosts :
        FirstMatch(FromRoutes(routes), h) = FirstRoute(routes, h)
-------------------------------------------------------------------------------
(* The documents snapshots are compiled from. *)
Bare(t)  == CASE t = " a " -> "a" [] t = " x " -> "x" [] t = " " -> "" [] OTHER -> t
Small(t) == CASE t = "X" -> "x" [] t = "HTTP" -> "http" [] OTHER -> t
D(limit) == INSTANCE SnapshotDocument WITH
    Trim <- Bare, Lower <- Small, Date <- {"2030-01-01"}, Limit <- limit
Roomy == [users |-> 2, policies |-> 1, overrides |-> 2, egresses |-> 2, rules |-> 2, members |-> 2,
          bytes |-> 8]

\* Egresses: two that compile differently, a chain out of order, and those a careless edit leaves.
Backend(kind, addr, auth) == [kind |-> kind, addr |-> addr, auth |-> auth, tls |-> FALSE]
Member(id, priority)      == [id |-> id, priority |-> priority, backend |-> Backend("HTTP", "h", TRUE)]
Single(b)  == [type |-> "upstream", backend |-> {b}, members |-> {}]
Several(m) == [type |-> "chain", backend |-> {}, members |-> {m}]
Plain      == Single(Backend("reverse", " a ", FALSE))
Unsorted   == Several(<<Member("a", 20), Member("x", 10)>>)
Broken     == {Single(Backend("reverse", " ", FALSE)), Single(Backend("subnetra", "h", TRUE)),
               Single(Backend("chain", "h", FALSE)), Several(<<>>),
               Several(<<Member("a", 20), Member(" a ", 10)>>),
               Several(<<Member("a", 10), Member("x", 10)>>)}

To(id)   == [type |-> "egress", egress |-> {id}]
Straight == [type |-> "direct", egress |-> {}]
Books    == {{}, {[categories |-> {"x"}, bytes |-> 8]}}
Lists    == {<<[book |-> FALSE, text |-> "a"]>>, <<[book |-> FALSE, text |-> " "]>>,
             <<[book |-> TRUE, text |-> "X"], [book |-> FALSE, text |-> "a"]>>}

\* Base tables, overrides of the two nodes, a policy and two users, each right or wrong.
Bases     == {[e \in {"a"} |-> w] : w \in {Plain, Unsorted} \cup Broken}
             \cup {[e \in {"a", "b"} |-> IF e = "a" THEN Plain ELSE w] :
                        w \in {Unsorted, Single(Backend("reverse", " ", FALSE))}}
Replacing == {<<>>, [n \in {"n"} |-> [e \in {"a"} |-> Unsorted]], [n \in {"n"} |-> [e \in {"c"} |-> Plain]],
              [n \in {"n", "m"} |-> IF n = "n" THEN [e \in {"b"} |-> Plain]
                                    ELSE [e \in {"a"} |-> CHOOSE w \in Broken : w.type = "chain"]]}
Policies  == {[routes |-> <<[selectors |-> l, action |-> To(id)]>>, default |-> d] :
                 l \in Lists, id \in {" a ", "b"}, d \in {{}, {To("a")}, {To(" ")}, {Straight}}}
Accounts  == {[policy |-> p, expire |-> {"2030-01-01"}, frontends |-> [f \in {"tuic"} |-> k]] :
                 p \in {"p", "q"}, k \in {{}, {" x "}, {"X"}, {" "}}}
Document(e, o, p, u, v) ==
    [schema_version |-> 1, unknown |-> FALSE, egresses |-> e, node_overrides |-> o,
     policies |-> [id \in {"p"} |-> p], users |-> [id \in {"u", "v"} |-> IF id = "u" THEN u ELSE v]]
Fine == [policy |-> "p", expire |-> {}, frontends |-> <<>>]
Routed == {Document(e, o, p, Fine, Fine) : e \in Bases, o \in Replacing, p \in Policies}
Shared == {Document([e \in {"a"} |-> Plain], <<>>, [routes |-> <<>>, default |-> {To("a")}], u, v) :
                u \in Accounts, v \in Accounts}

\* model.rs: what a document sends through an egress is never served directly.  A document that
\* compiles gives every such action the egress it names, as this node sees it, with the members of
\* a chain in the order of their priorities, and every route something that can match.
ASSUME NothingFallsBack ==
    \A doc \in Routed, n \in {"n", "m", "k"}, book \in Books :
        LET s == D(Roomy)!Compile(doc, n, book)
            Leads(w, a) ==
                LET id   == Bare(CHOOSE e \in w.egress : TRUE)
                    own  == {e \in DOMAIN doc.node_overrides : e = n /\ id \in DOMAIN doc.node_overrides[e]}
                    mine == IF own = {} THEN doc.egresses[id] ELSE doc.node_overrides[n][id]
                IN  IF w.type # "egress" THEN a.type = w.type
                    ELSE /\ a.type = "egress" /\ a.id = id
                         /\ mine = Plain => a.via.kind = "reverse" /\ a.via.addr = "a"
                         /\ mine = Unsorted => [i \in 1 .. 2 |-> a.via[i].id] = <<"x", "a">>
                         /\ mine \in {Plain, Unsorted}
        IN  s.ok => \A p \in DOMAIN doc.policies :
                /\ \A i \in DOMAIN doc.policies[p].routes :
                    LET r == doc.policies[p].routes[i] IN
                    /\ Leads(r.action, s.value.policies[p].routes[i].action)
                    /\ \E j \in DOMAIN r.selectors : r.selectors[j].text # " "
                    /\ \A j \in DOMAIN r.selectors : r.selectors[j].book =>
                        \E b \in book : Small(r.selectors[j].text) \in b.categories
                /\ \A d \in doc.policies[p].default : Leads(d, s.value.policies[p].default)

\* model.rs: policies do not depend on the node.  Nodes that accept a document route alike, by
\* the same egress ids; and a node refuses what another accepts only for an egress of its own.
ASSUME NodeIndependent ==
    \A doc \in Routed, book \in Books :
        LET s == [n \in {"n", "m", "k"} |-> D(Roomy)!Compile(doc, n, book)]
            Id(a)  == <<a.type, IF a.type = "egress" THEN a.id ELSE "">>
            Ids(p) == [routes  |-> [i \in DOMAIN p.routes |-> [p.routes[i] EXCEPT !.action = Id(@)]],
                       default |-> Id(p.default)]
            mine == D(Roomy)!Overrides(doc, "n")
        IN  /\ s["n"].ok /\ s["k"].ok => Ids(s["n"].value.policies["p"]) = Ids(s["k"].value.policies["p"])
            /\ s["k"].ok => (s["n"].ok <=> \A e \in DOMAIN mine : /\ e \in DOMAIN doc.egresses
                                                                  /\ D(Roomy)!CompileEgress(mine[e]).ok)

\* model.rs: a front-end key, however written, leads to one user, the one who has it; two users
\* with the same key are refused, and so is a user of no policy.
ASSUME KeysAreTold ==
    \A doc \in Shared :
        LET s == D(Roomy)!Compile(doc, "n", {})
            Has(u) == doc.users[u].frontends["tuic"] \cap {" x ", "X"} # {}
        IN  /\ s.ok <=> /\ \A u \in {"u", "v"} : doc.users[u].policy = "p"
                        /\ ~(Has("u") /\ Has("v"))
            /\ s.ok => \A key \in {"x", "X"} :
                D(Roomy)!FrontendUser(s.value, "tuic", key) = {u \in {"u", "v"} : Has(u)}

\* model.rs: a document at a limit compiles, one beyond it does not.
ASSUME Limits ==
    LET book == {[categories |-> {"x"}, bytes |-> 8]}
        AtLimit(d) == /\ D(Roomy)!Compile(d, "k", book).ok
                   /\ Cardinality(DOMAIN d.egresses) = 2 /\ Cardinality(DOMAIN d.node_overrides) = 2
                   /\ Len(d.policies["p"].routes[1].selectors) = 2
    IN  /\ \E d \in Routed : AtLimit(d)
        /\ \A d \in Routed, field \in DOMAIN Roomy \ {"members"} :
            AtLimit(d) => ~D([Roomy EXCEPT ![field] = @ - 1])!Compile(d, "k", book).ok
=============================================================================
