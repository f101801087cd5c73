--------------------------- MODULE SnapshotDocument ---------------------------
(***************************************************************************)
(* The policy document of the control plane and its compilation for one    *)
(* node (src/src/model.rs): what the decoder refuses, what the compiler    *)
(* refuses, and the tables a node serves from.                             *)
(*                                                                         *)
(* An optional field is a set of at most one value.  A map keeps its keys, *)
(* so nothing depends on the order of its entries.  A document carries     *)
(* "unknown" for a field no struct has.  The matchers that selectors turn  *)
(* into are PolicyIndex's subject.                                         *)
(***************************************************************************)
EXTENDS Naturals, Sequences, FiniteSets, FiniteSetsExt, SequencesExt

CONSTANTS
    Trim(_), Lower(_),   \* str::trim and to_ascii_lowercase of a text
    Date,                \* texts that are a date
    Limit                \* users, policies, overrides, egresses, rules, members, bytes

Bad   == [ok |-> FALSE]
Ok(v) == [ok |-> TRUE, value |-> v]
Blank(text) == Trim(text) = ""

-------------------------------------------------------------------------------
(* Decoding *)

\* RawActionWire and RawEgressWire: each type with its own fields and no other.
IsAction(w) ==
    \/ w.type = "egress" /\ w.egress # {}
    \/ w.type \in {"direct", "block"} /\ w.egress = {}
IsEgress(w) ==
    \/ w.type = "upstream" /\ w.backend # {} /\ w.members = {}
    \/ w.type = "chain" /\ w.backend = {} /\ w.members # {}

\* decode_snapshot: every part of the document, the overrides of other nodes too.
Decodes(doc) ==
    /\ doc.schema_version = 1 /\ ~doc.unknown
    /\ \A e \in DOMAIN doc.egresses : IsEgress(doc.egresses[e])
    /\ \A n \in DOMAIN doc.node_overrides : \A e \in DOMAIN doc.node_overrides[n] :
        IsEgress(doc.node_overrides[n][e])
    /\ \A p \in DOMAIN doc.policies :
        /\ \A a \in doc.policies[p].default : IsAction(a)
        /\ \A i \in DOMAIN doc.policies[p].routes : IsAction(doc.policies[p].routes[i].action)

-------------------------------------------------------------------------------
(* Compilation *)

Kind == [http |-> "http", https |-> "http", socks5 |-> "socks5", socks |-> "socks5",
         reverse |-> "reverse", subnetra |-> "subnetra"]

\* compile_upstream: a hop and the overlay take neither credentials nor TLS, a hop has a name.
CompileUpstream(u) ==
    IF Lower(u.kind) \notin DOMAIN Kind THEN Bad
    ELSE LET kind == Kind[Lower(u.kind)]
             plain == ~u.auth /\ ~u.tls
         IN  IF kind \in {"reverse", "subnetra"} /\ ~plain THEN Bad
             ELSE IF kind = "reverse" /\ Blank(u.addr) THEN Bad
             ELSE Ok([kind |-> kind, addr |-> IF kind = "reverse" THEN Trim(u.addr) ELSE u.addr,
                      auth |-> u.auth, tls |-> u.tls])

\* compile_chain: unique ids and priorities, in ascending order of priority.
CompileChain(members) ==
    LET order == SortSeq(members, LAMBDA m, n : m.priority < n.priority)
    IN  IF members = <<>> \/ Len(members) > Limit.members THEN Bad
        ELSE IF \E i \in DOMAIN members : Blank(members[i].id) THEN Bad
        ELSE IF \E i, j \in DOMAIN members :
                    i # j /\ \/ Trim(members[i].id) = Trim(members[j].id)
                             \/ members[i].priority = members[j].priority THEN Bad
        ELSE IF \E i \in DOMAIN members : ~CompileUpstream(members[i].backend).ok THEN Bad
        ELSE Ok([i \in DOMAIN order |->
                    [id |-> Trim(order[i].id), priority |-> order[i].priority,
                     upstream |-> CompileUpstream(order[i].backend).value]])

\* compile_egress: no backend is a chain, which is not a kind.
CompileEgress(w) ==
    IF w.type = "upstream" THEN CompileUpstream(CHOOSE b \in w.backend : TRUE)
    ELSE CompileChain(CHOOSE ms \in w.members : TRUE)

\* compile_action: the egress has to be in the table.
CompileAction(w, egresses) ==
    IF w.type # "egress" THEN Ok([type |-> w.type])
    ELSE LET id == Trim(CHOOSE e \in w.egress : TRUE)
         IN  IF id \in DOMAIN egresses \ {""} THEN Ok([type |-> "egress", id |-> id, via |-> egresses[id]])
             ELSE Bad

\* RuleSet::from_rules: the book's categories of a rule list; book is a set of at most one book.
Selected(rules) == {Lower(Trim(r.text)) : r \in {x \in ToSet(rules) : x.book}}
RulesCompile(rules, book) ==
    /\ "" \notin Selected(rules)
    /\ Selected(rules) # {} => \E b \in book : Selected(rules) \subseteq b.categories
NonBlank(rules) == SelectSeq(rules, LAMBDA r : r.book \/ ~Blank(r.text))

\* account_book_selector: equal selections share their memory.
BookBytes(doc, book) ==
    LET lists == UNION {{doc.policies[p].routes[i].selectors : i \in DOMAIN doc.policies[p].routes} :
                            p \in DOMAIN doc.policies}
    IN  MapThenSumSet(LAMBDA s : IF s = {} THEN 0 ELSE (CHOOSE b \in book : TRUE).bytes,
                      {Selected(l) : l \in lists})

RuleCount(doc) ==
    LET Rules(p) == FoldLeft(LAMBDA n, r : n + Len(NonBlank(r.selectors)), 0, doc.policies[p].routes)
    IN  MapThenSumSet(Rules, DOMAIN doc.policies)

\* compile_checked: an override of this node replaces an egress of the base document.
Overrides(doc, node) == IF node \in DOMAIN doc.node_overrides THEN doc.node_overrides[node] ELSE <<>>
Effective(doc, node) ==
    [e \in DOMAIN doc.egresses |->
        IF e \in DOMAIN Overrides(doc, node) THEN Overrides(doc, node)[e] ELSE doc.egresses[e]]

\* compile_checked for one policy: without a default the traffic goes directly.
CompilePolicy(p, egresses, book) ==
    LET action(i) == CompileAction(p.routes[i].action, egresses)
        default   == IF p.default = {} THEN Ok([type |-> "direct"])
                     ELSE CompileAction(CHOOSE a \in p.default : TRUE, egresses)
    IN  IF \E i \in DOMAIN p.routes : \/ NonBlank(p.routes[i].selectors) = <<>>
                                      \/ ~RulesCompile(p.routes[i].selectors, book)
                                      \/ ~action(i).ok THEN Bad
        ELSE IF ~default.ok THEN Bad
        ELSE Ok([routes |-> [i \in DOMAIN p.routes |->
                                [selectors |-> p.routes[i].selectors, action |-> action(i).value]],
                 default |-> default.value])

\* compile_user: the front-end keys of a user, and a date if there is one.
Keys(doc, u) ==
    LET of == doc.users[u].frontends
    IN  UNION {{<<f, Lower(Trim(k))>> : k \in {x \in of[f] : ~Blank(x)}} : f \in DOMAIN of}
UserCompiles(doc, u) ==
    /\ ~Blank(doc.users[u].policy) /\ doc.users[u].policy \in DOMAIN doc.policies
    /\ \A d \in doc.users[u].expire : Blank(d) \/ Trim(d) \in Date
    /\ \A v \in DOMAIN doc.users \ {u} : Keys(doc, u) \cap Keys(doc, v) = {}

WithinLimits(doc) ==
    /\ Cardinality(DOMAIN doc.users) <= Limit.users
    /\ Cardinality(DOMAIN doc.policies) <= Limit.policies
    /\ Cardinality(DOMAIN doc.node_overrides) <= Limit.overrides
    /\ Cardinality(DOMAIN doc.egresses) <= Limit.egresses
    /\ RuleCount(doc) <= Limit.rules

Compile(doc, node, book) ==
    LET base     == Effective(doc, node)
        egresses == [e \in DOMAIN base |-> CompileEgress(base[e]).value]
        policy(p) == CompilePolicy(doc.policies[p], egresses, book)
    IN  IF ~WithinLimits(doc) THEN Bad
        ELSE IF ~(DOMAIN Overrides(doc, node) \subseteq DOMAIN doc.egresses) THEN Bad
        ELSE IF \E e \in DOMAIN base : Blank(e) \/ ~CompileEgress(base[e]).ok THEN Bad
        ELSE IF \E p \in DOMAIN doc.policies : Blank(p) \/ ~policy(p).ok THEN Bad
        ELSE IF BookBytes(doc, book) > Limit.bytes THEN Bad
        ELSE IF \E u \in DOMAIN doc.users : ~UserCompiles(doc, u) THEN Bad
        ELSE Ok([policies |-> [p \in DOMAIN doc.policies |-> policy(p).value],
                 user     |-> [u \in DOMAIN doc.users |-> doc.users[u].policy],
                 index    |-> {<<k, u>> \in (UNION {Keys(doc, v) : v \in DOMAIN doc.users})
                                            \X DOMAIN doc.users : k \in Keys(doc, u)}])

\* frontend_user: the users a key leads to.
FrontendUser(s, frontend, key) == {e[2] : e \in {x \in s.index : x[1] = <<frontend, Lower(key)>>}}
===============================================================================
