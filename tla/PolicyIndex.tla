----------------------------- MODULE PolicyIndex ------------------------------
(***************************************************************************)
(* How a routing policy picks its route: the rules of a route              *)
(* (src/src/policy/mod.rs, domain.rs, ip.rs), the index all routes of a    *)
(* policy are compiled into (RouteIndex) and the look-up in it.            *)
(*                                                                         *)
(* A host is given by what the matchers see of it: whether it is an        *)
(* address; its path, the labels of a name from the top-level domain       *)
(* inward or the bits of an address; the keywords its text contains; and   *)
(* the categories of the address book that list it.                        *)
(***************************************************************************)
EXTENDS Integers, Sequences, FiniteSets, SequencesExt

CONSTANT AddressBits   \* prefix length of a host route

\* A rule as RuleSet::from_rules tells them apart: a path for full, domain and net,
\* a keyword, or a category.
RuleType == {"full", "domain", "keyword", "net", "book"}

Args(rules, type) == {r.arg : r \in {q \in rules : q.type = type}}

\* RuleSet::from_rules.  Empty suffixes are ignored; a network of one address is an
\* exact address.
FromRules(rules) ==
    [full    |-> Args(rules, "full"),
     domain  |-> Args(rules, "domain") \ {<<>>},
     keyword |-> Args(rules, "keyword"),
     exact   |-> {n \in Args(rules, "net") : Len(n) = AddressBits},
     cidrs   |-> {n \in Args(rules, "net") : Len(n) # AddressBits},
     book    |-> Args(rules, "book")]

\* DomainMatcher::matches
MatchesDomain(rs, h) ==
    /\ h.path # <<>>
    /\ \/ h.path \in rs.full
       \/ \E d \in rs.domain : IsPrefix(d, h.path)
       \/ rs.keyword \cap h.words # {}

\* IpMatcher::matches
MatchesAddress(rs, h) ==
    h.path \in rs.exact \/ \E n \in rs.cidrs : IsPrefix(n, h.path)

\* AddrBook::matches: the selected categories, each with its descendants.
MatchesBook(selector, h) == (h.ip \/ h.path # <<>>) /\ selector \cap h.categories # {}

\* RuleSet::matches
Matches(rs, h) ==
    \/ IF h.ip THEN MatchesAddress(rs, h) ELSE MatchesDomain(rs, h)
    \/ MatchesBook(rs.book, h)

-------------------------------------------------------------------------------
(* RouteIndex *)

EmptyIndex == [full |-> <<>>, suffix |-> <<>>, keywords |-> {}, exact_ip |-> <<>>,
               cidrs |-> {}, books |-> {}]

\* note_min for each of the keys: a key keeps its smallest route.
NoteMin(map, keys, idx) ==
    [k \in DOMAIN map \cup keys |->
        IF k \in DOMAIN map /\ (k \notin keys \/ map[k] <= idx) THEN map[k] ELSE idx]

\* RuleSet::index_into.  The trie of the suffixes is the map from their paths.
IndexInto(rs, idx, ix) ==
    [full     |-> NoteMin(ix.full, rs.full, idx),
     suffix   |-> NoteMin(ix.suffix, rs.domain, idx),
     keywords |-> ix.keywords \cup (rs.keyword \X {idx}),
     exact_ip |-> NoteMin(ix.exact_ip, rs.exact, idx),
     cidrs    |-> ix.cidrs \cup (rs.cidrs \X {idx}),
     books    |-> ix.books \cup IF rs.book = {} THEN {} ELSE {<<rs.book, idx>>}]

\* RoutingPolicy::from_routes
FromRoutes(routes) ==
    LET index[n \in 0 .. Len(routes)] ==
            IF n = 0 THEN EmptyIndex
            ELSE IndexInto(FromRules(routes[n].selectors), n, index[n - 1])
    IN  index[Len(routes)]

\* IndexedSuffix::best and the look-ups in the maps: the routes a path leads to.
Exactly(map, path) == {map[p] : p \in DOMAIN map \cap {path}}
Along(map, path)   == {map[p] : p \in {p \in DOMAIN map : IsPrefix(p, path)}}

\* RouteIndex::first_match: every kind of selector is walked once, the smallest
\* route wins; 0 if there is none.
FirstMatch(ix, h) ==
    LET address == Exactly(ix.exact_ip, h.path)
                       \cup {e[2] : e \in {e \in ix.cidrs : IsPrefix(e[1], h.path)}}
        name    == Exactly(ix.full, h.path) \cup Along(ix.suffix, h.path)
                       \cup {e[2] : e \in {e \in ix.keywords : e[1] \in h.words}}
        book    == {e[2] : e \in {e \in ix.books : MatchesBook(e[1], h)}}
        found   == book \cup IF h.ip THEN address
                             ELSE IF h.path = <<>> THEN {} ELSE name
    IN  IF found = {} THEN 0 ELSE Min(found)

-------------------------------------------------------------------------------
(* Reference definition *)

\* The declaration order of the routes decides: the first one with a rule that
\* matches (first_match_naive in the tests of model.rs).
FirstRoute(routes, h) ==
    LET matching == {i \in DOMAIN routes : Matches(FromRules(routes[i].selectors), h)}
    IN  IF matching = {} THEN 0 ELSE Min(matching)
===============================================================================
