---------------------------- MODULE MCSnapshotSync ----------------------------
(* Small instances of SnapshotSync for TLC. *)
EXTENDS SnapshotSync, Sequences, FiniteSets

CONSTANTS b1, b2

\* Document 1 needs a category only b1 has, document 2 compiles against both,
\* document 3 needs a category only b2 has.
MCCompat == {p \in {<<1, b1>>, <<2, b1>>, <<2, b2>>, <<3, b2>>} : p[1] <= MaxVersion}
-------------------------------------------------------------------------------
(* The books themselves: addresses of two and of four bits, the short ones at 4 .. 7. *)
A == INSTANCE AddressBook WITH V4Bits <- 2, V6Bits <- 4, MappedStart <- 4

G == <<"g">>
H == <<"g", "ads">>
X == <<"x">>

Range(v4, start, size) == [type |-> "ip", arg |-> [v4 |-> v4, start |-> start, end |-> start + size - 1]]
V4Rules == {Range(TRUE, i, 1) : i \in 0 .. 3} \cup {Range(TRUE, 0, 2), Range(TRUE, 0, 4)}
V6Rules == {Range(FALSE, 4 * i, 4) : i \in 0 .. 3}
           \cup {Range(FALSE, 0, 8), Range(FALSE, 8, 8), Range(FALSE, 0, 16),
                 Range(FALSE, 5, 1), Range(FALSE, 3, 1), Range(FALSE, 15, 1)}
Addresses == [ip : {TRUE}, v4 : {TRUE}, addr : 0 .. 3] \cup [ip : {TRUE}, v4 : {FALSE}, addr : 0 .. 15]

Rule(type, arg) == [type |-> type, arg |-> arg]
NameRules == {Rule("full", <<"a", "org">>), Rule("keyword", <<"a">>), Rule("domain", <<"org">>),
              Rule("domain", <<"*", "a", "org">>), Rule("other", <<"", "a", "org", "">>)}
Names == [ip : {FALSE}, name : {<<>>, <<"org">>, <<"a", "org">>, <<"b", "a", "org">>, <<"aa", "org">>,
                                <<"a", "org", "">>, <<"org", "a">>}]

\* What a rule says of a host, told without tables: all addresses on one line, the short ones at
\* their mapped position, and a suffix at a label boundary.
Position(v4, n) == IF v4 THEN 4 + n ELSE n
Covers(rule, host) ==
    LET name == A!Normalize(host.name)
        text == A!Normalize(rule.arg)
        bare == IF text[1] = "*" THEN Tail(text) ELSE text
    IN  IF rule.type = "ip"
        THEN /\ host.ip
             /\ Position(host.v4, host.addr) \in
                    Position(rule.arg.v4, rule.arg.start) .. Position(rule.arg.v4, rule.arg.end)
        ELSE /\ ~host.ip
             /\ CASE rule.type = "full" -> name = text
                  [] rule.type = "keyword" -> \E i \in DOMAIN name : name[i] = text[1]
                  [] OTHER -> /\ Len(name) >= Len(bare)
                              /\ SubSeq(name, Len(name) - Len(bare) + 1, Len(name)) = bare

Lists(rules, cats, n) == UNION {[1 .. k -> cats \X rules] : k \in 1 .. n}
Permuted(list) == {[i \in DOMAIN list |-> list[p[i]]] :
    p \in {q \in [DOMAIN list -> DOMAIN list] : {q[i] : i \in DOMAIN list} = DOMAIN list}}

\* builder.rs, book.rs, export.rs: whatever overlaps, a host is in exactly the categories whose
\* rules cover it, an address in either spelling; the order of the rules does not matter; what is
\* built is valid; and the exported blocks of a category, aligned and apart, are its addresses.
Answers(list, hosts) ==
    LET built == A!Build(list)
        bk  == built.value
        out   == A!Catalog(bk).value
        In(blocks, n) == {c \in blocks : n \in c.start .. c.start + c.size - 1}
    IN  /\ built.ok
        /\ \A other \in Permuted(list) : A!Build(other) = built
        /\ \A h \in hosts :
            LET cats == {list[i][1] : i \in {j \in DOMAIN list : Covers(list[j][2], h)}}
            IN  /\ A!LookupCategories(bk, h) = cats
                /\ \A p \in bk.categories :
                    A!MatchesSelector(bk, h, A!Resolve(bk, {p}).value)
                        = \E c \in cats : Len(c) >= Len(p) /\ SubSeq(c, 1, Len(p)) = p
                /\ h.ip => \A c \in bk.categories :
                    Cardinality(In(IF h.v4 THEN out[c].cidrs4 ELSE out[c].cidrs6, h.addr))
                        = IF c \in cats /\ (h.v4 \/ h.addr \notin 4 .. 7) THEN 1 ELSE 0

ASSUME BookAnswers ==
    /\ \A list \in Lists(V4Rules \cup V6Rules, {G, H}, 2) : Answers(list, Addresses)
    /\ \A list \in Lists({Range(FALSE, 0, 8), Range(FALSE, 4, 4), Range(FALSE, 8, 8), Range(TRUE, 0, 4)},
                         {G, X}, 3) : Answers(list, Addresses)
    /\ \A list \in Lists(NameRules, {G, H, X}, 2) : Answers(list, Names)

\* builder.rs: the segments are as few as possible: no two neighbours have the same categories.
ASSUME Merged ==
    \A list \in Lists(V4Rules \cup V6Rules, {G, H}, 2) :
        LET ip == A!Build(list).value.ip6
        IN  \A i \in 2 .. Len(ip) : ip[i].start = ip[i - 1].end + 1 => ip[i].cats # ip[i - 1].cats

\* book.rs: a pattern that names no category is refused, alone and with others.
ASSUME NothingSelected ==
    LET bk == A!Build(<< <<H, Range(TRUE, 0, 1)>> >>).value
    IN  /\ A!Resolve(bk, {G}).value = {G, H}
        /\ \A p \in {<<>>, X, <<"g", "adsx">>, <<"ads">>} : ~A!Resolve(bk, {G, p}).ok

\* export.rs: the blocks of every range cover it once and are the fewest possible, but for the whole
\* space, which takes two.
ASSUME FewestBlocks ==
    \A s, e \in 0 .. 15 : s <= e =>
        LET all    == {[start |-> x * 2 ^ h, size |-> 2 ^ h] : x \in 0 .. 15, h \in 0 .. 4}
            inside == {b \in all : b.start >= s /\ b.start + b.size - 1 <= e}
            \* The blocks that are not part of a larger one inside the range.
            largest == {b \in inside : ~ \E c \in inside : /\ c.size > b.size
                                                          /\ b.start \in c.start .. c.start + c.size - 1}
            blocks == A!RangeToCidrs(s, e, 4)
            used   == {blocks[i] : i \in DOMAIN blocks}
        IN  IF s = 0 /\ e = 15 THEN used = {[start |-> 0, size |-> 8], [start |-> 8, size |-> 8]}
            ELSE used = largest
-------------------------------------------------------------------------------
(* The domain lists: three files, the first of which may include twice. *)
InSource(name) == <<"v2", name>>
S(lines, depth, work) == INSTANCE DomainSources WITH
    Files <- lines, Sibling <- InSource, MaxDepth <- depth, MaxWork <- work

Include(f, with, without) == [type |-> "include", file |-> f, with |-> with, without |-> without]
Listed(r, attrs, also)    == [type |-> "rule", rule |-> r, attrs |-> attrs, also |-> also]
Includes == {Include(f, w, {}) : f \in {"f", "p", "q"}, w \in {{}, {"ad"}}}
            \cup {Include("q", {}, {"ad"}), Include("none", {}, {})}
Own == {<<>>, <<Listed("r", {"ad"}, {})>>, <<Listed("s", {}, {"p"}), [type |-> "regexp"]>>}
UpTo(n) == UNION {[1 .. k -> Includes] : k \in 0 .. n}
Trees == {[x \in {"f", "p", "q"} |-> CASE x = "f" -> f [] x = "p" -> p [] OTHER -> q] :
            f \in UpTo(2), p \in {a \o b : a \in Own, b \in UpTo(1)},
            q \in {a \o b : a \in UpTo(1), b \in Own}}

\* Includes, told without a cache: the files at the end of one, two and three of them, and the rules
\* that come through two.
Of(t, f, type) == {x \in {t[f][i] : i \in DOMAIN t[f]} : x.type = type}
After(t, fs)   == UNION {{l.file : l \in Of(t, f, "include")} : f \in fs \ {"none"}}
Chain(t) == LET one == After(t, {"f"}) two == After(t, one)
            IN  <<one, two, After(t, two)>>
Direct(t, f) == {S(t, 2, 0)!Rule(l) : l \in Of(t, f, "rule")
                                            \cup {x \in UNION {Of(t, y, "rule") : y \in DOMAIN t} : f \in x.also}}
Pass(t, f, R(_)) == Direct(t, f) \cup
    UNION {{r \in R(l.file) : l.with \subseteq r.attrs /\ l.without \cap r.attrs = {}} : l \in Of(t, f, "include")}
Through(t) ==
    LET None(f) == Direct(t, f)
        One(f)  == Pass(t, f, None)
    IN  Pass(t, "f", One)

\* sources.rs: a list is expanded in full or refused.  Collecting each file once gives what a walk
\* along all includes gives; a cycle, a missing file and too much work are refused, and nothing
\* else is while no chain is too deep.
ASSUME Expanded ==
    \A t \in Trees :
        LET All(depth, work) == S(t, depth, work)!Collect("f", 0, {}, S(t, depth, work)!Fresh)
            r == All(2, 60)
        IN  /\ r.ok = (Chain(t)[3] = {} /\ \A n \in 1 .. 2 : "none" \notin Chain(t)[n])
            /\ r.ok => /\ r.rules = Through(t)
                       /\ All(2, r.work) = r
                       /\ r.work > 0 => ~All(2, r.work - 1).ok
            /\ Chain(t)[2] = {} => All(1, 60) = r
            /\ All(1, 60).ok => All(1, 60) = r

\* sources.rs: a rule is entered once under each category it belongs to, in the namespace of the
\* source, and under each with each of its attributes; a list that comes out empty is refused.
ASSUME Entered ==
    LET t == [x \in {"f", "p"} |-> IF x = "f" THEN <<Include("p", {"ad"}, {})>>
                                   ELSE <<Listed("r", {"ad", "cn"}, {"f"}), Listed("s", {}, {})>>]
    IN  /\ S(t, 2, 60)!Applied("f", <<"v2", "f">>).entries =
                [category : {<<"v2", "f">>}, attr : {"none", "ad", "cn"}, rule : {"r"}]
        /\ ~S([t EXCEPT !["p"] = <<Listed("s", {}, {})>>], 2, 60)!Applied("f", <<"v2", "f">>).ok
===============================================================================
