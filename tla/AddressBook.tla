----------------------------- MODULE AddressBook -----------------------------
(***************************************************************************)
(* The address book: what rove-abctl builds from categorised rules         *)
(* (src/src/addrbook/builder.rs), what a reader insists on (format.rs,     *)
(* validate), how a node answers from it (book.rs) and what the control    *)
(* plane is given of it (export.rs).                                       *)
(*                                                                         *)
(* A category is the sequence of its segments, a name the sequence of its  *)
(* labels, "" being an empty one; a keyword is in a name when its labels   *)
(* follow each other there.  A set of categories stands for the bit mask   *)
(* and its interned id.  The bytes of the file are left out.               *)
(***************************************************************************)
EXTENDS Naturals, Sequences, FiniteSets, SequencesExt

CONSTANTS
    V4Bits, V6Bits,  \* 32 and 128
    MappedStart      \* where the IPv4 addresses lie among the IPv6 addresses

V4Top     == 2 ^ V4Bits - 1
V6Top     == 2 ^ V6Bits - 1
MappedEnd == MappedStart + V4Top

Bad   == [ok |-> FALSE]
Ok(v) == [ok |-> TRUE, value |-> v]

-----------------------------------------------------------------------------
(* Builder *)

\* normalize_domain and reverse_labels
Normalize(name) ==
    LET full == {i \in DOMAIN name : name[i] # ""}
    IN  IF full = {} THEN <<>> ELSE SubSeq(name, Min(full), Max(full))

\* canonicalize_ip_range: the IPv4-mapped part of an IPv6 range moves to the IPv4 table.
Canonical(r) ==
    IF r.v4 \/ r.end < MappedStart \/ r.start > MappedEnd THEN <<r>>
    ELSE SelectSeq(<<[v4 |-> FALSE, start |-> r.start, end |-> MappedStart - 1],
                     [v4 |-> TRUE, start |-> Max({r.start, MappedStart}) - MappedStart,
                                   end |-> Min({r.end, MappedEnd}) - MappedStart],
                     [v4 |-> FALSE, start |-> MappedEnd + 1, end |-> r.end]>>,
                   LAMBDA p : p.start <= p.end)

NewBuilder == [categories |-> {}, ip |-> <<>>, exact |-> {}, suffix |-> {}, keywords |-> {}]

\* add_category: with all its ancestors.
AddCategory(b, cat) ==
    IF cat = <<>> \/ \E i \in DOMAIN cat : cat[i] = "" THEN Bad
    ELSE Ok([b EXCEPT !.categories = @ \cup {SubSeq(cat, 1, n) : n \in DOMAIN cat}])

\* add_rule.  An unknown prefix is a suffix rule; a suffix loses one wildcard label.
AddRule(b, cat, rule) ==
    LET c    == AddCategory(b, cat)
        name == Normalize(rule.arg)
        Star == IF Len(name) > 1 /\ Head(name) = "*" THEN Tail(name) ELSE name
    IN  IF ~c.ok THEN Bad
        ELSE IF rule.type = "ip"
             THEN Ok([c.value EXCEPT !.ip = @ \o [i \in DOMAIN Canonical(rule.arg) |->
                                                     [range |-> Canonical(rule.arg)[i], cat |-> cat]]])
        ELSE IF name = <<>> THEN Bad
        ELSE CASE rule.type = "full"    -> Ok([c.value EXCEPT !.exact = @ \cup {<<name, cat>>}])
               [] rule.type = "keyword" -> Ok([c.value EXCEPT !.keywords = @ \cup {<<name, cat>>}])
               [] OTHER -> Ok([c.value EXCEPT !.suffix = @ \cup {<<Reverse(Star), cat>>}])

\* The rules of a list of <<category, rule>>, in order; one bad rule spoils the build.
Entered(list) ==
    FoldLeft(LAMBDA b, e : IF b.ok THEN AddRule(b.value, e[1], e[2]) ELSE Bad, Ok(NewBuilder), list)

\* sweep: at every boundary where a range starts, or the first position behind one, the segment
\* before it is closed; neighbours with the same categories are merged.  There is no position
\* behind the last one: such a range ends at a boundary after all others.
Infinity == V6Top + 1
Behind(r) == IF r.range.end = V6Top THEN Infinity ELSE r.range.end + 1
Before(b) == IF b = Infinity THEN V6Top ELSE b - 1

Sweep(ranges) ==
    LET bounds == SetToSortSeq(UNION {{r.range.start, Behind(r)} : r \in ToSet(ranges)},
                               LAMBDA a, b : a < b)
        cats == {r.cat : r \in ToSet(ranges)}
        Up(b, c)   == Cardinality({i \in DOMAIN ranges : ranges[i].cat = c /\ ranges[i].range.start = b})
        Down(b, c) == Cardinality({i \in DOMAIN ranges : ranges[i].cat = c /\ Behind(ranges[i]) = b})
        Close(s, b) ==
            LET open == {c \in cats : s.active[c] > 0}
                last == Last(s.out)
            IN  IF open = {} THEN s.out
                ELSE IF s.out # <<>> /\ last.cats = open /\ last.end + 1 = s.prev
                THEN [s.out EXCEPT ![Len(s.out)].end = Before(b)]
                ELSE Append(s.out, [start |-> s.prev, end |-> Before(b), cats |-> open])
        Step(s, b) ==
            [out |-> Close(s, b), prev |-> b,
             active |-> [c \in cats |-> s.active[c] + Up(b, c) - Down(b, c)]]
    IN  FoldLeft(Step, [out |-> <<>>, prev |-> 0, active |-> [c \in cats |-> 0]], bounds).out

\* Each text with all its categories.
Table(pairs) == [t \in {p[1] : p \in pairs} |-> {p[2] : p \in {q \in pairs : q[1] = t}}]

-----------------------------------------------------------------------------
(* Format *)

Disjoint(list) == \A i \in DOMAIN list : /\ list[i].start <= list[i].end
                                         /\ i > 1 => list[i].start > list[i - 1].end

\* validate: parents are there, ranges sorted and disjoint, no IPv6 range reaches into the mapped
\* region, texts in normal form.
Validate(book) ==
    /\ \A c \in book.categories : Len(c) > 1 => Front(c) \in book.categories
    /\ Disjoint(book.ip4) /\ Disjoint(book.ip6)
    /\ \A i \in DOMAIN book.ip6 : book.ip6[i].start > MappedEnd \/ book.ip6[i].end < MappedStart
    /\ \A t \in DOMAIN book.exact \cup DOMAIN book.suffix \cup DOMAIN book.keywords :
        t # <<>> /\ Normalize(t) = t

\* build
Build(list) ==
    LET b    == Entered(list)
        book == [categories |-> b.value.categories,
                 ip4 |-> Sweep(SelectSeq(b.value.ip, LAMBDA r : r.range.v4)),
                 ip6 |-> Sweep(SelectSeq(b.value.ip, LAMBDA r : ~r.range.v4)),
                 exact |-> Table(b.value.exact), suffix |-> Table(b.value.suffix),
                 keywords |-> Table(b.value.keywords)]
    IN  IF ~b.ok THEN Bad
        ELSE IF \E i \in DOMAIN book.ip4 : book.ip4[i].end > V4Top THEN Bad
        ELSE IF Validate(book) THEN Ok(book) ELSE Bad

-----------------------------------------------------------------------------
(* Query *)

\* resolve: a category and what is below it; a pattern that selects nothing is refused.
Resolve(book, patterns) ==
    LET Below(p) == {c \in book.categories : IsPrefix(p, c)}
    IN  IF \E p \in patterns : p = <<>> \/ Below(p) = {} THEN Bad
        ELSE Ok(UNION {Below(p) : p \in patterns})

\* lookup_range4 and lookup_range6: the last range that starts at or before the key.
LookupRange(list, key) ==
    LET idx == Cardinality({i \in DOMAIN list : list[i].start <= key})
    IN  IF idx = 0 THEN {} ELSE IF key <= list[idx].end THEN {list[idx].cats} ELSE {}

\* The sets of categories a host is found in, address or name.
Found(book, host) ==
    LET name == Normalize(host.name)
        ends == {SubSeq(Reverse(name), 1, n) : n \in DOMAIN name}
        In(k) == \E i \in 0 .. Len(name) - Len(k) : SubSeq(name, i + 1, i + Len(k)) = k
    IN  IF host.ip
        THEN IF host.v4 THEN LookupRange(book.ip4, host.addr)
             ELSE IF host.addr \in MappedStart .. MappedEnd
             THEN LookupRange(book.ip4, host.addr - MappedStart)
             ELSE LookupRange(book.ip6, host.addr)
        ELSE IF name = <<>> THEN {}
        ELSE {book.exact[t] : t \in {name} \cap DOMAIN book.exact}
             \cup {book.suffix[t] : t \in ends \cap DOMAIN book.suffix}
             \cup {book.keywords[k] : k \in {x \in DOMAIN book.keywords : In(x)}}

\* matches, matches_ip, matches_domain; lookup_categories
MatchesSelector(book, host, selector) == \E cats \in Found(book, host) : cats \cap selector # {}
LookupCategories(book, host) == UNION Found(book, host)

-----------------------------------------------------------------------------
(* Export *)

\* ipv4_range_to_cidrs and ipv6_range_to_cidrs: the largest aligned block that fits, at most half
\* of the space, then the next one.
RECURSIVE RangeToCidrs(_, _, _)
RangeToCidrs(start, end, bits) ==
    IF start > end THEN <<>>
    ELSE LET size == 2 ^ Max({h \in 0 .. bits - 1 :
                                /\ start % 2 ^ h = 0
                                /\ h = 0 \/ start + 2 ^ h - 1 <= end})
         IN  <<[start |-> start, size |-> size]>>
             \o (IF start + size > 2 ^ bits - 1 THEN <<>> ELSE RangeToCidrs(start + size, end, bits))

\* control_plane_catalog: what is tagged with the category itself, not with those below it.
Catalog(book) ==
    LET Blocks(list, bits, c) ==
            UNION {ToSet(RangeToCidrs(list[i].start, list[i].end, bits)) :
                        i \in {j \in DOMAIN list : c \in list[j].cats}}
        Texts(table, c) == {t \in DOMAIN table : c \in table[t]}
    IN  IF book.categories = {} THEN Bad
        ELSE Ok([c \in book.categories |->
                    [exact   |-> Texts(book.exact, c), keyword |-> Texts(book.keywords, c),
                     suffix  |-> {Reverse(t) : t \in Texts(book.suffix, c)},
                     cidrs4  |-> Blocks(book.ip4, V4Bits, c),
                     cidrs6  |-> Blocks(book.ip6, V6Bits, c)]])
==============================================================================
