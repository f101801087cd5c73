---------------------------- MODULE DomainSources ----------------------------
(***************************************************************************)
(* The domain lists an address book is built from: files that include      *)
(* other files, with filters on attributes, and rules that name further    *)
(* categories they belong to (src/src/addrbook/sources.rs, the v2fly       *)
(* format).                                                                *)
(*                                                                         *)
(* A line is [type |-> "include", file, with, without] or                  *)
(* [type |-> "rule", rule, attrs, also] or [type |-> "regexp"].  What a    *)
(* file system adds (paths, links, file extensions) is left out.           *)
(***************************************************************************)
EXTENDS Naturals, Sequences, FiniteSets, FiniteSetsExt, SequencesExt, Functions

CONSTANTS
    Files,           \* Files[f]: the lines of file f
    Sibling(_),      \* the category another one's name stands for in this source
    MaxDepth,        \* the deepest include, 16
    MaxWork          \* MAX_V2FLY_EXPANSION_WORK

Bad == [ok |-> FALSE]

\* parse_v2fly_domain_rule: regular expressions are skipped.
Rule(line) == [rule |-> line.rule, attrs |-> line.attrs]

\* AttrFilter::matches, for all the filters of an include
Passes(rule, line) == line.with \subseteq rule.attrs /\ line.without \cap rule.attrs = {}

\* collect_direct_v2fly_affiliations of every file: the rules that name a category.
Affiliated(f) ==
    UNION {{<<t, Rule(l)>> : t \in l.also} : l \in {x \in ToSet(Files[f]) : x.type = "rule"}}
Global == UNION {Affiliated(f) : f \in DOMAIN Files}

\* charge_v2fly_work
Charge(s, amount) == IF s.ok /\ s.work + amount <= MaxWork THEN [s EXCEPT !.work = @ + amount] ELSE Bad

\* collect_v2fly: [ok, work, cache, rules, also], the last two of the file just collected.  A file
\* is collected once; one that is still being collected closes a cycle.
RECURSIVE Collect(_, _, _, _)
Collect(f, depth, visiting, s) ==
    LET own == {e[2] : e \in {g \in Global : g[1] = f}}
        Include(line, t) ==
            LET in   == Collect(line.file, depth + 1, visiting \cup {f}, t)
                slots == MapThenSumSet(LAMBDA r : Max({1, Cardinality(r.attrs)}), in.rules)
                done == Charge(in, Cardinality(in.rules) + Cardinality(in.also)
                                   + slots * (Cardinality(line.with) + Cardinality(line.without)))
            IN  IF ~in.ok THEN Bad ELSE IF ~done.ok THEN Bad
                ELSE [done EXCEPT !.rules = t.rules \cup {r \in in.rules : Passes(r, line)},
                                  !.also  = t.also \cup in.also]
        Line(t, line) ==
            LET c == Charge(t, 1)
            IN  IF ~t.ok THEN Bad ELSE IF ~c.ok THEN Bad
                ELSE CASE line.type = "include" -> Include(line, c)
                       [] line.type = "regexp"  -> c
                       [] OTHER -> [c EXCEPT !.rules = @ \cup {Rule(line)},
                                             !.also  = @ \cup {<<a, Rule(line)>> : a \in line.also}]
        first == Charge([s EXCEPT !.rules = own, !.also = {}], Cardinality(own))
        all   == FoldLeft(Line, first, Files[f])
    IN  IF depth > MaxDepth \/ f \notin DOMAIN Files THEN Bad
        ELSE IF f \in DOMAIN s.cache
             THEN [s EXCEPT !.rules = s.cache[f].rules, !.also = s.cache[f].also]
        ELSE IF f \in visiting THEN Bad
        ELSE IF ~all.ok THEN Bad
        ELSE [all EXCEPT !.cache = [x \in DOMAIN all.cache \cup {f} |->
                                        IF x = f THEN [rules |-> all.rules, also |-> all.also]
                                        ELSE all.cache[x]]]

Fresh == [ok |-> TRUE, work |-> 0, cache |-> <<>>, rules |-> {}, also |-> {}]

\* apply_v2fly and add_v2_rule: the rules of the file under its category, those that name a
\* category under that one, each also under the category with each of its attributes.
Apply(f, category) ==
    LET lines == FoldFunction(LAMBDA l, n : Len(l) + n, 0, Files)
        c     == Collect(f, 0, {}, Charge(Fresh, lines))
        named == {<<category, r>> : r \in c.rules} \cup {<<Sibling(e[1]), e[2]>> : e \in c.also \cup Global}
        done  == Charge(c, MapThenSumSet(LAMBDA e : 1 + Cardinality(e[2].attrs), named))
    IN  IF lines > MaxWork THEN Bad ELSE IF ~c.ok THEN Bad ELSE IF ~done.ok THEN Bad
        ELSE [ok |-> TRUE, count |-> Cardinality(c.rules),
              entries |-> {[category |-> e[1], attr |-> a, rule |-> e[2].rule] :
                                e \in named, a \in {"none"}}
                          \cup UNION {{[category |-> e[1], attr |-> a, rule |-> e[2].rule] :
                                            a \in e[2].attrs} : e \in named}]

\* apply_manifest: a source without a rule is refused.
Applied(f, category) ==
    LET a == Apply(f, category) IN IF ~a.ok THEN Bad ELSE IF a.count = 0 THEN Bad ELSE a
==============================================================================
