-------------------------- MODULE Connection_proofs ---------------------------
(***************************************************************************)
(* Proofs about Connection: the index of a policy finds what the order of  *)
(* the routes says, for every list of routes; the permits and the gauges   *)
(* are those of tasks that exist, within the limits; and a tunnel leaves   *)
(* through the outlet that one document chooses.                           *)
(***************************************************************************)
EXTENDS Connection, FiniteSetTheorems, WellFoundedInduction, TLAPS

-------------------------------------------------------------------------------
(* Numbers and finite sets *)

\* A set of natural numbers has a least element.  With it an induction is a proof
\* that no number is the least counterexample.
LEMMA LeastNumber ==
    ASSUME NEW T, T \subseteq Nat, T # {}
    PROVE  \E m \in T : \A k \in T : m <= k
<1> DEFINE R == OpToRel(<, Nat)
<1>1. IsWellFoundedOn(R, Nat)
  BY NatLessThanWellFounded
<1>2. \A x, y \in T : y < x => <<y, x>> \in R
  BY DEF OpToRel
<1> HIDE DEF R
<1>3. PICK m \in T : \A y \in T : ~ (<<y, m>> \in R)
  BY <1>1, WFMin
<1>4. \A k \in T : ~ (k < m)
  BY <1>2, <1>3, Zenon
<1>5. \A k \in T : k \in Int
  OBVIOUS
<1>6. m \in T /\ m \in Int
  BY <1>3
<1>7. \A k \in T : m <= k
  BY <1>4, <1>5, <1>6
<1>8. QED
  BY <1>3, <1>7

\* The least element of a set is the one Min chooses.
LEMMA MinIs ==
    ASSUME NEW T, T \subseteq Nat, NEW m \in T, \A k \in T : m <= k
    PROVE  Min(T) = m
<1>1. \A x \in T : (\A y \in T : x =< y) => x = m
  <2> SUFFICES ASSUME NEW x \in T, \A y \in T : x =< y
               PROVE  x = m
    OBVIOUS
  <2>1. x =< m /\ m <= x
    OBVIOUS
  <2>2. x \in Int /\ m \in Int
    OBVIOUS
  <2>3. QED
    BY <2>1, <2>2
<1>2. \E x \in T : \A y \in T : x =< y
  OBVIOUS
<1>3. QED
  BY <1>1, <1>2 DEF Min

-------------------------------------------------------------------------------
(* The index of a policy *)

\* The first k stages of the index of a list of routes.
Built(f, routes, k) ==
    f = [n \in 0 .. k |->
            IF n = 0 THEN EmptyIndex
            ELSE IndexInto(FromRules(routes[n].selectors), n, f[n - 1])]

LEMMA BuiltExists ==
    ASSUME NEW routes, NEW k \in Nat
    PROVE  \E f : Built(f, routes, k)
<1> DEFINE Bad == {j \in Nat : ~ \E f : Built(f, routes, j)}
<1> SUFFICES ASSUME Bad # {} PROVE FALSE
  OBVIOUS
<1>1. PICK m \in Bad : \A j \in Bad : m <= j
  BY LeastNumber
<1>2. m # 0
  <2> DEFINE f == [n \in 0 .. 0 |-> EmptyIndex]
  <2>1. f = [n \in 0 .. 0 |->
                IF n = 0 THEN EmptyIndex
                ELSE IndexInto(FromRules(routes[n].selectors), n, f[n - 1])]
    OBVIOUS
  <2>2. Built(f, routes, 0)
    BY <2>1 DEF Built
  <2>3. QED
    BY <2>2
<1>3. m - 1 \in Nat /\ m - 1 \notin Bad
  BY <1>1, <1>2
<1>4. PICK g : Built(g, routes, m - 1)
  BY <1>3
<1> DEFINE Top == IndexInto(FromRules(routes[m].selectors), m, g[m - 1])
           f == [n \in 0 .. m |-> IF n = m THEN Top ELSE g[n]]
<1>5. \A n \in 0 .. m - 1 :
          g[n] = IF n = 0 THEN EmptyIndex
                 ELSE IndexInto(FromRules(routes[n].selectors), n, g[n - 1])
  BY <1>4 DEF Built
<1>6. m \in Nat \ {0}
  BY <1>1, <1>2
<1> HIDE DEF Top
<1>7. /\ f[m] = Top
      /\ \A n \in 0 .. m - 1 : f[n] = g[n]
      /\ f[m - 1] = g[m - 1]
  BY <1>6
<1>8. \A n \in 0 .. m :
          f[n] = IF n = 0 THEN EmptyIndex
                 ELSE IndexInto(FromRules(routes[n].selectors), n, f[n - 1])
  <2> SUFFICES ASSUME NEW n \in 0 .. m
               PROVE  f[n] = IF n = 0 THEN EmptyIndex
                             ELSE IndexInto(FromRules(routes[n].selectors), n, f[n - 1])
    OBVIOUS
  <2>1. CASE n = m
    BY <2>1, <1>6, <1>7 DEF Top
  <2>2. CASE n # m
    <3>1. n \in 0 .. m - 1 /\ (n # 0 => n - 1 \in 0 .. m - 1)
      BY <2>2, <1>6
    <3>2. QED
      BY <3>1, <1>5, <1>7
  <2>3. QED
    BY <2>1, <2>2
<1>9. Built(f, routes, m)
  BY <1>8 DEF Built
<1>10. QED
  BY <1>1, <1>9

LEMMA FromRoutesBuilt ==
    ASSUME NEW routes, Len(routes) \in Nat
    PROVE  \E f : Built(f, routes, Len(routes)) /\ FromRoutes(routes) = f[Len(routes)]
<1> DEFINE f == CHOOSE f : Built(f, routes, Len(routes))
<1>1. Built(f, routes, Len(routes))
  BY BuiltExists
<1>2. FromRoutes(routes) = f[Len(routes)]
  BY DEF FromRoutes, Built
<1>3. QED
  BY <1>1, <1>2

\* What the fields of an index say of the first n routes, whose rules of one kind
\* are K[1], ..., K[n]: a map leads a key to the first route that has it, a list
\* holds every rule with its route.
IsMinMap(map, K, n) ==
    /\ \A k : k \in DOMAIN map <=> \E i \in 1 .. n : k \in K[i]
    /\ \A k \in DOMAIN map :
        /\ map[k] \in 1 .. n /\ k \in K[map[k]]
        /\ \A i \in 1 .. n : k \in K[i] => map[k] <= i

IsList(E, K, n) == \A e : e \in E <=> \E i \in 1 .. n : \E w \in K[i] : e = <<w, i>>

IsBookList(E, K, n) == \A e : e \in E <=> \E i \in 1 .. n : K[i] # {} /\ e = <<K[i], i>>

Fulls(routes)    == [i \in 1 .. Len(routes) |-> FromRules(routes[i].selectors).full]
Domains(routes)  == [i \in 1 .. Len(routes) |-> FromRules(routes[i].selectors).domain]
Keywords(routes) == [i \in 1 .. Len(routes) |-> FromRules(routes[i].selectors).keyword]
Exacts(routes)   == [i \in 1 .. Len(routes) |-> FromRules(routes[i].selectors).exact]
Cidrs(routes)    == [i \in 1 .. Len(routes) |-> FromRules(routes[i].selectors).cidrs]
Books(routes)    == [i \in 1 .. Len(routes) |-> FromRules(routes[i].selectors).book]

IndexSound(ix, routes, n) ==
    /\ IsMinMap(ix.full, Fulls(routes), n)
    /\ IsMinMap(ix.suffix, Domains(routes), n)
    /\ IsList(ix.keywords, Keywords(routes), n)
    /\ IsMinMap(ix.exact_ip, Exacts(routes), n)
    /\ IsList(ix.cidrs, Cidrs(routes), n)
    /\ IsBookList(ix.books, Books(routes), n)

LEMMA NoteMinSound ==
    ASSUME NEW map, NEW K, NEW n \in Nat \ {0}, IsMinMap(map, K, n - 1)
    PROVE  IsMinMap(NoteMin(map, K[n], n), K, n)
<1> DEFINE new == NoteMin(map, K[n], n)
<1>1. DOMAIN new = DOMAIN map \cup K[n]
  BY DEF NoteMin
<1>2. 1 .. n = (1 .. n - 1) \cup {n}
  OBVIOUS
<1>3. \A k : k \in DOMAIN new <=> \E i \in 1 .. n : k \in K[i]
  BY <1>1, <1>2 DEF IsMinMap
<1>4. ASSUME NEW k \in DOMAIN new
      PROVE  /\ new[k] \in 1 .. n /\ k \in K[new[k]]
             /\ \A i \in 1 .. n : k \in K[i] => new[k] <= i
  <2>1. CASE k \in DOMAIN map
    <3>1. /\ map[k] \in 1 .. n - 1 /\ k \in K[map[k]]
          /\ \A i \in 1 .. n - 1 : k \in K[i] => map[k] <= i
      BY <2>1 DEF IsMinMap
    <3>2. map[k] <= n
      BY <3>1
    <3>3. new[k] = map[k]
      BY <2>1, <3>2, <1>1 DEF NoteMin
    <3>4. \A i \in 1 .. n : k \in K[i] => map[k] <= i
      BY <3>1, <3>2, <1>2
    <3>5. QED
      BY <3>1, <3>3, <3>4
  <2>2. CASE k \notin DOMAIN map
    <3>1. k \in K[n] /\ new[k] = n
      BY <2>2, <1>1, <1>4 DEF NoteMin
    <3>2. \A i \in 1 .. n - 1 : k \notin K[i]
      BY <2>2 DEF IsMinMap
    <3>3. \A i \in 1 .. n : k \in K[i] => i = n
      BY <3>2, <1>2
    <3>4. QED
      BY <3>1, <3>3
  <2>3. QED
    BY <2>1, <2>2
<1> HIDE DEF new
<1>5. IsMinMap(new, K, n)
  BY <1>3, <1>4 DEF IsMinMap
<1>6. QED
  BY <1>5 DEF new

LEMMA ListSound ==
    ASSUME NEW E, NEW K, NEW n \in Nat \ {0}, IsList(E, K, n - 1)
    PROVE  IsList(E \cup (K[n] \X {n}), K, n)
<1>1. 1 .. n = (1 .. n - 1) \cup {n}
  OBVIOUS
<1>2. \A e : e \in K[n] \X {n} <=> \E w \in K[n] : e = <<w, n>>
  OBVIOUS
<1>3. ASSUME NEW e
      PROVE  e \in E \cup (K[n] \X {n}) <=> \E i \in 1 .. n : \E w \in K[i] : e = <<w, i>>
  <2>1. e \in E <=> \E i \in 1 .. n - 1 : \E w \in K[i] : e = <<w, i>>
    BY DEF IsList
  <2>2. QED
    BY <1>1, <1>2, <2>1, Zenon
<1>4. QED
  BY <1>3 DEF IsList

LEMMA BookListSound ==
    ASSUME NEW E, NEW K, NEW n \in Nat \ {0}, IsBookList(E, K, n - 1)
    PROVE  IsBookList(E \cup IF K[n] = {} THEN {} ELSE {<<K[n], n>>}, K, n)
<1>1. 1 .. n = (1 .. n - 1) \cup {n}
  OBVIOUS
<1>2. ASSUME NEW e
      PROVE  e \in E \cup (IF K[n] = {} THEN {} ELSE {<<K[n], n>>})
                 <=> \E i \in 1 .. n : K[i] # {} /\ e = <<K[i], i>>
  <2>1. e \in E <=> \E i \in 1 .. n - 1 : K[i] # {} /\ e = <<K[i], i>>
    BY DEF IsBookList
  <2>2. e \in (IF K[n] = {} THEN {} ELSE {<<K[n], n>>}) <=> K[n] # {} /\ e = <<K[n], n>>
    OBVIOUS
  <2>3. QED
    BY <1>1, <2>1, <2>2, Zenon
<1>3. QED
  BY <1>2 DEF IsBookList

\* Every stage of the index is sound for the routes it holds.
LEMMA StagesSound ==
    ASSUME NEW routes, Len(routes) \in Nat, NEW f, Built(f, routes, Len(routes))
    PROVE  \A n \in 0 .. Len(routes) : IndexSound(f[n], routes, n)
<1> DEFINE Bad == {n \in 0 .. Len(routes) : ~ IndexSound(f[n], routes, n)}
<1> SUFFICES ASSUME Bad # {} PROVE FALSE
  OBVIOUS
<1>1. PICK m \in Bad : \A j \in Bad : m <= j
  <2>1. Bad \subseteq Nat
    OBVIOUS
  <2>2. QED
    BY <2>1, LeastNumber
<1>2. m \in 0 .. Len(routes) /\ ~ IndexSound(f[m], routes, m)
  BY <1>1
<1>3. CASE m = 0
  <2>1. f[0] = EmptyIndex
    BY DEF Built
  <2>2. IndexSound(EmptyIndex, routes, 0)
    BY DEF IndexSound, EmptyIndex, IsMinMap, IsList, IsBookList
  <2>3. QED
    BY <1>2, <1>3, <2>1, <2>2
<1>4. CASE m # 0
  <2> DEFINE rs  == FromRules(routes[m].selectors)
             old == f[m - 1]
  <2>1. m \in Nat \ {0} /\ m \in 1 .. Len(routes) /\ m - 1 \in 0 .. Len(routes)
    BY <1>2, <1>4
  <2>2. f[m] = IndexInto(rs, m, old)
    BY <2>1 DEF Built
  <2>3. IndexSound(old, routes, m - 1)
    BY <1>1, <2>1
  <2>4. /\ Fulls(routes)[m] = rs.full /\ Domains(routes)[m] = rs.domain
        /\ Keywords(routes)[m] = rs.keyword /\ Exacts(routes)[m] = rs.exact
        /\ Cidrs(routes)[m] = rs.cidrs /\ Books(routes)[m] = rs.book
    BY <2>1 DEF Fulls, Domains, Keywords, Exacts, Cidrs, Books
  <2> HIDE DEF rs, old
  <2>5. IsMinMap(NoteMin(old.full, rs.full, m), Fulls(routes), m)
    BY <2>1, <2>3, <2>4, NoteMinSound DEF IndexSound
  <2>6. IsMinMap(NoteMin(old.suffix, rs.domain, m), Domains(routes), m)
    BY <2>1, <2>3, <2>4, NoteMinSound DEF IndexSound
  <2>7. IsMinMap(NoteMin(old.exact_ip, rs.exact, m), Exacts(routes), m)
    BY <2>1, <2>3, <2>4, NoteMinSound DEF IndexSound
  <2>8. IsList(old.keywords \cup (rs.keyword \X {m}), Keywords(routes), m)
    BY <2>1, <2>3, <2>4, ListSound DEF IndexSound
  <2>9. IsList(old.cidrs \cup (rs.cidrs \X {m}), Cidrs(routes), m)
    BY <2>1, <2>3, <2>4, ListSound DEF IndexSound
  <2>10. IsBookList(old.books \cup IF rs.book = {} THEN {} ELSE {<<rs.book, m>>},
                    Books(routes), m)
    <3>1. IsBookList(old.books, Books(routes), m - 1)
      BY <2>3 DEF IndexSound
    <3>2. QED
      BY <2>1, <2>4, <3>1, BookListSound
  <2>11. IndexSound(IndexInto(rs, m, old), routes, m)
    BY <2>5, <2>6, <2>7, <2>8, <2>9, <2>10 DEF IndexSound, IndexInto
  <2>12. QED
    BY <1>2, <2>2, <2>11
<1>5. QED
  BY <1>3, <1>4

\* The look-ups in a map and in a list find routes that have the rule, and among
\* them one that is not behind any other.
LEMMA ExactlyFinds ==
    ASSUME NEW map, NEW K, NEW n \in Nat, IsMinMap(map, K, n), NEW path
    PROVE  /\ \A j \in Exactly(map, path) : j \in 1 .. n /\ path \in K[j]
           /\ \A i \in 1 .. n : path \in K[i] => \E j \in Exactly(map, path) : j <= i
<1>1. \A j : j \in Exactly(map, path) <=> path \in DOMAIN map /\ j = map[path]
  BY DEF Exactly
<1>2. QED
  BY <1>1 DEF IsMinMap

LEMMA AlongFinds ==
    ASSUME NEW map, NEW K, NEW n \in Nat, IsMinMap(map, K, n), NEW path
    PROVE  /\ \A j \in Along(map, path) : j \in 1 .. n /\ \E d \in K[j] : IsPrefix(d, path)
           /\ \A i \in 1 .. n : \A d \in K[i] :
                IsPrefix(d, path) => \E j \in Along(map, path) : j <= i
<1>1. \A j : j \in Along(map, path) <=> \E p \in DOMAIN map : IsPrefix(p, path) /\ j = map[p]
  BY DEF Along
<1>2. ASSUME NEW j \in Along(map, path)
      PROVE  j \in 1 .. n /\ \E d \in K[j] : IsPrefix(d, path)
  <2>1. PICK p \in DOMAIN map : IsPrefix(p, path) /\ j = map[p]
    BY <1>1, <1>2
  <2>2. QED
    BY <2>1 DEF IsMinMap
<1>3. ASSUME NEW i \in 1 .. n, NEW d \in K[i], IsPrefix(d, path)
      PROVE  \E j \in Along(map, path) : j <= i
  <2>1. d \in DOMAIN map /\ map[d] <= i
    BY <1>3 DEF IsMinMap
  <2>2. map[d] \in Along(map, path)
    BY <1>1, <1>3, <2>1
  <2>3. QED
    BY <2>1, <2>2
<1>4. QED
  BY <1>2, <1>3

LEMMA ListFinds ==
    ASSUME NEW E, NEW K, NEW n \in Nat, IsList(E, K, n), NEW W
    PROVE  \A j : j \in {e[2] : e \in {e \in E : e[1] \in W}}
                      <=> j \in 1 .. n /\ \E w \in K[j] : w \in W
<1> SUFFICES ASSUME NEW j
             PROVE  j \in {e[2] : e \in {e \in E : e[1] \in W}}
                        <=> j \in 1 .. n /\ \E w \in K[j] : w \in W
  OBVIOUS
<1>1. ASSUME j \in {e[2] : e \in {e \in E : e[1] \in W}}
      PROVE  j \in 1 .. n /\ \E w \in K[j] : w \in W
  <2>1. PICK e \in E : e[1] \in W /\ j = e[2]
    BY <1>1
  <2>2. PICK i \in 1 .. n : \E w \in K[i] : e = <<w, i>>
    BY <2>1 DEF IsList
  <2>3. QED
    BY <2>1, <2>2
<1>2. ASSUME j \in 1 .. n, NEW w \in K[j], w \in W
      PROVE  j \in {e[2] : e \in {e \in E : e[1] \in W}}
  <2>1. <<w, j>> \in E
    BY <1>2 DEF IsList
  <2>2. QED
    BY <1>2, <2>1
<1>3. QED
  BY <1>1, <1>2

LEMMA PrefixListFinds ==
    ASSUME NEW E, NEW K, NEW n \in Nat, IsList(E, K, n), NEW path
    PROVE  \A j : j \in {e[2] : e \in {e \in E : IsPrefix(e[1], path)}}
                      <=> j \in 1 .. n /\ \E w \in K[j] : IsPrefix(w, path)
<1> SUFFICES ASSUME NEW j
             PROVE  j \in {e[2] : e \in {e \in E : IsPrefix(e[1], path)}}
                        <=> j \in 1 .. n /\ \E w \in K[j] : IsPrefix(w, path)
  OBVIOUS
<1>1. ASSUME j \in {e[2] : e \in {e \in E : IsPrefix(e[1], path)}}
      PROVE  j \in 1 .. n /\ \E w \in K[j] : IsPrefix(w, path)
  <2>1. PICK e \in E : IsPrefix(e[1], path) /\ j = e[2]
    BY <1>1
  <2>2. PICK i \in 1 .. n : \E w \in K[i] : e = <<w, i>>
    BY <2>1 DEF IsList
  <2>3. QED
    BY <2>1, <2>2
<1>2. ASSUME j \in 1 .. n, NEW w \in K[j], IsPrefix(w, path)
      PROVE  j \in {e[2] : e \in {e \in E : IsPrefix(e[1], path)}}
  <2>1. <<w, j>> \in E
    BY <1>2 DEF IsList
  <2>2. IsPrefix(<<w, j>>[1], path) /\ <<w, j>>[2] = j
    BY <1>2
  <2>3. QED
    BY <2>1, <2>2
<1>3. QED
  BY <1>1, <1>2

LEMMA BookListFinds ==
    ASSUME NEW E, NEW K, NEW n \in Nat, IsBookList(E, K, n), NEW h
    PROVE  \A j : j \in {e[2] : e \in {e \in E : MatchesBook(e[1], h)}}
                      <=> j \in 1 .. n /\ MatchesBook(K[j], h)
<1> SUFFICES ASSUME NEW j
             PROVE  j \in {e[2] : e \in {e \in E : MatchesBook(e[1], h)}}
                        <=> j \in 1 .. n /\ MatchesBook(K[j], h)
  OBVIOUS
<1>1. ASSUME j \in {e[2] : e \in {e \in E : MatchesBook(e[1], h)}}
      PROVE  j \in 1 .. n /\ MatchesBook(K[j], h)
  <2>1. PICK e \in E : MatchesBook(e[1], h) /\ j = e[2]
    BY <1>1
  <2>2. PICK i \in 1 .. n : e = <<K[i], i>>
    BY <2>1 DEF IsBookList
  <2>3. QED
    BY <2>1, <2>2
<1>2. ASSUME j \in 1 .. n, MatchesBook(K[j], h)
      PROVE  j \in {e[2] : e \in {e \in E : MatchesBook(e[1], h)}}
  <2>1. K[j] # {}
    BY <1>2 DEF MatchesBook
  <2>2. <<K[j], j>> \in E
    BY <1>2, <2>1 DEF IsBookList
  <2>3. MatchesBook(<<K[j], j>>[1], h) /\ <<K[j], j>>[2] = j
    BY <1>2
  <2>4. QED
    BY <2>2, <2>3
<1>3. QED
  BY <1>1, <1>2

\* RouteIndex::first_match: for every list of routes and every host, the look-up in
\* the index of a policy finds the first route with a rule that matches, and none
\* if there is none.  Merging the rules of all routes into shared maps never lets
\* a later route win, whatever kinds of rules overlap.
THEOREM IndexFindsFirst ==
    ASSUME NEW routes, Len(routes) \in Nat, DOMAIN routes = 1 .. Len(routes), NEW h
    PROVE  FirstMatch(FromRoutes(routes), h) = FirstRoute(routes, h)
<1> DEFINE N     == Len(routes)
           F(i)  == FromRules(routes[i].selectors)
           ix    == FromRoutes(routes)
           address == Exactly(ix.exact_ip, h.path)
                          \cup {e[2] : e \in {e \in ix.cidrs : IsPrefix(e[1], h.path)}}
           name    == Exactly(ix.full, h.path) \cup Along(ix.suffix, h.path)
                          \cup {e[2] : e \in {e \in ix.keywords : e[1] \in h.words}}
           book    == {e[2] : e \in {e \in ix.books : MatchesBook(e[1], h)}}
           found   == book \cup IF h.ip THEN address
                                ELSE IF h.path = <<>> THEN {} ELSE name
           matching == {i \in DOMAIN routes : Matches(F(i), h)}
<1>1. IndexSound(ix, routes, N)
  <2>1. PICK f : Built(f, routes, N) /\ ix = f[N]
    BY FromRoutesBuilt
  <2>2. N \in 0 .. N
    OBVIOUS
  <2>3. QED
    BY <2>1, <2>2, StagesSound
<1>2. /\ FirstMatch(FromRoutes(routes), h) = IF found = {} THEN 0 ELSE Min(found)
      /\ FirstRoute(routes, h) = IF matching = {} THEN 0 ELSE Min(matching)
  BY DEF FirstMatch, FirstRoute
<1>3. \A i \in 1 .. N :
          /\ Fulls(routes)[i] = F(i).full /\ Domains(routes)[i] = F(i).domain
          /\ Keywords(routes)[i] = F(i).keyword /\ Exacts(routes)[i] = F(i).exact
          /\ Cidrs(routes)[i] = F(i).cidrs /\ Books(routes)[i] = F(i).book
  BY DEF Fulls, Domains, Keywords, Exacts, Cidrs, Books
<1> HIDE DEF F, ix
<1>4. /\ \A j \in book : j \in 1 .. N /\ MatchesBook(F(j).book, h)
      /\ \A i \in 1 .. N : MatchesBook(F(i).book, h) => i \in book
  <2>1. \A j : j \in book <=> j \in 1 .. N /\ MatchesBook(Books(routes)[j], h)
    BY <1>1, BookListFinds DEF IndexSound
  <2>2. QED
    BY <2>1, <1>3
<1>5. /\ \A j \in address : j \in 1 .. N /\ MatchesAddress(F(j), h)
      /\ \A i \in 1 .. N : MatchesAddress(F(i), h) => \E j \in address : j <= i
  <2>1. /\ \A j \in Exactly(ix.exact_ip, h.path) : j \in 1 .. N /\ h.path \in Exacts(routes)[j]
        /\ \A i \in 1 .. N : h.path \in Exacts(routes)[i]
               => \E j \in Exactly(ix.exact_ip, h.path) : j <= i
    BY <1>1, ExactlyFinds DEF IndexSound
  <2>2. \A j : j \in {e[2] : e \in {e \in ix.cidrs : IsPrefix(e[1], h.path)}}
                   <=> j \in 1 .. N /\ \E w \in Cidrs(routes)[j] : IsPrefix(w, h.path)
    BY <1>1, PrefixListFinds DEF IndexSound
  <2> DEFINE A == Exactly(ix.exact_ip, h.path)
             B == {e[2] : e \in {e \in ix.cidrs : IsPrefix(e[1], h.path)}}
  <2>3. address = A \cup B
    OBVIOUS
  <2>4. \A i \in 1 .. N : i <= i
    OBVIOUS
  <2> HIDE DEF A, B, address
  <2>5. /\ \A j \in A : j \in 1 .. N /\ h.path \in F(j).exact
        /\ \A i \in 1 .. N : h.path \in F(i).exact => \E j \in A : j <= i
    BY <2>1, <1>3 DEF A
  <2>6. \A j : j \in B <=> j \in 1 .. N /\ \E w \in F(j).cidrs : IsPrefix(w, h.path)
    BY <2>2, <1>3 DEF B
  <2>7. QED
    BY <2>3, <2>4, <2>5, <2>6 DEF MatchesAddress
<1>6. ASSUME h.path # <<>>
      PROVE  /\ \A j \in name : j \in 1 .. N /\ MatchesDomain(F(j), h)
             /\ \A i \in 1 .. N : MatchesDomain(F(i), h) => \E j \in name : j <= i
  <2>1. /\ \A j \in Exactly(ix.full, h.path) : j \in 1 .. N /\ h.path \in Fulls(routes)[j]
        /\ \A i \in 1 .. N : h.path \in Fulls(routes)[i]
               => \E j \in Exactly(ix.full, h.path) : j <= i
    BY <1>1, ExactlyFinds DEF IndexSound
  <2>2. /\ \A j \in Along(ix.suffix, h.path) :
               j \in 1 .. N /\ \E d \in Domains(routes)[j] : IsPrefix(d, h.path)
        /\ \A i \in 1 .. N : \A d \in Domains(routes)[i] :
               IsPrefix(d, h.path) => \E j \in Along(ix.suffix, h.path) : j <= i
    BY <1>1, AlongFinds DEF IndexSound
  <2>3. \A j : j \in {e[2] : e \in {e \in ix.keywords : e[1] \in h.words}}
                   <=> j \in 1 .. N /\ \E w \in Keywords(routes)[j] : w \in h.words
    BY <1>1, ListFinds DEF IndexSound
  <2> DEFINE A == Exactly(ix.full, h.path)
             B == Along(ix.suffix, h.path)
             C == {e[2] : e \in {e \in ix.keywords : e[1] \in h.words}}
  <2>4. name = A \cup B \cup C
    OBVIOUS
  <2>5. \A i \in 1 .. N : i <= i
    OBVIOUS
  <2> HIDE DEF A, B, C, name
  <2>6. /\ \A j \in A : j \in 1 .. N /\ h.path \in F(j).full
        /\ \A i \in 1 .. N : h.path \in F(i).full => \E j \in A : j <= i
    BY <2>1, <1>3 DEF A
  <2>7. /\ \A j \in B : j \in 1 .. N /\ \E d \in F(j).domain : IsPrefix(d, h.path)
        /\ \A i \in 1 .. N : \A d \in F(i).domain :
               IsPrefix(d, h.path) => \E j \in B : j <= i
    BY <2>2, <1>3 DEF B
  <2>8. \A j : j \in C <=> j \in 1 .. N /\ F(j).keyword \cap h.words # {}
    BY <2>3, <1>3 DEF C
  <2>9. \A i : MatchesDomain(F(i), h) <=>
            \/ h.path \in F(i).full
            \/ \E d \in F(i).domain : IsPrefix(d, h.path)
            \/ F(i).keyword \cap h.words # {}
    BY <1>6 DEF MatchesDomain
  <2>10. QED
    BY <2>4, <2>5, <2>6, <2>7, <2>8, <2>9
<1>7. \A i \in 1 .. N : Matches(F(i), h) <=>
          \/ MatchesBook(F(i).book, h)
          \/ h.ip /\ MatchesAddress(F(i), h)
          \/ ~ h.ip /\ h.path # <<>> /\ MatchesDomain(F(i), h)
  BY DEF Matches, MatchesDomain
<1>8. /\ matching = {i \in 1 .. N : Matches(F(i), h)}
      /\ \A i \in 1 .. N : i <= i
  OBVIOUS
<1>9. /\ h.ip => found = book \cup address
      /\ ~ h.ip /\ h.path # <<>> => found = book \cup name
      /\ ~ h.ip /\ h.path = <<>> => found = book
  OBVIOUS
<1> HIDE DEF address, name, book, found, matching
<1>10. found \subseteq matching
  BY <1>4, <1>5, <1>6, <1>7, <1>8, <1>9
<1>11. \A i \in matching : \E j \in found : j <= i
  BY <1>4, <1>5, <1>6, <1>7, <1>8, <1>9
<1>12. CASE matching = {}
  BY <1>2, <1>10, <1>12
<1>13. CASE matching # {}
  <2>1. matching \subseteq Nat
    BY <1>8
  <2>2. PICK m \in matching : \A k \in matching : m <= k
    BY <1>13, <2>1, LeastNumber
  <2>3. PICK j \in found : j <= m
    BY <1>11, <2>2
  <2>4. j = m
    <3>1. j \in matching /\ m <= j
      BY <1>10, <2>2, <2>3
    <3>2. j \in Int /\ m \in Int
      BY <2>1, <2>2, <3>1
    <3>3. QED
      BY <2>3, <3>1, <3>2
  <2>5. Min(matching) = m
    BY <2>1, <2>2, MinIs
  <2>6. m \in found /\ found \subseteq Nat /\ \A k \in found : m <= k
    BY <1>10, <2>1, <2>2, <2>3, <2>4
  <2>7. Min(found) = m
    BY <2>6, MinIs
  <2>8. QED
    BY <1>2, <1>13, <2>5, <2>6, <2>7
<1>14. QED
  BY <1>12, <1>13

-------------------------------------------------------------------------------
(* The order of a chain *)

\* The members of a chain in a document.
IsMembers(ms) ==
    /\ IsFiniteSet(ms) /\ ms \subseteq ChainMember
    /\ \A m, n \in ms : m # n => m.priority # n.priority

InOrder(s, ms) ==
    /\ s \in [1 .. Cardinality(ms) -> ms]
    /\ \A i, j \in DOMAIN s : i < j => s[i].priority < s[j].priority

UpTo(ms, m) == {n \in ms : n.priority <= m.priority}

LEMMA SortExists ==
    ASSUME NEW ms, IsMembers(ms)
    PROVE  \E s : InOrder(s, ms)
<1> DEFINE size == Cardinality(ms)
           rank == [m \in ms |-> Cardinality(UpTo(ms, m))]
<1>1. size \in Nat /\ IsFiniteSet(ms)
  BY FS_CardinalityType DEF IsMembers
<1>2. \A m \in ms : m.priority \in Nat
  BY DEF IsMembers, ChainMember
<1>3. ASSUME NEW m \in ms
      PROVE  /\ IsFiniteSet(UpTo(ms, m)) /\ Cardinality(UpTo(ms, m)) \in 1 .. size
  <2>1. UpTo(ms, m) \in SUBSET ms /\ m \in UpTo(ms, m)
    BY <1>2, <1>3 DEF UpTo
  <2>2. IsFiniteSet(UpTo(ms, m)) /\ Cardinality(UpTo(ms, m)) <= size
    BY <1>1, <2>1, FS_Subset
  <2>3. Cardinality(UpTo(ms, m)) \in Nat
    BY <2>2, FS_CardinalityType
  <2>4. Cardinality(UpTo(ms, m)) # 0
    BY <2>1, <2>2, FS_EmptySet
  <2>5. QED
    BY <1>1, <2>2, <2>3, <2>4
<1>4. ASSUME NEW m \in ms, NEW k \in ms, m.priority < k.priority
      PROVE  rank[m] < rank[k]
  <2>1. UpTo(ms, m) \in SUBSET UpTo(ms, k)
    BY <1>2, <1>4 DEF UpTo
  <2>2. k \in UpTo(ms, k) /\ k \notin UpTo(ms, m)
    BY <1>2, <1>4 DEF UpTo
  <2>3. /\ Cardinality(UpTo(ms, m)) <= Cardinality(UpTo(ms, k))
        /\ Cardinality(UpTo(ms, m)) # Cardinality(UpTo(ms, k))
    BY <1>3, <2>1, <2>2, FS_Subset
  <2>4. QED
    BY <1>3, <2>3
<1>5. rank \in [ms -> 1 .. size]
  BY <1>3
<1> HIDE DEF rank
<1>6. \A m, k \in ms : rank[m] = rank[k] => m = k
  <2> SUFFICES ASSUME NEW m \in ms, NEW k \in ms, m # k
               PROVE  rank[m] # rank[k]
    OBVIOUS
  <2>1. m.priority < k.priority \/ k.priority < m.priority
    BY <1>2 DEF IsMembers
  <2>2. rank[m] < rank[k] \/ rank[k] < rank[m]
    BY <1>4, <2>1
  <2>3. rank[m] \in Nat /\ rank[k] \in Nat
    BY <1>5, <1>1
  <2>4. QED
    BY <2>2, <2>3
<1>7. rank \in Injection(ms, 1 .. size)
  BY <1>5, <1>6 DEF Injection, IsInjective
<1>8. IsFiniteSet(1 .. size) /\ Cardinality(1 .. size) = size
  <2>1. /\ IsFiniteSet(1 .. size)
        /\ Cardinality(1 .. size) = IF 1 > size THEN 0 ELSE size - 1 + 1
    BY <1>1, FS_Interval
  <2>2. QED
    BY <1>1, <2>1
<1>9. rank \in Surjection(ms, 1 .. size)
  BY <1>7, <1>8, FS_Injection
<1>10. \A i \in 1 .. size : \E m \in ms : rank[m] = i
  BY <1>9 DEF Surjection
<1> DEFINE s == [i \in 1 .. size |-> CHOOSE m \in ms : rank[m] = i]
<1>11. s \in [1 .. size -> ms] /\ \A i \in 1 .. size : rank[s[i]] = i
  BY <1>10
<1> HIDE DEF s
<1>12. ASSUME NEW i \in 1 .. size, NEW j \in 1 .. size, i < j
       PROVE  s[i].priority < s[j].priority
  <2>1. s[i] \in ms /\ s[j] \in ms /\ rank[s[i]] = i /\ rank[s[j]] = j
    BY <1>11
  <2>2. s[i] # s[j]
    BY <1>12, <2>1
  <2>3. s[i].priority < s[j].priority \/ s[j].priority < s[i].priority
    BY <1>2, <2>1, <2>2 DEF IsMembers
  <2>4. s[j].priority < s[i].priority => j < i
    BY <1>4, <2>1
  <2>5. ~ (j < i)
    BY <1>1, <1>12
  <2>6. QED
    BY <2>3, <2>4, <2>5
<1>13. DOMAIN s = 1 .. size
  BY <1>11
<1>14. InOrder(s, ms)
  BY <1>11, <1>12, <1>13 DEF InOrder
<1>15. QED
  BY <1>14

\* In a sorted list the i-th member is preceded by i - 1 members.
LEMMA SortedRank ==
    ASSUME NEW ms, IsMembers(ms), NEW s, InOrder(s, ms), NEW i \in 1 .. Cardinality(ms)
    PROVE  s[i] \in ms /\ Cardinality(UpTo(ms, s[i])) = i
<1> DEFINE size == Cardinality(ms)
<1>1. size \in Nat /\ IsFiniteSet(ms) /\ i \in Nat \ {0} /\ i <= size
  BY FS_CardinalityType DEF IsMembers
<1>2. s \in [1 .. size -> ms] /\ DOMAIN s = 1 .. size
  BY DEF InOrder
<1>3. \A m \in ms : m.priority \in Nat
  BY DEF IsMembers, ChainMember
<1>4. \A j \in 1 .. size : s[j] \in ms /\ s[j].priority \in Nat
  BY <1>2, <1>3
<1>5. \A j, k \in 1 .. size : j < k => s[j].priority < s[k].priority
  BY <1>2 DEF InOrder
<1>6. \A j, k \in 1 .. size : s[j].priority <= s[k].priority => j <= k
  BY <1>1, <1>4, <1>5
<1>7. \A j, k \in 1 .. size : s[j] = s[k] => j = k
  BY <1>1, <1>4, <1>6
<1>8. s \in Injection(1 .. size, ms)
  BY <1>2, <1>7 DEF Injection, IsInjective
<1>9. IsFiniteSet(1 .. size) /\ Cardinality(1 .. size) = size
  <2>1. /\ IsFiniteSet(1 .. size)
        /\ Cardinality(1 .. size) = IF 1 > size THEN 0 ELSE size - 1 + 1
    BY <1>1, FS_Interval
  <2>2. QED
    BY <1>1, <2>1
<1>10. s \in Surjection(1 .. size, ms)
  BY <1>1, <1>8, <1>9, FS_Injection
<1>11. \A m \in ms : \E j \in 1 .. size : s[j] = m
  BY <1>10 DEF Surjection
<1> DEFINE T == UpTo(ms, s[i])
           g == [j \in 1 .. i |-> s[j]]
<1>12. \A j \in 1 .. size : s[j] \in T <=> j <= i
  <2> SUFFICES ASSUME NEW j \in 1 .. size PROVE s[j] \in T <=> j <= i
    OBVIOUS
  <2>1. s[j] \in T <=> s[j].priority <= s[i].priority
    BY <1>4 DEF UpTo
  <2>2. j < i => s[j].priority <= s[i].priority
    BY <1>1, <1>4, <1>5
  <2>3. j = i => s[j].priority <= s[i].priority
    BY <1>4
  <2>4. QED
    BY <1>1, <1>6, <2>1, <2>2, <2>3
<1>13. g \in [1 .. i -> T]
  BY <1>1, <1>12
<1>14. \A j, k \in 1 .. i : g[j] = g[k] => j = k
  BY <1>1, <1>7
<1>15. \A t \in T : \E j \in 1 .. i : g[j] = t
  <2> SUFFICES ASSUME NEW t \in T PROVE \E j \in 1 .. i : g[j] = t
    OBVIOUS
  <2>1. PICK j \in 1 .. size : s[j] = t
    BY <1>11 DEF UpTo
  <2>2. j \in 1 .. i
    BY <1>1, <1>12, <2>1
  <2>3. QED
    BY <2>1, <2>2
<1> HIDE DEF T, g
<1>16. g \in Bijection(1 .. i, T)
  BY <1>13, <1>14, <1>15 DEF Bijection, Injection, Surjection, IsInjective
<1>17. ExistsBijection(1 .. i, T)
  BY <1>16 DEF ExistsBijection
<1>18. IsFiniteSet(1 .. i) /\ Cardinality(1 .. i) = i
  <2>1. /\ IsFiniteSet(1 .. i)
        /\ Cardinality(1 .. i) = IF 1 > i THEN 0 ELSE i - 1 + 1
    BY <1>1, FS_Interval
  <2>2. QED
    BY <1>1, <2>1
<1>19. Cardinality(T) = i
  BY <1>17, <1>18, FS_Bijection
<1>20. QED
  BY <1>4, <1>19 DEF T

-------------------------------------------------------------------------------
(* Decisions *)

CompiledChain == [type : {"chain"}, members : Seq(Upstream)]

\* A compiled action does what the action of a document says.
Realizes(d, a) ==
    \/ a \in {Block, Direct} /\ d = a
    \/ a.type = "via" /\ a \in Via /\ d = a
    \/ /\ a.type = "chain" /\ d \in CompiledChain /\ Len(d.members) # 0
       /\ \A i \in 1 .. Len(d.members) : \E m \in a.members :
            d.members[i] = m.upstream /\ Cardinality(UpTo(a.members, m)) = i

LEMMA ActionRealized ==
    ASSUME NEW a, IsAction(a)
    PROVE  Realizes(CompileAction(a), a)
<1>1. CASE a \in {Block, Direct}
  <2>1. a.type # "chain"
    BY <1>1 DEF Block, Direct
  <2>2. QED
    BY <1>1, <2>1 DEF Realizes, CompileAction
<1>2. CASE a.type = "via" /\ a \in Via
  BY <1>2 DEF Realizes, CompileAction
<1>3. CASE /\ a.type = "chain" /\ a \in Chain
           /\ a.members # {} /\ IsFiniteSet(a.members)
           /\ \A m, n \in a.members : m # n => m.priority # n.priority
  <2> DEFINE ms    == a.members
             size  == Cardinality(ms)
             order == CHOOSE s \in [1 .. size -> ms] :
                          \A i, j \in DOMAIN s : i < j => s[i].priority < s[j].priority
             d     == [type |-> "chain", members |-> [i \in DOMAIN order |-> order[i].upstream]]
  <2>1. IsMembers(ms)
    BY <1>3 DEF IsMembers, Chain
  <2>2. \E s \in [1 .. size -> ms] :
            \A i, j \in DOMAIN s : i < j => s[i].priority < s[j].priority
    BY <2>1, SortExists DEF InOrder
  <2>3. InOrder(order, ms)
    BY <2>2 DEF InOrder
  <2>4. CompileAction(a) = d
    BY <1>3 DEF CompileAction
  <2> HIDE DEF order
  <2>5. size \in Nat
    BY <2>1, FS_CardinalityType DEF IsMembers
  <2>6. DOMAIN order = 1 .. size
    BY <2>3 DEF InOrder
  <2>7. \A i \in 1 .. size : /\ order[i] \in ms /\ Cardinality(UpTo(ms, order[i])) = i
                             /\ order[i].upstream \in Upstream
    <3> SUFFICES ASSUME NEW i \in 1 .. size
                 PROVE  /\ order[i] \in ms /\ Cardinality(UpTo(ms, order[i])) = i
                        /\ order[i].upstream \in Upstream
      OBVIOUS
    <3>1. order[i] \in ms /\ Cardinality(UpTo(ms, order[i])) = i
      BY <2>1, <2>3, SortedRank
    <3>2. order[i] \in ChainMember
      BY <2>1, <3>1 DEF IsMembers
    <3>3. QED
      BY <3>1, <3>2 DEF ChainMember
  <2> DEFINE list == [i \in 1 .. size |-> order[i].upstream]
  <2>8. list \in Seq(Upstream) /\ Len(list) = size /\ size # 0
    BY <1>3, <2>5, <2>7, FS_EmptySet
  <2>9. \A i \in 1 .. Len(list) : \E m \in ms :
            list[i] = m.upstream /\ Cardinality(UpTo(ms, m)) = i
    BY <2>7, <2>8
  <2> HIDE DEF list
  <2>10. d = [type |-> "chain", members |-> list]
    BY <2>6 DEF list
  <2> HIDE DEF d
  <2>11. d \in CompiledChain /\ d.members = list
    BY <2>8, <2>10 DEF CompiledChain
  <2>12. QED
    BY <1>3, <2>4, <2>8, <2>9, <2>11 DEF Realizes
<1>4. QED
  BY <1>1, <1>2, <1>3 DEF IsAction

\* No compiled action is taken for another, or for none.
LEMMA ActionsDiffer ==
    ASSUME NEW a, IsAction(a)
    PROVE  /\ a # None /\ CompileAction(a) # None
           /\ CompileAction(a) = Block <=> a = Block
<1>1. Realizes(CompileAction(a), a)
  BY ActionRealized
<1>2. Block.type = "block"
  BY DEF Block
<1>3. CASE a \in {Block, Direct} /\ CompileAction(a) = a
  BY <1>3, ConnectionAssumption
<1>4. CASE a.type = "via" /\ a \in Via /\ CompileAction(a) = a
  BY <1>2, <1>4, ConnectionAssumption
<1>5. CASE a.type = "chain" /\ CompileAction(a) \in CompiledChain
  <2>1. CompileAction(a).type = "chain" /\ CompileAction(a) # None
    BY <1>5, ConnectionAssumption DEF CompiledChain
  <2>2. a # None
    BY <1>2, <1>5, ConnectionAssumption DEF IsAction, Block, Direct
  <2>3. QED
    BY <1>2, <1>5, <2>1, <2>2
<1>6. QED
  BY <1>1, <1>3, <1>4, <1>5 DEF Realizes

LEMMA FirstRouteIs ==
    ASSUME NEW routes, Len(routes) \in Nat, DOMAIN routes = 1 .. Len(routes), NEW h
    PROVE  FirstRoute(routes, h) = 0 \/ FirstRoute(routes, h) \in DOMAIN routes
<1> DEFINE matching == {i \in DOMAIN routes : Matches(FromRules(routes[i].selectors), h)}
<1>1. matching \subseteq Nat /\ matching \subseteq DOMAIN routes
  OBVIOUS
<1>2. FirstRoute(routes, h) = IF matching = {} THEN 0 ELSE Min(matching)
  BY DEF FirstRoute
<1> HIDE DEF matching
<1>3. CASE matching = {}
  BY <1>2, <1>3
<1>4. CASE matching # {}
  <2>1. PICK m \in matching : \A k \in matching : m <= k
    BY <1>1, <1>4, LeastNumber
  <2>2. Min(matching) = m
    BY <1>1, <2>1, MinIs
  <2>3. QED
    BY <1>1, <1>2, <1>4, <2>1, <2>2
<1>5. QED
  BY <1>3, <1>4

\* What the routes of a policy of a document say of a host.
Says(p, h) ==
    LET i == IF h = None THEN 0 ELSE FirstRoute(p.routes, Target[h])
    IN  IF i = 0 THEN None ELSE p.routes[i].action

\* A policy of a document that compiles.
IsPolicy(p) ==
    /\ p.default = None \/ IsAction(p.default)
    /\ Len(p.routes) \in Nat /\ DOMAIN p.routes = 1 .. Len(p.routes)
    /\ \A i \in DOMAIN p.routes : IsAction(p.routes[i].action)

LEMMA MatchedSays ==
    ASSUME NEW p, IsPolicy(p), NEW h
    PROVE  \/ Says(p, h) = None /\ Matched(CompilePolicy(p), h) = None
           \/ IsAction(Says(p, h)) /\ Matched(CompilePolicy(p), h) = CompileAction(Says(p, h))
<1> DEFINE c == CompilePolicy(p)
           i == IF h = None THEN 0 ELSE FirstRoute(p.routes, Target[h])
           j == IF h = None THEN 0 ELSE FirstMatch(c.index, Target[h])
<1>1. /\ c.index = FromRoutes(p.routes)
      /\ c.action = [k \in DOMAIN p.routes |-> CompileAction(p.routes[k].action)]
  BY DEF CompilePolicy
<1> HIDE DEF c
<1>2. Len(p.routes) \in Nat /\ DOMAIN p.routes = 1 .. Len(p.routes)
  BY DEF IsPolicy
<1>3. i = j
  BY <1>1, <1>2, IndexFindsFirst
<1>4. i = 0 \/ i \in DOMAIN p.routes
  BY <1>2, FirstRouteIs
<1>5. 0 \notin DOMAIN p.routes
  BY <1>2
<1>6. /\ Says(p, h) = IF i = 0 THEN None ELSE p.routes[i].action
      /\ Matched(c, h) = IF j = 0 THEN None ELSE c.action[j]
  BY DEF Says, Matched
<1> HIDE DEF i, j
<1>7. CASE i = 0
  <2>1. Says(p, h) = None /\ Matched(c, h) = None
    BY <1>3, <1>6, <1>7
  <2>2. QED
    BY <2>1 DEF c
<1>8. CASE i \in DOMAIN p.routes
  <2>1. Says(p, h) = p.routes[i].action /\ Matched(c, h) = c.action[i]
    BY <1>3, <1>5, <1>6, <1>8
  <2>2. c.action[i] = CompileAction(p.routes[i].action)
    BY <1>1, <1>8
  <2>3. IsAction(p.routes[i].action)
    BY <1>8 DEF IsPolicy
  <2>4. QED
    BY <2>1, <2>2, <2>3 DEF c
<1>9. QED
  BY <1>4, <1>7, <1>8

\* The decision of the node, with index, compiled actions and sniffed name, is what
\* the document it was compiled from says.
LEMMA DecideChooses ==
    ASSUME NEW v \in DOMAIN Snapshot, NEW u, NEW requested, NEW sniffed,
           Decide(Compiled[v], u, requested, sniffed) # Block
    PROVE  /\ u \in DOMAIN Snapshot[v].users
           /\ Realizes(Decide(Compiled[v], u, requested, sniffed),
                       Chosen(Snapshot[v], u, requested, sniffed))
<1> DEFINE s == Snapshot[v]
           p == s.policies[s.users[u].policy]
           c == CompilePolicy(p)
           d == Decide(Compiled[v], u, requested, sniffed)
<1>1. Compiled[v] = [limit  |-> [w \in DOMAIN s.users |-> s.users[w].limit],
                     policy |-> [w \in DOMAIN s.users |->
                                    CompilePolicy(s.policies[s.users[w].policy])]]
  BY DEF Compiled
<1>2. /\ DOMAIN Compiled[v].policy = DOMAIN s.users
      /\ u \in DOMAIN s.users => Compiled[v].policy[u] = c
  BY <1>1
<1>3. u \in DOMAIN s.users
  BY <1>2 DEF Decide
<1>4. IsPolicy(p)
  <2>1. IsSnapshot(s)
    BY ConnectionAssumption
  <2>2. s.users[u].policy \in DOMAIN s.policies
    BY <1>3, <2>1 DEF IsSnapshot
  <2>3. QED
    BY <2>1, <2>2 DEF IsSnapshot, IsPolicy
<1> HIDE DEF s, p, c
<1> DEFINE r  == Matched(c, requested)
           n  == Matched(c, sniffed)
           r0 == Says(p, requested)
           n0 == Says(p, sniffed)
           e0 == IF p.default = None THEN Direct ELSE p.default
<1>5. d = Select(requested, r, n, c.default)
  BY <1>2, <1>3 DEF Decide
<1>6. Chosen(s, u, requested, sniffed) = Select(requested, r0, n0, e0)
  BY <1>3 DEF Chosen, Says, p
<1>7. /\ (r0 = None /\ r = None) \/ (IsAction(r0) /\ r = CompileAction(r0))
      /\ (n0 = None /\ n = None) \/ (IsAction(n0) /\ n = CompileAction(n0))
  BY <1>4, MatchedSays DEF c
<1>8. IsAction(e0) /\ c.default = CompileAction(e0)
  <2>1. c.default = IF p.default = None THEN Direct ELSE CompileAction(p.default)
    BY DEF c, CompilePolicy
  <2>2. IsAction(Direct) /\ CompileAction(Direct) = Direct
    BY DEF IsAction, CompileAction, Direct
  <2>3. QED
    BY <1>4, <2>1, <2>2 DEF IsPolicy
<1> HIDE DEF r, n, r0, n0, e0, d
<1>9. /\ (r = None <=> r0 = None) /\ (r = Block <=> r0 = Block)
      /\ (n = None <=> n0 = None) /\ (n = Block <=> n0 = Block)
  <2>1. None # Block
    BY ConnectionAssumption
  <2>2. (r = None <=> r0 = None) /\ (r = Block <=> r0 = Block)
    BY <1>7, <2>1, ActionsDiffer
  <2>3. (n = None <=> n0 = None) /\ (n = Block <=> n0 = Block)
    BY <1>7, <2>1, ActionsDiffer
  <2>4. QED
    BY <2>2, <2>3
<1>10. IsAction(Chosen(s, u, requested, sniffed)) /\ d = CompileAction(Chosen(s, u, requested, sniffed))
  <2>1. ~ (Block \in {r, n}) /\ ~ (Block \in {r0, n0})
    <3>1. d # Block
      BY DEF d
    <3>2. ~ (Block \in {r, n})
      BY <1>5, <3>1 DEF Select
    <3>3. QED
      BY <1>9, <3>2
  <2>2. CASE requested \in Literal /\ n # None
    BY <2>1, <2>2, <1>5, <1>6, <1>7, <1>9 DEF Select
  <2>3. CASE ~ (requested \in Literal /\ n # None) /\ r # None
    BY <2>1, <2>3, <1>5, <1>6, <1>7, <1>9 DEF Select
  <2>4. CASE ~ (requested \in Literal /\ n # None) /\ r = None
    BY <2>1, <2>4, <1>5, <1>6, <1>8, <1>9 DEF Select
  <2>5. QED
    BY <2>2, <2>3, <2>4
<1>11. Realizes(d, Chosen(s, u, requested, sniffed))
  BY <1>10, ActionRealized
<1>12. QED
  BY <1>3, <1>11 DEF d, s

-------------------------------------------------------------------------------
(* The inductive invariant *)

Decision == {Block, Direct} \cup Via \cup CompiledChain

Task == [stage : Stage, proto : Frontend \cup {None}, user : User \cup {None}, limit : Nat,
         host : Host \cup {None}, route : BOOLEAN, sniffed : Host \cup {None},
         decision : Decision, todo : Seq(Outlet), attempts : Nat, spent : 0 .. TotalTimeout,
         egress : Outlet \cup {None}, copying : SUBSET {"up", "down"}, permit : BOOLEAN,
         record : Record \cup {None}, seen : SUBSET (1 .. Len(Snapshot))]

Types ==
    /\ version \in 1 .. Len(Snapshot)
    /\ phase \in {"running", "draining", "stopped"}
    /\ conn \in [Conn -> Task]
    /\ active \in [User -> Nat]
    /\ tunnels \in [Outlet -> Nat]

\* The limits user u was ever given, up to snapshot v.
LimitsOf(u, v) ==
    {Snapshot[w].users[u].limit : w \in {w \in 1 .. v : u \in DOMAIN Snapshot[w].users}}

\* The outlets of a decision in the order of the attempts.
Outlets(d) == IF d = Direct THEN <<"direct">> ELSE d.members

\* A task follows what one snapshot it has seen decides: what is left to try is what
\* has not been tried, and the tunnel leaves through the outlet of the last attempt.
Follows(k, w) ==
    LET d == Decide(Compiled[w], k.user, k.host, k.sniffed)
    IN  /\ d # Block
        /\ k.stage = "dial" =>
            /\ k.attempts + Len(k.todo) = Len(Outlets(d))
            /\ \A i \in 1 .. Len(k.todo) : k.todo[i] = Outlets(d)[k.attempts + i]
        /\ k.stage # "dial" =>
            /\ k.attempts \in 1 .. Len(Outlets(d))
            /\ k.egress = Outlets(d)[k.attempts]

TaskOK(k, v) ==
    /\ k.permit <=> \/ k.stage \in {"sniff", "dial", "reply", "splice"}
                    \/ k.stage = "respond" /\ k.attempts > 0
    /\ k.stage \in {"none", "handshake", "request", "sniff"} => k.attempts = 0 /\ k.sniffed = None
    /\ k.permit => k.user \in User
    /\ k.stage = "request" => k.user \in User /\ k.limit \in LimitsOf(k.user, v)
    /\ k.stage \in {"reply", "splice"} => k.egress \in Outlet
    /\ k.seen \subseteq 1 .. v
    /\ k.stage \notin {"none", "over"} => v \in k.seen
    /\ k.stage \in {"dial", "reply", "splice"} => \E w \in k.seen : Follows(k, w)

TasksOK == \A c \in Conn : TaskOK(conn[c], version)

Holders(u) == {c \in Conn : conn[c].permit /\ conn[c].user = u}
Spliced(o) == {c \in Conn : conn[c].stage = "splice" /\ conn[c].egress = o}

Within(u, n, v) == 0 \in LimitsOf(u, v) \/ n = 0 \/ \E l \in LimitsOf(u, v) : n <= l

Counted ==
    /\ \A u \in User : active[u] = Cardinality(Holders(u)) /\ Within(u, active[u], version)
    /\ \A o \in Outlet : tunnels[o] = Cardinality(Spliced(o))

IInv == Types /\ TasksOK /\ Counted

LEMMA SnapshotFacts ==
    /\ Len(Snapshot) \in Nat \ {0} /\ DOMAIN Snapshot = 1 .. Len(Snapshot)
    /\ IsFiniteSet(Conn) /\ TotalTimeout \in Nat /\ AttemptTimeout \in Nat
BY ConnectionAssumption

LEMMA LimitsGrow ==
    ASSUME NEW u, NEW v \in Nat, NEW w \in Nat, v <= w
    PROVE  LimitsOf(u, v) \subseteq LimitsOf(u, w)
<1>1. 1 .. v \subseteq 1 .. w
  OBVIOUS
<1>2. QED
  BY <1>1 DEF LimitsOf

\* What is decided and not a block can be dialled.
LEMMA DecisionDialled ==
    ASSUME NEW w \in 1 .. Len(Snapshot), NEW u, NEW h, NEW n, NEW d,
           d = Decide(Compiled[w], u, h, n), d # Block
    PROVE  /\ d \in Decision /\ Outlets(d) \in Seq(Outlet) /\ Len(Outlets(d)) # 0
<1>1. PICK a : Realizes(d, a)
  BY DecideChooses, SnapshotFacts
<1>2. CASE d = Direct
  BY <1>2 DEF Decision, Outlets, Outlet
<1>3. CASE d \in Via
  <2>1. d # Direct
    BY <1>3 DEF Via, Direct
  <2>2. d.members \in [1 .. 1 -> Upstream]
    BY <1>3 DEF Via
  <2>3. d.members \in Seq(Outlet) /\ Len(d.members) = 1
    <3> DEFINE s == d.members
    <3>1. s \in [1 .. 1 -> Outlet]
      BY <2>2 DEF Outlet
    <3> HIDE DEF s
    <3>2. [i \in 1 .. 1 |-> s[i]] \in Seq(Outlet) /\ Len([i \in 1 .. 1 |-> s[i]]) = 1
      BY <3>1
    <3>3. s = [i \in 1 .. 1 |-> s[i]]
      BY <3>1
    <3>4. s \in Seq(Outlet) /\ Len(s) = 1
      BY <3>2, <3>3, Zenon
    <3>5. QED
      BY <3>4 DEF s
  <2>4. Outlets(d) = d.members
    BY <2>1 DEF Outlets
  <2>5. d \in Decision
    BY <1>3 DEF Decision
  <2>6. Outlets(d) \in Seq(Outlet) /\ Len(Outlets(d)) = 1
    BY <2>3, <2>4, Zenon
  <2>7. QED
    BY <2>5, <2>6
<1>4. CASE d \in CompiledChain /\ Len(d.members) # 0
  <2>1. d # Direct
    BY <1>4 DEF CompiledChain, Direct
  <2>2. d.members \in Seq(Upstream)
    BY <1>4 DEF CompiledChain
  <2>3. d.members \in Seq(Outlet)
    BY <2>2 DEF Outlet
  <2>4. QED
    BY <1>4, <2>1, <2>3 DEF Decision, Outlets
<1>5. QED
  BY <1>1, <1>2, <1>3, <1>4 DEF Realizes

-------------------------------------------------------------------------------
(* How the steps of a task change the counters *)

LEMMA HoldersFinite ==
    /\ \A u : IsFiniteSet(Holders(u)) /\ Cardinality(Holders(u)) \in Nat
              /\ Cardinality(Holders(u)) <= Cardinality(Conn)
    /\ \A o : IsFiniteSet(Spliced(o)) /\ Cardinality(Spliced(o)) \in Nat
              /\ Cardinality(Spliced(o)) <= Cardinality(Conn)
<1>1. \A u : Holders(u) \in SUBSET Conn
  BY DEF Holders
<1>2. \A o : Spliced(o) \in SUBSET Conn
  BY DEF Spliced
<1>3. \A T \in SUBSET Conn : IsFiniteSet(T) /\ Cardinality(T) <= Cardinality(Conn)
  BY SnapshotFacts, FS_Subset
<1>4. \A T \in SUBSET Conn : Cardinality(T) \in Nat
  BY <1>3, FS_CardinalityType
<1>5. QED
  BY <1>1, <1>2, <1>3, <1>4

\* A step of one task that takes and returns nothing.
LEMMA MoveKeeps ==
    ASSUME IInv, NEW c \in Conn, NEW k \in Task, TaskOK(k, version),
           conn' = [conn EXCEPT ![c] = k], UNCHANGED <<version, phase, active, tunnels>>,
           k.permit = conn[c].permit, k.permit => k.user = conn[c].user,
           k.stage = "splice" <=> conn[c].stage = "splice",
           k.stage = "splice" => k.egress = conn[c].egress
    PROVE  IInv'
<1>1. conn \in [Conn -> Task]
  BY DEF IInv, Types
<1>2. conn'[c] = k /\ \A b \in Conn : b # c => conn'[b] = conn[b]
  BY <1>1
<1>3. Types'
  BY <1>1 DEF IInv, Types
<1>4. TasksOK'
  BY <1>2 DEF IInv, TasksOK
<1>5. \A u : Holders(u)' = Holders(u)
  BY <1>2 DEF Holders
<1>6. \A o : Spliced(o)' = Spliced(o)
  BY <1>2 DEF Spliced
<1>7. Counted'
  BY <1>5, <1>6 DEF IInv, Counted
<1>8. QED
  BY <1>3, <1>4, <1>7 DEF IInv

\* A task takes a permit, with a limit the user was given.
LEMMA AcquireKeeps ==
    ASSUME IInv, NEW c \in Conn, NEW k \in Task, TaskOK(k, version),
           conn' = [conn EXCEPT ![c] = k], UNCHANGED <<version, phase, tunnels>>,
           NEW u \in User, active' = [active EXCEPT ![u] = @ + 1],
           k.permit, k.user = u, ~ conn[c].permit,
           k.stage # "splice", conn[c].stage # "splice",
           NEW limit \in LimitsOf(u, version), limit \in Nat, ~ Full(u, limit)
    PROVE  IInv'
<1>1. conn \in [Conn -> Task] /\ active \in [User -> Nat]
  BY DEF IInv, Types
<1>2. conn'[c] = k /\ \A b \in Conn : b # c => conn'[b] = conn[b]
  BY <1>1
<1>3. active'[u] = active[u] + 1 /\ \A x \in User : x # u => active'[x] = active[x]
  BY <1>1
<1>4. Types'
  BY <1>1 DEF IInv, Types
<1>5. TasksOK'
  BY <1>2 DEF IInv, TasksOK
<1>6. \A o : Spliced(o)' = Spliced(o)
  BY <1>2 DEF Spliced
<1>7. \A x : x # u => Holders(x)' = Holders(x)
  BY <1>2 DEF Holders
<1>8. Holders(u)' = Holders(u) \cup {c} /\ c \notin Holders(u)
  BY <1>2 DEF Holders
<1>9. Cardinality(Holders(u)') = Cardinality(Holders(u)) + 1
  BY <1>8, HoldersFinite, FS_AddElement
<1>10. Within(u, active[u] + 1, version)
  <2>1. active[u] \in Nat
    BY <1>1
  <2>2. CASE limit = 0
    BY <2>2 DEF Within
  <2>3. CASE limit # 0
    <3>1. active[u] + 1 <= limit
      BY <2>1, <2>3 DEF Full
    <3>2. QED
      BY <3>1 DEF Within
  <2>4. QED
    BY <2>2, <2>3
<1>11. \A x \in User : /\ active[x] = Cardinality(Holders(x)) /\ Within(x, active[x], version)
  BY DEF IInv, Counted
<1>12. \A x \in User : active'[x] = Cardinality(Holders(x)') /\ Within(x, active'[x], version)
  BY <1>3, <1>7, <1>9, <1>10, <1>11
<1>13. \A x \in User : (Within(x, active[x], version))' <=> Within(x, active'[x], version)
  BY DEF Within
<1>14. Counted'
  BY <1>6, <1>12, <1>13 DEF IInv, Counted
<1>15. QED
  BY <1>4, <1>5, <1>14 DEF IInv

\* A task opens a tunnel.
LEMMA OpenKeeps ==
    ASSUME IInv, NEW c \in Conn, NEW k \in Task, TaskOK(k, version),
           conn' = [conn EXCEPT ![c] = k], UNCHANGED <<version, phase, active>>,
           NEW o \in Outlet, tunnels' = [tunnels EXCEPT ![o] = @ + 1],
           k.permit = conn[c].permit, k.permit => k.user = conn[c].user,
           k.stage = "splice", k.egress = o, conn[c].stage # "splice"
    PROVE  IInv'
<1>1. conn \in [Conn -> Task] /\ tunnels \in [Outlet -> Nat]
  BY DEF IInv, Types
<1>2. conn'[c] = k /\ \A b \in Conn : b # c => conn'[b] = conn[b]
  BY <1>1
<1>3. tunnels'[o] = tunnels[o] + 1 /\ \A x \in Outlet : x # o => tunnels'[x] = tunnels[x]
  BY <1>1
<1>4. Types'
  BY <1>1 DEF IInv, Types
<1>5. TasksOK'
  BY <1>2 DEF IInv, TasksOK
<1>6. \A u : Holders(u)' = Holders(u)
  BY <1>2 DEF Holders
<1>7. \A x : x # o => Spliced(x)' = Spliced(x)
  BY <1>2 DEF Spliced
<1>8. Spliced(o)' = Spliced(o) \cup {c} /\ c \notin Spliced(o)
  BY <1>2 DEF Spliced
<1>9. Cardinality(Spliced(o)') = Cardinality(Spliced(o)) + 1
  BY <1>8, HoldersFinite, FS_AddElement
<1>10. \A x \in Outlet : tunnels[x] = Cardinality(Spliced(x))
  BY DEF IInv, Counted
<1>11. \A x \in Outlet : tunnels'[x] = Cardinality(Spliced(x)')
  BY <1>3, <1>7, <1>9, <1>10
<1>12. Counted'
  BY <1>6, <1>11 DEF IInv, Counted
<1>13. QED
  BY <1>4, <1>5, <1>12 DEF IInv

LEMMA BlankIsTask ==
    /\ Blank \in Task
    /\ \A rec \in Record \cup {None} :
        LET k == [Blank EXCEPT !.stage = "over", !.record = rec]
        IN  k \in Task /\ k.stage = "over" /\ ~ k.permit /\ k.seen = {}
<1>1. Block \in Decision /\ <<>> \in Seq(Outlet) /\ 0 \in 0 .. TotalTimeout
  BY SnapshotFacts DEF Decision
<1>2. QED
  BY <1>1 DEF Blank, Task, Stage

LEMMA OverIsOK ==
    ASSUME NEW k \in Task, k.stage = "over", ~ k.permit, k.seen = {}, NEW v
    PROVE  TaskOK(k, v)
BY DEF TaskOK

\* Tasks end: what they hold goes back.
LEMMA EndKeeps ==
    ASSUME IInv, NEW cs \in SUBSET Conn, NEW rec \in Record \cup {None},
           conn' = [c \in Conn |-> IF c \in cs THEN [Blank EXCEPT !.stage = "over", !.record = rec]
                                   ELSE conn[c]],
           active' = Returned(cs), tunnels' = Closed(cs), version' = version,
           phase' \in {"running", "draining", "stopped"}
    PROVE  IInv'
<1> DEFINE gone == [Blank EXCEPT !.stage = "over", !.record = rec]
<1>1. gone \in Task /\ gone.stage = "over" /\ ~ gone.permit /\ gone.seen = {}
  BY BlankIsTask
<1> HIDE DEF gone
<1>2. conn' = [c \in Conn |-> IF c \in cs THEN gone ELSE conn[c]]
  BY DEF gone
<1>3. /\ conn \in [Conn -> Task] /\ active \in [User -> Nat] /\ tunnels \in [Outlet -> Nat]
      /\ version \in 1 .. Len(Snapshot)
  BY DEF IInv, Types
<1>4. /\ \A c \in cs : conn'[c] = gone
      /\ \A c \in Conn \ cs : conn'[c] = conn[c]
  BY <1>2
<1>5. conn' \in [Conn -> Task]
  BY <1>1, <1>2, <1>3
<1>6. TasksOK'
  <2>1. \A c \in Conn : TaskOK(conn[c], version)
    BY DEF IInv, TasksOK
  <2>2. TaskOK(gone, version)
    BY <1>1, OverIsOK
  <2>3. \A c \in Conn : TaskOK(conn'[c], version)
    BY <1>4, <2>1, <2>2
  <2>4. QED
    BY <2>3 DEF TasksOK
<1>7. \A u : Holders(u)' = Holders(u) \ cs
  BY <1>1, <1>4 DEF Holders
<1>8. \A o : Spliced(o)' = Spliced(o) \ cs
  BY <1>1, <1>4 DEF Spliced
<1>9. \A u : Cardinality(Holders(u) \ cs) =
                 Cardinality(Holders(u)) - Cardinality(Holders(u) \cap cs)
  BY HoldersFinite, FS_Difference
<1>10. \A o : Cardinality(Spliced(o) \ cs) =
                 Cardinality(Spliced(o)) - Cardinality(Spliced(o) \cap cs)
  BY HoldersFinite, FS_Difference
<1>11. \A u : /\ Cardinality(Holders(u) \cap cs) \in Nat
              /\ Cardinality(Holders(u) \cap cs) <= Cardinality(Holders(u))
  <2>1. \A u : /\ IsFiniteSet(Holders(u) \cap cs)
               /\ Cardinality(Holders(u) \cap cs) <= Cardinality(Holders(u))
    BY HoldersFinite, FS_Intersection
  <2>2. QED
    BY <2>1, FS_CardinalityType
<1>12. \A o : /\ Cardinality(Spliced(o) \cap cs) \in Nat
              /\ Cardinality(Spliced(o) \cap cs) <= Cardinality(Spliced(o))
  <2>1. \A o : /\ IsFiniteSet(Spliced(o) \cap cs)
               /\ Cardinality(Spliced(o) \cap cs) <= Cardinality(Spliced(o))
    BY HoldersFinite, FS_Intersection
  <2>2. QED
    BY <2>1, FS_CardinalityType
<1>13. ASSUME NEW u \in User
       PROVE  /\ active'[u] = Cardinality(Holders(u)') /\ active'[u] \in Nat
              /\ active'[u] <= active[u]
  <2> DEFINE n == Cardinality(Holders(u) \cap cs)
  <2>1. {c \in cs : conn[c].permit /\ conn[c].user = u} = Holders(u) \cap cs
    BY DEF Holders
  <2>2. active'[u] = IF active[u] > n THEN active[u] - n ELSE 0
    BY <2>1 DEF Returned
  <2>3. active[u] = Cardinality(Holders(u)) /\ active[u] \in Nat
    BY <1>3 DEF IInv, Counted
  <2>4. n \in Nat /\ n <= active[u]
    BY <1>11, <2>3
  <2>5. Cardinality(Holders(u)') = active[u] - n
    BY <1>7, <1>9, <2>3
  <2> HIDE DEF n
  <2>6. QED
    BY <2>2, <2>3, <2>4, <2>5
<1>14. ASSUME NEW o \in Outlet
       PROVE  tunnels'[o] = Cardinality(Spliced(o)') /\ tunnels'[o] \in Nat
  <2> DEFINE n == Cardinality(Spliced(o) \cap cs)
  <2>1. {c \in cs : conn[c].stage = "splice" /\ conn[c].egress = o} = Spliced(o) \cap cs
    BY DEF Spliced
  <2>2. tunnels'[o] = tunnels[o] - n
    BY <2>1 DEF Closed
  <2>3. tunnels[o] = Cardinality(Spliced(o)) /\ tunnels[o] \in Nat
    BY <1>3 DEF IInv, Counted
  <2>4. n \in Nat /\ n <= tunnels[o]
    BY <1>12, <2>3
  <2>5. Cardinality(Spliced(o)') = tunnels[o] - n
    BY <1>8, <1>10, <2>3
  <2> HIDE DEF n
  <2>6. QED
    BY <2>2, <2>3, <2>4, <2>5
<1>15. Types'
  <2>1. active' \in [User -> Nat]
    BY <1>13 DEF Returned
  <2>2. tunnels' \in [Outlet -> Nat]
    BY <1>14 DEF Closed
  <2>3. QED
    BY <1>3, <1>5, <2>1, <2>2 DEF Types
<1>16. ASSUME NEW u \in User
       PROVE  Within(u, active'[u], version)
  <2>1. Within(u, active[u], version) /\ active[u] \in Nat
    BY <1>3 DEF IInv, Counted
  <2>2. active'[u] \in Nat /\ active'[u] <= active[u]
    BY <1>13
  <2>3. CASE 0 \in LimitsOf(u, version)
    BY <2>3 DEF Within
  <2>4. CASE active[u] = 0
    BY <2>2, <2>4 DEF Within
  <2>5. CASE \E l \in LimitsOf(u, version) : active[u] <= l
    <3>1. PICK l \in LimitsOf(u, version) : active[u] <= l
      BY <2>5
    <3>2. l \in Nat
      <4>1. PICK w \in 1 .. version : /\ u \in DOMAIN Snapshot[w].users
                                      /\ l = Snapshot[w].users[u].limit
        BY <3>1 DEF LimitsOf
      <4>2. w \in DOMAIN Snapshot
        BY <1>3, <4>1, SnapshotFacts
      <4>3. IsSnapshot(Snapshot[w])
        BY <4>2, ConnectionAssumption
      <4>4. QED
        BY <4>1, <4>3 DEF IsSnapshot
    <3>3. active'[u] <= l
      BY <2>1, <2>2, <3>1, <3>2
    <3>4. QED
      BY <3>1, <3>3 DEF Within
  <2>6. QED
    BY <2>1, <2>3, <2>4, <2>5 DEF Within
<1>17. Counted'
  <2>1. \A u \in User : (Within(u, active[u], version))' <=> Within(u, active'[u], version)
    BY DEF Within
  <2>2. QED
    BY <1>13, <1>14, <1>16, <2>1 DEF Counted
<1>18. QED
  BY <1>6, <1>15, <1>17 DEF IInv

-------------------------------------------------------------------------------
(* The steps of a task keep the invariant *)

LEMMA TaskFacts ==
    ASSUME IInv, NEW c \in Conn
    PROVE  /\ conn \in [Conn -> Task] /\ conn[c] \in Task /\ TaskOK(conn[c], version)
           /\ version \in 1 .. Len(Snapshot) /\ version \in Nat
           /\ phase \in {"running", "draining", "stopped"}
<1>1. Types /\ TasksOK
  BY DEF IInv
<1>2. QED
  BY <1>1, SnapshotFacts DEF Types, TasksOK

LEMMA EndOne ==
    ASSUME IInv, NEW c \in Conn, NEW rec \in Record \cup {None}, End({c}, rec)
    PROVE  IInv'
<1>1. phase' \in {"running", "draining", "stopped"}
  BY TaskFacts DEF End
<1>2. {c} \in SUBSET Conn
  OBVIOUS
<1>3. QED
  BY <1>1, <1>2, EndKeeps DEF End

LEMMA NotesAreRecords ==
    /\ \A a, b \in BOOLEAN : Note(a, b) \in Record \cup {None}
    /\ \A u : Blocked(u) \in Record \cup {None}
<1>1. \A a, b \in BOOLEAN : Note(a, b) \in Record
  BY DEF Note, Record
<1>2. \A u : (u \in Known) \in BOOLEAN
  OBVIOUS
<1>3. QED
  BY <1>1, <1>2 DEF Blocked

\* Updates of a task.
LEMMA RespondTask ==
    ASSUME NEW r \in Task, NEW rec \in Record \cup {None}
    PROVE  [r EXCEPT !.stage = "respond", !.record = rec] \in Task
BY DEF Task, Stage

LEMMA RequestTask ==
    ASSUME NEW r \in Task, NEW u \in User, NEW l \in Nat
    PROVE  [r EXCEPT !.stage = "request", !.user = u, !.limit = l] \in Task
BY DEF Task, Stage

LEMMA RefuseKeeps ==
    ASSUME IInv, NEW c \in Conn, NEW rec \in Record \cup {None}, Refuse(c, rec),
           conn[c].permit <=> conn[c].attempts > 0,
           conn[c].stage \in {"handshake", "request", "dial"}
    PROVE  IInv'
<1>1. CASE conn' = [conn EXCEPT ![c].stage = "respond", ![c].record = rec]
           /\ UNCHANGED <<version, phase, active, tunnels>>
  <2>1. PICK r \in Task : r = conn[c]
    BY TaskFacts
  <2> DEFINE k == [r EXCEPT !.stage = "respond", !.record = rec]
  <2>2. conn' = [conn EXCEPT ![c] = k]
    BY <1>1, <2>1, TaskFacts
  <2>3. k \in Task
    BY <2>1, RespondTask
  <2>4. /\ k.stage = "respond" /\ k.permit = r.permit /\ k.user = r.user
        /\ k.attempts = r.attempts /\ k.seen = r.seen
    BY <2>1 DEF Task
  <2> HIDE DEF k
  <2>5. TaskOK(r, version)
    BY <2>1, TaskFacts
  <2>6. TaskOK(k, version)
    BY <2>1, <2>4, <2>5 DEF TaskOK
  <2>7. QED
    BY <1>1, <2>1, <2>2, <2>3, <2>4, <2>6, MoveKeeps
<1>2. CASE End({c}, rec)
  BY <1>2, EndOne
<1>3. QED
  BY <1>1, <1>2 DEF Refuse

LEMMA AcceptKeeps ==
    ASSUME IInv, NEW c \in Conn, Accept(c)
    PROVE  IInv'
<1>1. PICK p \in Protocol[c] :
          conn' = [conn EXCEPT ![c].stage = "handshake", ![c].proto = p, ![c].seen = {version}]
  BY DEF Accept
<1>2. PICK r \in Task : r = conn[c]
  BY TaskFacts
<1> DEFINE k == [r EXCEPT !.stage = "handshake", !.proto = p, !.seen = {version}]
<1>3. conn' = [conn EXCEPT ![c] = k]
  BY <1>1, <1>2, TaskFacts
<1>4. p \in Frontend /\ {version} \in SUBSET (1 .. Len(Snapshot))
  BY <1>1, TaskFacts, ConnectionAssumption
<1>5. k \in Task
  BY <1>2, <1>4 DEF Task, Stage
<1>6. /\ k.stage = "handshake" /\ k.permit = r.permit /\ k.user = r.user
      /\ k.attempts = r.attempts /\ k.sniffed = r.sniffed /\ k.seen = {version}
  BY <1>2 DEF Task
<1> HIDE DEF k
<1>7. TaskOK(r, version) /\ r.stage = "none"
  BY <1>2, TaskFacts DEF Accept
<1>8. {version} \subseteq 1 .. version
  BY TaskFacts
<1>9. TaskOK(k, version)
  BY <1>6, <1>7, <1>8 DEF TaskOK
<1>10. UNCHANGED <<version, phase, active, tunnels>>
  BY DEF Accept
<1>11. QED
  BY <1>2, <1>3, <1>5, <1>6, <1>7, <1>9, <1>10, MoveKeeps

LEMMA RejectKeeps ==
    ASSUME IInv, NEW c \in Conn, Reject(c)
    PROVE  IInv'
<1>1. conn[c].stage \in {"handshake", "request"} /\ Refuse(c, Note(FALSE, FALSE))
  BY DEF Reject, Malformed, Unauthenticated
<1>2. TaskOK(conn[c], version)
  BY TaskFacts
<1>3. ~ conn[c].permit /\ ~ (conn[c].attempts > 0)
  BY <1>1, <1>2 DEF TaskOK
<1>4. QED
  BY <1>1, <1>3, RefuseKeeps, NotesAreRecords

\* The limit of a known user is one of those the user was given.
LEMMA CurrentLimit ==
    ASSUME IInv, NEW u \in Known
    PROVE  /\ Current.limit[u] \in LimitsOf(u, version) /\ Current.limit[u] \in Nat
           /\ u \in User
<1>1. version \in 1 .. Len(Snapshot) /\ version \in DOMAIN Snapshot /\ version \in 1 .. version
  BY SnapshotFacts DEF IInv, Types
<1>2. Current = [limit  |-> [w \in DOMAIN Snapshot[version].users |-> Snapshot[version].users[w].limit],
                 policy |-> [w \in DOMAIN Snapshot[version].users |->
                     CompilePolicy(Snapshot[version].policies[Snapshot[version].users[w].policy])]]
  BY <1>1 DEF Current, Compiled
<1>3. u \in DOMAIN Snapshot[version].users /\ Current.limit[u] = Snapshot[version].users[u].limit
  BY <1>2 DEF Known
<1>4. IsSnapshot(Snapshot[version])
  BY <1>1, ConnectionAssumption
<1>5. Current.limit[u] \in LimitsOf(u, version)
  BY <1>1, <1>3 DEF LimitsOf
<1>6. QED
  BY <1>3, <1>4, <1>5 DEF IsSnapshot

LEMMA IdentifyKeeps ==
    ASSUME IInv, NEW c \in Conn, NEW u \in User, Identify(c, u)
    PROVE  IInv'
<1>1. PICK r \in Task : r = conn[c]
  BY TaskFacts
<1>2. PICK l \in Nat : l = Current.limit[u] /\ l \in LimitsOf(u, version)
  BY CurrentLimit DEF Identify
<1> DEFINE k == [r EXCEPT !.stage = "request", !.user = u, !.limit = l]
<1>3. conn' = [conn EXCEPT ![c] = k]
  BY <1>1, <1>2, TaskFacts DEF Identify
<1>4. k \in Task
  BY <1>1, <1>2, RequestTask
<1>5. /\ k.stage = "request" /\ k.permit = r.permit /\ k.user = u /\ k.limit = l
      /\ k.attempts = r.attempts /\ k.sniffed = r.sniffed /\ k.seen = r.seen
  BY <1>1, <1>2 DEF Task
<1> HIDE DEF k
<1>6. TaskOK(r, version) /\ r.stage = "handshake"
  BY <1>1, TaskFacts DEF Identify
<1>7. TaskOK(k, version) /\ ~ k.permit
  BY <1>2, <1>5, <1>6 DEF TaskOK
<1>8. UNCHANGED <<version, phase, active, tunnels>>
  BY DEF Identify
<1>9. QED
  BY <1>1, <1>3, <1>4, <1>5, <1>6, <1>7, <1>8, MoveKeeps

\* A task that dials what the snapshot of the moment decides.
LEMMA DialTask ==
    ASSUME NEW r \in Task, NEW d \in Decision, Outlets(d) \in Seq(Outlet)
    PROVE  /\ Dial(r, d) \in Task /\ Dial(r, d).stage = "dial"
           /\ Dial(r, d).todo = Outlets(d) /\ Dial(r, d).permit = r.permit
           /\ Dial(r, d).user = r.user /\ Dial(r, d).host = r.host
           /\ Dial(r, d).sniffed = r.sniffed /\ Dial(r, d).attempts = r.attempts
           /\ Dial(r, d).seen = r.seen
<1> DEFINE o == Outlets(d)
           k == [r EXCEPT !.stage = "dial", !.decision = d, !.todo = o]
<1>1. Dial(r, d) = k
  BY DEF Dial, Outlets
<1>2. o \in Seq(Outlet)
  OBVIOUS
<1> HIDE DEF o
<1>3. k \in Task
  BY <1>2 DEF Task, Stage
<1>4. /\ k.stage = "dial" /\ k.todo = o /\ k.permit = r.permit /\ k.user = r.user
      /\ k.host = r.host /\ k.sniffed = r.sniffed /\ k.attempts = r.attempts /\ k.seen = r.seen
  BY DEF Task
<1> HIDE DEF k
<1>5. QED
  BY <1>1, <1>3, <1>4 DEF o

LEMMA DialOK ==
    ASSUME NEW v \in 1 .. Len(Snapshot), NEW r \in Task, r.permit, r.user \in User,
           r.attempts = 0, v \in r.seen, r.seen \subseteq 1 .. v,
           NEW d, d = Decide(Compiled[v], r.user, r.host, r.sniffed), d # Block
    PROVE  /\ Dial(r, d) \in Task /\ TaskOK(Dial(r, d), v) /\ Dial(r, d).permit
           /\ Dial(r, d).user = r.user /\ Dial(r, d).stage = "dial"
<1>1. d \in Decision /\ Outlets(d) \in Seq(Outlet) /\ Len(Outlets(d)) # 0
  BY DecisionDialled
<1>2. PICK k : k = Dial(r, d)
  OBVIOUS
<1>3. /\ k \in Task /\ k.stage = "dial" /\ k.todo = Outlets(d) /\ k.permit = r.permit
      /\ k.user = r.user /\ k.host = r.host /\ k.sniffed = r.sniffed
      /\ k.attempts = r.attempts /\ k.seen = r.seen
  BY <1>1, <1>2, DialTask
<1>4. d = Decide(Compiled[v], k.user, k.host, k.sniffed)
  BY <1>3
<1>5. /\ k.attempts + Len(k.todo) = Len(Outlets(d))
      /\ \A i \in 1 .. Len(k.todo) : k.todo[i] = Outlets(d)[k.attempts + i]
  BY <1>1, <1>3
<1>6. Follows(k, v)
  BY <1>3, <1>4, <1>5 DEF Follows
<1>7. TaskOK(k, v)
  BY <1>3, <1>6 DEF TaskOK
<1>8. QED
  BY <1>2, <1>3, <1>7

LEMMA SniffTask ==
    ASSUME NEW r \in Task
    PROVE  /\ [r EXCEPT !.permit = TRUE, !.stage = "sniff"] \in Task
           /\ [r EXCEPT !.permit = TRUE] \in Task
BY DEF Task, Stage

\* Admission, whichever frontend asks for it.
LEMMA AdmitKeeps ==
    ASSUME IInv, NEW c \in Conn, NEW r \in Task, Admit(c, r),
           conn[c].stage \in {"handshake", "request"},
           r.user \in User, r.limit \in LimitsOf(r.user, version), r.seen = conn[c].seen,
           r.attempts = 0, r.sniffed = None
    PROVE  IInv'
<1> DEFINE d == Decide(Current, r.user, r.host, None)
<1>1. TaskOK(conn[c], version) /\ version \in 1 .. Len(Snapshot)
  BY TaskFacts
<1>2. /\ ~ conn[c].permit /\ ~ (conn[c].attempts > 0)
      /\ version \in r.seen /\ r.seen \subseteq 1 .. version
  BY <1>1 DEF TaskOK
<1>3. CASE d = Block /\ Refuse(c, Blocked(r.user))
  BY <1>2, <1>3, RefuseKeeps, NotesAreRecords
<1>4. CASE Refuse(c, Note(TRUE, r.proto = "tuic"))
  <2>1. Note(TRUE, r.proto = "tuic") \in Record \cup {None}
    BY NotesAreRecords
  <2>2. QED
    BY <1>2, <1>4, <2>1, RefuseKeeps
<1>5. CASE /\ d # Block /\ ~ Full(r.user, r.limit)
           /\ active' = [active EXCEPT ![r.user] = @ + 1]
           /\ conn' = [conn EXCEPT ![c] =
                  IF r.route THEN [r EXCEPT !.permit = TRUE, !.stage = "sniff"]
                  ELSE [Dial(r, d) EXCEPT !.permit = TRUE]]
           /\ UNCHANGED <<version, phase, tunnels>>
  <2> DEFINE k == IF r.route THEN [r EXCEPT !.permit = TRUE, !.stage = "sniff"]
                  ELSE [Dial(r, d) EXCEPT !.permit = TRUE]
  <2>1. k \in Task /\ TaskOK(k, version) /\ k.permit /\ k.user = r.user /\ k.stage # "splice"
    <3>1. CASE r.route
      <4> DEFINE q == [r EXCEPT !.permit = TRUE, !.stage = "sniff"]
      <4>1. q \in Task
        BY SniffTask
      <4>2. /\ q.permit /\ q.stage = "sniff" /\ q.user = r.user /\ q.seen = r.seen
            /\ q.attempts = 0 /\ q.sniffed = None
        BY DEF Task
      <4>3. k = q
        BY <3>1
      <4> HIDE DEF q, k
      <4>4. TaskOK(q, version)
        BY <1>2, <4>2 DEF TaskOK
      <4>5. QED
        BY <4>1, <4>2, <4>3, <4>4
    <3>2. CASE ~ r.route
      <4> DEFINE q == [r EXCEPT !.permit = TRUE]
      <4>1. q \in Task
        BY SniffTask
      <4>2. /\ q.permit /\ q.user = r.user /\ q.host = r.host /\ q.seen = r.seen
            /\ q.attempts = 0 /\ q.sniffed = None
        BY DEF Task
      <4>3. [Dial(r, d) EXCEPT !.permit = TRUE] = Dial(q, d)
        BY DEF Dial, Task
      <4>4. k = Dial(q, d)
        BY <3>2, <4>3
      <4> HIDE DEF q, k
      <4>5. d = Decide(Compiled[version], q.user, q.host, q.sniffed)
        BY <4>2 DEF Current
      <4> HIDE DEF d
      <4>6. /\ Dial(q, d) \in Task /\ TaskOK(Dial(q, d), version) /\ Dial(q, d).permit
            /\ Dial(q, d).user = q.user /\ Dial(q, d).stage = "dial"
        BY <1>1, <1>2, <1>5, <4>1, <4>2, <4>5, DialOK
      <4>7. QED
        BY <4>2, <4>4, <4>6
    <3>3. QED
      BY <3>1, <3>2
  <2>2. conn' = [conn EXCEPT ![c] = k]
    BY <1>5
  <2> HIDE DEF k
  <2>3. r.limit \in Nat
    BY DEF Task
  <2>4. QED
    BY <1>2, <1>5, <2>1, <2>2, <2>3, AcquireKeeps
<1>6. QED
  BY <1>3, <1>4, <1>5 DEF Admit

LEMMA AskTask ==
    ASSUME NEW r \in Task, NEW u \in User, NEW l \in Nat, NEW h \in Host, NEW route \in BOOLEAN
    PROVE  /\ [r EXCEPT !.user = u, !.limit = l, !.host = h, !.route = route] \in Task
           /\ [r EXCEPT !.host = h, !.route = route] \in Task
BY DEF Task

LEMMA HttpRequestKeeps ==
    ASSUME IInv, NEW c \in Conn, NEW u \in User, NEW h \in Host, NEW route \in BOOLEAN,
           HttpRequest(c, u, h, route)
    PROVE  IInv'
<1>1. PICK r \in Task : r = conn[c]
  BY TaskFacts
<1>2. PICK l \in Nat : l = Current.limit[u] /\ l \in LimitsOf(u, version)
  BY CurrentLimit DEF HttpRequest
<1> DEFINE k == [r EXCEPT !.user = u, !.limit = l, !.host = h, !.route = route]
<1>3. Admit(c, k) /\ conn[c].stage = "handshake"
  BY <1>1, <1>2 DEF HttpRequest
<1>4. k \in Task
  BY <1>1, <1>2, AskTask
<1>5. /\ k.user = u /\ k.limit = l /\ k.seen = r.seen /\ k.attempts = r.attempts
      /\ k.sniffed = r.sniffed
  BY <1>1, <1>2 DEF Task
<1> HIDE DEF k
<1>6. r.attempts = 0 /\ r.sniffed = None
  BY <1>1, <1>3, TaskFacts DEF TaskOK
<1>7. QED
  BY <1>1, <1>2, <1>3, <1>4, <1>5, <1>6, AdmitKeeps

LEMMA RequestKeeps ==
    ASSUME IInv, NEW c \in Conn, NEW h \in Host, NEW route \in BOOLEAN, Request(c, h, route)
    PROVE  IInv'
<1>1. PICK r \in Task : r = conn[c]
  BY TaskFacts
<1>2. TaskOK(r, version) /\ r.stage = "request"
  BY <1>1, TaskFacts DEF Request
<1>3. /\ r.user \in User /\ r.limit \in LimitsOf(r.user, version)
      /\ r.attempts = 0 /\ r.sniffed = None
  BY <1>2 DEF TaskOK
<1> DEFINE k == [r EXCEPT !.host = h, !.route = route]
<1>4. Admit(c, k) /\ conn[c].stage = "request"
  BY <1>1 DEF Request
<1>5. k \in Task
  <2>1. r.limit \in Nat
    BY <1>1 DEF Task
  <2>2. QED
    BY <1>1, <1>3, <2>1, AskTask
<1>6. /\ k.user = r.user /\ k.limit = r.limit /\ k.seen = r.seen /\ k.attempts = r.attempts
      /\ k.sniffed = r.sniffed
  BY <1>1 DEF Task
<1> HIDE DEF k
<1>7. QED
  BY <1>1, <1>3, <1>4, <1>5, <1>6, AdmitKeeps

LEMMA SniTask ==
    ASSUME NEW r \in Task, NEW u \in User
    PROVE  [r EXCEPT !.stage = "sniff", !.user = u, !.permit = TRUE] \in Task
BY DEF Task, Stage

LEMMA SniAdmitKeeps ==
    ASSUME IInv, NEW c \in Conn, SniAdmit(c)
    PROVE  IInv'
<1>1. CASE End({c}, Note(FALSE, FALSE))
  BY <1>1, EndOne, NotesAreRecords
<1>2. CASE /\ ~ Full(Identity, Current.limit[Identity])
           /\ active' = [active EXCEPT ![Identity] = @ + 1]
           /\ conn' = [conn EXCEPT ![c].stage = "sniff", ![c].user = Identity,
                                   ![c].permit = TRUE]
           /\ UNCHANGED <<version, phase, tunnels>>
  <2>1. PICK r \in Task : r = conn[c]
    BY TaskFacts
  <2>2. PICK l \in Nat : l = Current.limit[Identity] /\ l \in LimitsOf(Identity, version)
    BY CurrentLimit DEF SniAdmit
  <2>3. Identity \in User
    BY ConnectionAssumption
  <2> DEFINE k == [r EXCEPT !.stage = "sniff", !.user = Identity, !.permit = TRUE]
  <2>4. conn' = [conn EXCEPT ![c] = k]
    BY <1>2, <2>1, TaskFacts
  <2>5. k \in Task
    BY <2>1, <2>3, SniTask
  <2>6. /\ k.stage = "sniff" /\ k.user = Identity /\ k.permit /\ k.seen = r.seen
        /\ k.attempts = r.attempts /\ k.sniffed = r.sniffed
    BY <2>1 DEF Task
  <2> HIDE DEF k
  <2>7. TaskOK(r, version) /\ r.stage = "handshake"
    BY <2>1, TaskFacts DEF SniAdmit
  <2>8. TaskOK(k, version) /\ ~ r.permit
    BY <2>3, <2>6, <2>7 DEF TaskOK
  <2>9. QED
    BY <1>2, <2>1, <2>2, <2>3, <2>4, <2>5, <2>6, <2>7, <2>8, AcquireKeeps
<1>3. QED
  BY <1>1, <1>2 DEF SniAdmit

LEMMA SniffFailsKeeps ==
    ASSUME IInv, NEW c \in Conn, SniffFails(c)
    PROVE  IInv'
<1>1. CASE End({c}, IF conn[c].proto = "sni" THEN Note(FALSE, FALSE) ELSE Note(TRUE, TRUE))
  <2>1. (IF conn[c].proto = "sni" THEN Note(FALSE, FALSE) ELSE Note(TRUE, TRUE))
            \in Record \cup {None}
    BY NotesAreRecords
  <2>2. QED
    BY <1>1, <2>1, EndOne
<1>2. CASE End({c}, None)
  BY <1>2, EndOne
<1>3. QED
  BY <1>1, <1>2 DEF SniffFails

LEMMA NamedTask ==
    ASSUME NEW r \in Task, NEW n \in Host \cup {None}
    PROVE  [r EXCEPT !.sniffed = n] \in Task /\ [r EXCEPT !.host = n] \in Task
BY DEF Task

\* A sniffing task dials what is decided with what it has learnt.
LEMMA SniffedDials ==
    ASSUME IInv, NEW c \in Conn, conn[c].stage = "sniff", NEW q \in Task,
           q.permit = conn[c].permit, q.user = conn[c].user, q.seen = conn[c].seen,
           q.attempts = conn[c].attempts,
           NEW d, d = Decide(Current, q.user, q.host, q.sniffed), d # Block,
           conn' = [conn EXCEPT ![c] = Dial(q, d)],
           UNCHANGED <<version, phase, active, tunnels>>
    PROVE  IInv'
<1>1. TaskOK(conn[c], version) /\ version \in 1 .. Len(Snapshot)
  BY TaskFacts
<1>2. /\ q.permit /\ q.user \in User /\ q.attempts = 0 /\ version \in q.seen
      /\ q.seen \subseteq 1 .. version
  BY <1>1 DEF TaskOK
<1>3. d = Decide(Compiled[version], q.user, q.host, q.sniffed)
  BY DEF Current
<1>4. PICK k : k = Dial(q, d)
  OBVIOUS
<1>5. /\ k \in Task /\ TaskOK(k, version) /\ k.permit /\ k.user = q.user /\ k.stage = "dial"
  BY <1>1, <1>2, <1>3, <1>4, DialOK
<1>6. QED
  BY <1>2, <1>4, <1>5, MoveKeeps

LEMMA SniffKeeps ==
    ASSUME IInv, NEW c \in Conn, NEW n \in Observable, Sniff(c, n)
    PROVE  IInv'
<1>1. PICK r \in Task : r = conn[c]
  BY TaskFacts
<1>2. n \in Host \cup {None} /\ conn[c].stage = "sniff"
  BY DEF Observable, Sniff
<1>3. TaskOK(r, version) /\ r.stage = "sniff"
  BY <1>1, <1>2, TaskFacts
<1>4. r.sniffed = None
  BY <1>3 DEF TaskOK
<1>5. CASE SniSniffed(c, n)
  <2> DEFINE d == Decide(Current, r.user, n, None)
             q == [r EXCEPT !.host = n]
  <2>1. CASE End({c}, Note(FALSE, FALSE))
    BY <2>1, EndOne, NotesAreRecords
  <2>2. CASE End({c}, Blocked(r.user))
    BY <2>2, EndOne, NotesAreRecords
  <2>3. CASE /\ d # Block /\ conn' = [conn EXCEPT ![c] = Dial(q, d)]
             /\ UNCHANGED <<version, phase, active, tunnels>>
    <3>1. q \in Task
      BY <1>1, <1>2, NamedTask
    <3>2. /\ q.permit = r.permit /\ q.user = r.user /\ q.seen = r.seen
          /\ q.attempts = r.attempts /\ q.host = n /\ q.sniffed = r.sniffed
      BY <1>1 DEF Task
    <3> HIDE DEF q
    <3>3. d = Decide(Current, q.user, q.host, q.sniffed)
      BY <1>4, <3>2
    <3> HIDE DEF d
    <3>4. QED
      BY <1>1, <1>2, <2>3, <3>1, <3>2, <3>3, SniffedDials
  <2>4. QED
    BY <1>1, <1>5, <2>1, <2>2, <2>3 DEF SniSniffed
<1>6. CASE Sniffed(c, n)
  <2> DEFINE d == Decide(Current, r.user, r.host, n)
             q == [r EXCEPT !.sniffed = n]
  <2>1. CASE End({c}, Blocked(r.user))
    BY <2>1, EndOne, NotesAreRecords
  <2>2. CASE /\ d # Block /\ conn' = [conn EXCEPT ![c] = Dial(q, d)]
             /\ UNCHANGED <<version, phase, active, tunnels>>
    <3>1. q \in Task
      BY <1>1, <1>2, NamedTask
    <3>2. /\ q.permit = r.permit /\ q.user = r.user /\ q.seen = r.seen
          /\ q.attempts = r.attempts /\ q.host = r.host /\ q.sniffed = n
      BY <1>1 DEF Task
    <3> HIDE DEF q
    <3>3. d = Decide(Current, q.user, q.host, q.sniffed)
      BY <3>2
    <3> HIDE DEF d
    <3>4. QED
      BY <1>1, <1>2, <2>2, <3>1, <3>2, <3>3, SniffedDials
  <2>3. QED
    BY <1>1, <1>6, <2>1, <2>2 DEF Sniffed
<1>7. QED
  BY <1>5, <1>6 DEF Sniff

\* The attempts of a task that dials.
LEMMA DialFacts ==
    ASSUME IInv, NEW c \in Conn, NEW r \in Task, r = conn[c], r.stage = "dial"
    PROVE  \E w \in r.seen : \E d :
              /\ d = Decide(Compiled[w], r.user, r.host, r.sniffed) /\ d # Block
              /\ Outlets(d) \in Seq(Outlet) /\ Len(Outlets(d)) # 0
              /\ r.attempts + Len(r.todo) = Len(Outlets(d))
              /\ \A i \in 1 .. Len(r.todo) : r.todo[i] = Outlets(d)[r.attempts + i]
<1>1. TaskOK(r, version)
  BY TaskFacts
<1>2. PICK w \in r.seen : Follows(r, w)
  BY <1>1 DEF TaskOK
<1>3. w \in 1 .. Len(Snapshot)
  BY <1>2 DEF Task
<1>4. PICK d : d = Decide(Compiled[w], r.user, r.host, r.sniffed)
  OBVIOUS
<1>5. /\ d # Block /\ r.attempts + Len(r.todo) = Len(Outlets(d))
      /\ \A i \in 1 .. Len(r.todo) : r.todo[i] = Outlets(d)[r.attempts + i]
  BY <1>2, <1>4 DEF Follows
<1>6. Outlets(d) \in Seq(Outlet) /\ Len(Outlets(d)) # 0
  BY <1>3, <1>4, <1>5, DecisionDialled
<1>7. QED
  BY <1>2, <1>4, <1>5, <1>6

LEMMA ReplyTask ==
    ASSUME NEW r \in Task, NEW o \in Outlet
    PROVE  [r EXCEPT !.egress = o, !.todo = <<>>, !.attempts = @ + 1, !.spent = 0] \in Task
<1>1. 0 \in 0 .. TotalTimeout /\ <<>> \in Seq(Outlet)
  BY SnapshotFacts
<1>2. r.attempts + 1 \in Nat
  BY DEF Task
<1>3. QED
  BY <1>1, <1>2 DEF Task

LEMMA StagedTask ==
    ASSUME NEW r \in Task
    PROVE  /\ [r EXCEPT !.stage = "reply"] \in Task
           /\ [r EXCEPT !.stage = "splice", !.copying = {"up", "down"}] \in Task
BY DEF Task, Stage

LEMMA ConnectedKeeps ==
    ASSUME IInv, NEW c \in Conn, Connected(c)
    PROVE  IInv'
<1>1. PICK r \in Task : r = conn[c]
  BY TaskFacts
<1>2. r.stage = "dial" /\ r.todo # <<>>
  BY <1>1 DEF Connected, Trying
<1>3. PICK w \in r.seen : \E d :
              /\ d = Decide(Compiled[w], r.user, r.host, r.sniffed) /\ d # Block
              /\ Outlets(d) \in Seq(Outlet) /\ Len(Outlets(d)) # 0
              /\ r.attempts + Len(r.todo) = Len(Outlets(d))
              /\ \A i \in 1 .. Len(r.todo) : r.todo[i] = Outlets(d)[r.attempts + i]
  BY <1>1, <1>2, DialFacts
<1>4. PICK d :
              /\ d = Decide(Compiled[w], r.user, r.host, r.sniffed) /\ d # Block
              /\ Outlets(d) \in Seq(Outlet) /\ Len(Outlets(d)) # 0
              /\ r.attempts + Len(r.todo) = Len(Outlets(d))
              /\ \A i \in 1 .. Len(r.todo) : r.todo[i] = Outlets(d)[r.attempts + i]
  BY <1>3
<1>5. r.todo \in Seq(Outlet) /\ r.attempts \in Nat
  BY <1>1 DEF Task
<1>6. Len(r.todo) \in Nat \ {0}
  BY <1>2, <1>5
<1>7. PICK o \in Outlet : o = Head(r.todo) /\ o = r.todo[1]
  BY <1>2, <1>5
<1>8. r.attempts + 1 \in 1 .. Len(Outlets(d)) /\ o = Outlets(d)[r.attempts + 1]
  <2>1. Len(Outlets(d)) \in Nat
    BY <1>4
  <2>2. 1 \in 1 .. Len(r.todo)
    BY <1>6
  <2>3. r.todo[1] = Outlets(d)[r.attempts + 1]
    BY <1>4, <2>2
  <2>4. r.attempts + 1 \in 1 .. Len(Outlets(d))
    BY <1>4, <1>5, <1>6, <2>1
  <2>5. QED
    BY <1>7, <2>3, <2>4
<1>9. TaskOK(r, version)
  BY <1>1, TaskFacts
<1> DEFINE q == [r EXCEPT !.egress = o, !.todo = <<>>, !.attempts = @ + 1, !.spent = 0]
<1>10. q \in Task
  BY <1>1, <1>7, ReplyTask
<1>11. /\ q.egress = o /\ q.attempts = r.attempts + 1 /\ q.permit = r.permit
       /\ q.user = r.user /\ q.host = r.host /\ q.sniffed = r.sniffed /\ q.seen = r.seen
  BY <1>1 DEF Task
<1>12. \/ /\ conn' = [conn EXCEPT ![c] = [q EXCEPT !.stage = "reply"]]
          /\ UNCHANGED <<version, phase, active, tunnels>>
       \/ /\ conn' = [conn EXCEPT ![c] = [q EXCEPT !.stage = "splice", !.copying = {"up", "down"}]]
          /\ tunnels' = [tunnels EXCEPT ![o] = @ + 1]
          /\ UNCHANGED <<version, phase, active>>
  BY <1>1, <1>7 DEF Connected
<1> HIDE DEF q
<1>13. ASSUME NEW k, k.stage \in {"reply", "splice"}, k.egress = q.egress,
              k.attempts = q.attempts, k.permit = q.permit, k.user = q.user,
              k.host = q.host, k.sniffed = q.sniffed, k.seen = q.seen
       PROVE  TaskOK(k, version)
  <2>1. k.stage # "dial" /\ k.stage \notin {"none", "handshake", "request", "sniff", "respond", "over"}
    BY <1>13
  <2>2. d = Decide(Compiled[w], k.user, k.host, k.sniffed)
    BY <1>4, <1>11, <1>13
  <2>3. Follows(k, w)
    BY <1>4, <1>8, <1>11, <1>13, <2>1, <2>2 DEF Follows
  <2>4. k.permit /\ k.user \in User /\ k.seen \subseteq 1 .. version /\ version \in k.seen
    BY <1>2, <1>9, <1>11, <1>13 DEF TaskOK
  <2>5. k.egress \in Outlet /\ w \in k.seen
    BY <1>3, <1>7, <1>11, <1>13
  <2>6. QED
    BY <1>13, <2>1, <2>3, <2>4, <2>5 DEF TaskOK
<1>14. CASE /\ conn' = [conn EXCEPT ![c] = [q EXCEPT !.stage = "reply"]]
            /\ UNCHANGED <<version, phase, active, tunnels>>
  <2> DEFINE k == [q EXCEPT !.stage = "reply"]
  <2>1. k \in Task
    BY <1>10, StagedTask
  <2>2. /\ k.stage = "reply" /\ k.egress = q.egress /\ k.attempts = q.attempts
        /\ k.permit = q.permit /\ k.user = q.user /\ k.host = q.host
        /\ k.sniffed = q.sniffed /\ k.seen = q.seen
    BY <1>10 DEF Task
  <2>3. conn' = [conn EXCEPT ![c] = k]
    BY <1>14
  <2> HIDE DEF k
  <2>4. TaskOK(k, version)
    BY <1>13, <2>2
  <2>5. QED
    BY <1>1, <1>2, <1>11, <1>14, <2>1, <2>2, <2>3, <2>4, MoveKeeps
<1>15. CASE /\ conn' = [conn EXCEPT ![c] = [q EXCEPT !.stage = "splice",
                                                     !.copying = {"up", "down"}]]
            /\ tunnels' = [tunnels EXCEPT ![o] = @ + 1]
            /\ UNCHANGED <<version, phase, active>>
  <2> DEFINE k == [q EXCEPT !.stage = "splice", !.copying = {"up", "down"}]
  <2>1. k \in Task
    BY <1>10, StagedTask
  <2>2. /\ k.stage = "splice" /\ k.egress = q.egress /\ k.attempts = q.attempts
        /\ k.permit = q.permit /\ k.user = q.user /\ k.host = q.host
        /\ k.sniffed = q.sniffed /\ k.seen = q.seen
    BY <1>10 DEF Task
  <2>3. conn' = [conn EXCEPT ![c] = k]
    BY <1>15
  <2> HIDE DEF k
  <2>4. TaskOK(k, version)
    BY <1>13, <2>2
  <2>5. /\ k.permit = conn[c].permit /\ k.user = conn[c].user /\ k.egress = o
        /\ conn[c].stage # "splice"
    BY <1>1, <1>2, <1>11, <2>2
  <2>6. /\ tunnels' = [tunnels EXCEPT ![o] = @ + 1]
        /\ UNCHANGED <<version, phase, active>>
    BY <1>15
  <2>7. QED
    BY <2>1, <2>2, <2>3, <2>4, <2>5, <2>6, OpenKeeps
<1>16. QED
  BY <1>12, <1>14, <1>15

LEMMA TriedTask ==
    ASSUME NEW r \in Task, r.todo # <<>>, NEW t \in Nat, r.spent + t <= TotalTimeout
    PROVE  [r EXCEPT !.todo = Tail(@), !.attempts = @ + 1, !.spent = @ + t] \in Task
<1>1. Tail(r.todo) \in Seq(Outlet)
  <2>1. r.todo \in Seq(Outlet)
    BY DEF Task
  <2>2. QED
    BY <2>1
<1>2. r.attempts + 1 \in Nat
  BY DEF Task
<1>3. r.spent + t \in 0 .. TotalTimeout
  <2>1. r.spent \in 0 .. TotalTimeout
    BY DEF Task
  <2>2. QED
    BY <2>1, SnapshotFacts
<1>4. QED
  BY <1>1, <1>2, <1>3 DEF Task

LEMMA AttemptFailsKeeps ==
    ASSUME IInv, NEW c \in Conn, AttemptFails(c)
    PROVE  IInv'
<1>1. PICK r \in Task : r = conn[c]
  BY TaskFacts
<1>2. r.stage = "dial" /\ r.todo # <<>>
  BY <1>1 DEF AttemptFails, Trying
<1>3. PICK t \in Took(c) :
          conn' = [conn EXCEPT ![c].todo = Tail(@), ![c].attempts = @ + 1, ![c].spent = @ + t]
  BY DEF AttemptFails
<1>4. t \in Nat /\ r.spent + t <= TotalTimeout
  <2>1. r.spent \in 0 .. TotalTimeout
    BY <1>1 DEF Task
  <2>2. t = 0 \/ t = Budget(c)
    BY <1>3 DEF Took
  <2>3. Budget(c) \in Nat /\ r.spent + Budget(c) <= TotalTimeout
    BY <1>1, <2>1, SnapshotFacts DEF Budget
  <2>4. QED
    BY <2>1, <2>2, <2>3, SnapshotFacts
<1> DEFINE k == [r EXCEPT !.todo = Tail(@), !.attempts = @ + 1, !.spent = @ + t]
<1>5. conn' = [conn EXCEPT ![c] = k]
  BY <1>1, <1>3, TaskFacts
<1>6. k \in Task
  BY <1>1, <1>2, <1>4, TriedTask
<1>7. /\ k.stage = r.stage /\ k.todo = Tail(r.todo) /\ k.attempts = r.attempts + 1
      /\ k.permit = r.permit /\ k.user = r.user /\ k.host = r.host
      /\ k.sniffed = r.sniffed /\ k.seen = r.seen
  BY <1>1 DEF Task
<1> HIDE DEF k
<1>8. PICK w \in r.seen : Follows(r, w)
  BY <1>1, <1>2, TaskFacts DEF TaskOK
<1>9. Follows(k, w)
  <2>1. PICK s \in Seq(Outlet) : s = r.todo /\ s # <<>>
    BY <1>1, <1>2 DEF Task
  <2>2. r.attempts \in Nat
    BY <1>1 DEF Task
  <2>3. PICK d : d = Decide(Compiled[w], r.user, r.host, r.sniffed)
    OBVIOUS
  <2>4. /\ d # Block /\ r.attempts + Len(s) = Len(Outlets(d))
        /\ \A i \in 1 .. Len(s) : s[i] = Outlets(d)[r.attempts + i]
    BY <1>2, <1>8, <2>1, <2>3 DEF Follows
  <2>5. Len(Tail(s)) = Len(s) - 1 /\ Len(s) \in Nat \ {0}
        /\ \A i \in 1 .. Len(Tail(s)) : Tail(s)[i] = s[i + 1]
    BY <2>1
  <2>6. r.attempts + 1 + Len(Tail(s)) = Len(Outlets(d))
    BY <2>2, <2>4, <2>5
  <2>7. ASSUME NEW i \in 1 .. Len(Tail(s))
        PROVE  Tail(s)[i] = Outlets(d)[r.attempts + 1 + i]
    <3>1. i + 1 \in 1 .. Len(s) /\ r.attempts + (i + 1) = r.attempts + 1 + i
      BY <2>2, <2>5
    <3>2. s[i + 1] = Outlets(d)[r.attempts + (i + 1)]
      BY <2>4, <3>1
    <3>3. QED
      BY <2>5, <3>1, <3>2
  <2>8. d = Decide(Compiled[w], k.user, k.host, k.sniffed)
    BY <1>7, <2>3
  <2>9. k.todo = Tail(s) /\ k.attempts = r.attempts + 1 /\ k.stage = "dial"
    BY <1>2, <1>7, <2>1
  <2>10. QED
    BY <2>4, <2>6, <2>7, <2>8, <2>9 DEF Follows
<1>10. TaskOK(r, version)
  BY <1>1, TaskFacts
<1>11. TaskOK(k, version)
  BY <1>2, <1>7, <1>8, <1>9, <1>10 DEF TaskOK
<1>12. UNCHANGED <<version, phase, active, tunnels>>
  BY DEF AttemptFails
<1>13. QED
  BY <1>1, <1>2, <1>5, <1>6, <1>7, <1>11, <1>12, MoveKeeps

LEMMA ConnectFailedKeeps ==
    ASSUME IInv, NEW c \in Conn, ConnectFailed(c)
    PROVE  IInv'
<1>1. PICK r \in Task : r = conn[c]
  BY TaskFacts
<1>2. /\ r.stage = "dial" /\ (r.todo = <<>> \/ OutOfBudget(c))
      /\ Refuse(c, Note(TRUE, ~ Answers(c)))
  BY <1>1 DEF ConnectFailed
<1>3. r.attempts > 0
  <2>1. CASE r.todo = <<>>
    <3>1. PICK n \in Nat \ {0} : r.attempts + Len(r.todo) = n
      <4>1. PICK w \in r.seen : \E d :
              /\ d = Decide(Compiled[w], r.user, r.host, r.sniffed) /\ d # Block
              /\ Outlets(d) \in Seq(Outlet) /\ Len(Outlets(d)) # 0
              /\ r.attempts + Len(r.todo) = Len(Outlets(d))
              /\ \A i \in 1 .. Len(r.todo) : r.todo[i] = Outlets(d)[r.attempts + i]
        BY <1>1, <1>2, DialFacts DEF ConnectFailed
      <4>2. PICK d : /\ Outlets(d) \in Seq(Outlet) /\ Len(Outlets(d)) # 0
                     /\ r.attempts + Len(r.todo) = Len(Outlets(d))
        BY <4>1
      <4>3. Len(Outlets(d)) \in Nat \ {0}
        BY <4>2
      <4>4. QED
        BY <4>2, <4>3
    <3>2. Len(r.todo) = 0 /\ r.attempts \in Nat
      BY <1>1, <2>1 DEF Task
    <3>3. QED
      BY <3>1, <3>2
  <2>2. CASE OutOfBudget(c)
    BY <1>1, <2>2 DEF OutOfBudget
  <2>3. QED
    BY <1>1, <2>1, <2>2 DEF ConnectFailed
<1>4. TaskOK(r, version) /\ r.stage = "dial"
  BY <1>1, TaskFacts DEF ConnectFailed
<1>5. r.permit
  BY <1>4 DEF TaskOK
<1>6. Note(TRUE, ~ Answers(c)) \in Record \cup {None}
  BY NotesAreRecords
<1>7. QED
  BY <1>1, <1>2, <1>3, <1>4, <1>5, <1>6, RefuseKeeps

LEMMA ReplyKeeps ==
    ASSUME IInv, NEW c \in Conn, Reply(c)
    PROVE  IInv'
<1>1. PICK r \in Task : r = conn[c]
  BY TaskFacts
<1>2. TaskOK(r, version) /\ r.stage = "reply"
  BY <1>1, TaskFacts DEF Reply
<1>3. PICK o \in Outlet : o = r.egress
  BY <1>2 DEF TaskOK
<1> DEFINE k == [r EXCEPT !.stage = "splice", !.copying = {"up", "down"}]
<1>4. conn' = [conn EXCEPT ![c] = k]
  BY <1>1, TaskFacts DEF Reply
<1>5. k \in Task
  BY <1>1, StagedTask
<1>6. /\ k.stage = "splice" /\ k.egress = r.egress /\ k.attempts = r.attempts
      /\ k.permit = r.permit /\ k.user = r.user /\ k.host = r.host
      /\ k.sniffed = r.sniffed /\ k.seen = r.seen
  BY <1>1 DEF Task
<1> HIDE DEF k
<1>7. \A w : Follows(r, w) => Follows(k, w)
  BY <1>2, <1>6 DEF Follows
<1>8. TaskOK(k, version)
  BY <1>2, <1>6, <1>7 DEF TaskOK
<1>9. tunnels' = [tunnels EXCEPT ![o] = @ + 1] /\ UNCHANGED <<version, phase, active>>
  BY <1>1, <1>3 DEF Reply
<1>10. k.permit = conn[c].permit /\ k.user = conn[c].user /\ k.egress = o
       /\ conn[c].stage # "splice"
  BY <1>1, <1>2, <1>3, <1>6
<1>11. QED
  BY <1>4, <1>5, <1>6, <1>8, <1>9, <1>10, OpenKeeps

LEMMA CopyTask ==
    ASSUME NEW r \in Task, NEW d
    PROVE  [r EXCEPT !.copying = @ \ {d}] \in Task
<1>1. r.copying \ {d} \in SUBSET {"up", "down"}
  BY DEF Task
<1>2. QED
  BY <1>1 DEF Task

LEMMA CopyEndsKeeps ==
    ASSUME IInv, NEW c \in Conn, NEW d \in {"up", "down"}, CopyEnds(c, d)
    PROVE  IInv'
<1>1. PICK r \in Task : r = conn[c]
  BY TaskFacts
<1>2. TaskOK(r, version)
  BY <1>1, TaskFacts
<1> DEFINE k == [r EXCEPT !.copying = @ \ {d}]
<1>3. conn' = [conn EXCEPT ![c] = k] /\ UNCHANGED <<version, phase, active, tunnels>>
  BY <1>1, TaskFacts DEF CopyEnds
<1>4. k \in Task
  BY <1>1, CopyTask
<1>5. /\ k.stage = r.stage /\ k.egress = r.egress /\ k.attempts = r.attempts
      /\ k.permit = r.permit /\ k.user = r.user /\ k.host = r.host /\ k.limit = r.limit
      /\ k.sniffed = r.sniffed /\ k.seen = r.seen /\ k.todo = r.todo
  BY <1>1 DEF Task
<1> HIDE DEF k
<1>6. \A w : Follows(r, w) => Follows(k, w)
  BY <1>5 DEF Follows
<1>7. TaskOK(k, version)
  BY <1>2, <1>5, <1>6 DEF TaskOK
<1>8. QED
  BY <1>1, <1>3, <1>4, <1>5, <1>7, MoveKeeps

-------------------------------------------------------------------------------
(* The steps of the node keep the invariant *)

LEMMA SeenTask ==
    ASSUME NEW r \in Task, NEW v \in 1 .. Len(Snapshot)
    PROVE  [r EXCEPT !.seen = @ \cup {v}] \in Task
<1>1. r.seen \cup {v} \in SUBSET (1 .. Len(Snapshot))
  BY DEF Task
<1>2. QED
  BY <1>1 DEF Task

\* A task that was right under a snapshot is right under the next, having seen it.
LEMMA SeenOK ==
    ASSUME NEW r \in Task, NEW v \in Nat, NEW k, TaskOK(r, v),
           /\ k.stage = r.stage /\ k.egress = r.egress /\ k.attempts = r.attempts
           /\ k.permit = r.permit /\ k.user = r.user /\ k.host = r.host /\ k.limit = r.limit
           /\ k.sniffed = r.sniffed /\ k.todo = r.todo,
           \/ k.seen = r.seen /\ r.stage \in {"none", "over"}
           \/ k.seen = r.seen \cup {v + 1}
    PROVE  TaskOK(k, v + 1)
<1>1. \A w : Follows(r, w) => Follows(k, w)
  BY DEF Follows
<1>2. LimitsOf(r.user, v) \subseteq LimitsOf(r.user, v + 1)
  BY LimitsGrow
<1>3. 1 .. v \subseteq 1 .. v + 1 /\ v + 1 \in 1 .. v + 1
  OBVIOUS
<1>4. r.seen \subseteq k.seen /\ k.seen \subseteq 1 .. v + 1
  BY <1>3 DEF TaskOK
<1>5. /\ k.stage \notin {"none", "over"} => v + 1 \in k.seen
      /\ k.stage \in {"dial", "reply", "splice"} => \E w \in k.seen : Follows(k, w)
      /\ k.stage = "request" => k.user \in User /\ k.limit \in LimitsOf(k.user, v + 1)
  BY <1>1, <1>2, <1>4 DEF TaskOK
<1>6. QED
  BY <1>4, <1>5 DEF TaskOK

LEMMA SwapKeeps ==
    ASSUME IInv, Swap
    PROVE  IInv'
<1>1. /\ conn \in [Conn -> Task] /\ version \in 1 .. Len(Snapshot)
      /\ active \in [User -> Nat] /\ tunnels \in [Outlet -> Nat]
      /\ phase \in {"running", "draining", "stopped"}
  BY DEF IInv, Types
<1>2. version \in Nat /\ version' = version + 1 /\ version + 1 \in 1 .. Len(Snapshot)
  BY <1>1, SnapshotFacts DEF Swap
<1>3. \A c \in Conn : TaskOK(conn[c], version)
  BY DEF IInv, TasksOK
<1>4. ASSUME NEW c \in Conn
      PROVE  /\ conn'[c] \in Task /\ TaskOK(conn'[c], version + 1)
             /\ conn'[c].permit = conn[c].permit /\ conn'[c].user = conn[c].user
             /\ conn'[c].stage = conn[c].stage /\ conn'[c].egress = conn[c].egress
  <2>1. PICK r \in Task : r = conn[c]
    BY <1>1
  <2>2. TaskOK(r, version)
    BY <1>3, <2>1
  <2>3. CASE c \in Alive
    <3> DEFINE k == [r EXCEPT !.seen = @ \cup {version + 1}]
    <3>1. conn'[c] = k
      BY <1>2, <2>1, <2>3 DEF Swap
    <3>2. k \in Task
      BY <1>2, <2>1, SeenTask
    <3>3. /\ k.stage = r.stage /\ k.egress = r.egress /\ k.attempts = r.attempts
          /\ k.permit = r.permit /\ k.user = r.user /\ k.host = r.host /\ k.limit = r.limit
          /\ k.sniffed = r.sniffed /\ k.todo = r.todo /\ k.seen = r.seen \cup {version + 1}
      BY <2>1 DEF Task
    <3> HIDE DEF k
    <3>4. TaskOK(k, version + 1)
      BY <1>2, <2>1, <2>2, <3>3, SeenOK
    <3>5. QED
      BY <2>1, <3>1, <3>2, <3>3, <3>4
  <2>4. CASE c \notin Alive
    <3>1. conn'[c] = r
      BY <2>1, <2>4 DEF Swap
    <3>2. r.stage \in {"none", "over"}
      BY <2>1, <2>4 DEF Alive
    <3>3. TaskOK(r, version + 1)
      BY <1>2, <2>1, <2>2, <3>2, SeenOK
    <3>4. QED
      BY <2>1, <3>1, <3>3
  <2>5. QED
    BY <2>3, <2>4
<1>5. Types'
  <2>1. conn' \in [Conn -> Task]
    BY <1>4 DEF Swap
  <2>2. UNCHANGED <<phase, active, tunnels>>
    BY DEF Swap
  <2>3. QED
    BY <1>1, <1>2, <2>1, <2>2 DEF Types
<1>6. TasksOK'
  BY <1>2, <1>4 DEF TasksOK
<1>7. \A u : Holders(u)' = Holders(u)
  BY <1>4 DEF Holders
<1>8. \A o : Spliced(o)' = Spliced(o)
  BY <1>4 DEF Spliced
<1>9. \A u : \A n : Within(u, n, version) => Within(u, n, version + 1)
  <2>1. \A u : LimitsOf(u, version) \subseteq LimitsOf(u, version + 1)
    BY <1>2, LimitsGrow
  <2>2. QED
    BY <2>1 DEF Within
<1>10. Counted'
  <2>1. active' = active /\ tunnels' = tunnels
    BY DEF Swap
  <2>2. \A u \in User : (Within(u, active[u], version))' <=> Within(u, active[u], version + 1)
    BY <1>2, <2>1 DEF Within
  <2>3. QED
    BY <1>7, <1>8, <1>9, <2>1, <2>2 DEF IInv, Counted
<1>11. QED
  BY <1>5, <1>6, <1>10 DEF IInv

LEMMA PhaseKeeps ==
    ASSUME IInv, phase' \in {"running", "draining", "stopped"},
           UNCHANGED <<version, conn, active, tunnels>>
    PROVE  IInv'
<1>1. Types'
  BY DEF IInv, Types
<1>2. TasksOK'
  BY DEF IInv, TasksOK
<1>3. (\A u : Holders(u)' = Holders(u)) /\ (\A o : Spliced(o)' = Spliced(o))
  BY DEF Holders, Spliced
<1>4. Counted'
  BY <1>3 DEF IInv, Counted
<1>5. QED
  BY <1>1, <1>2, <1>4 DEF IInv

LEMMA DeadlineKeeps ==
    ASSUME IInv, Deadline
    PROVE  IInv'
<1>1. [Blank EXCEPT !.stage = "over"] = [Blank EXCEPT !.stage = "over", !.record = None]
  <2>1. PICK b \in Task : b = Blank
    BY BlankIsTask
  <2>2. b.record = None
    BY <2>1 DEF Blank
  <2>3. [b EXCEPT !.stage = "over"] = [b EXCEPT !.stage = "over", !.record = None]
    BY <2>1, <2>2 DEF Task
  <2>4. QED
    BY <2>1, <2>3
<1>2. conn' = [c \in Conn |-> IF c \in Alive THEN [Blank EXCEPT !.stage = "over", !.record = None]
                              ELSE conn[c]]
  BY <1>1 DEF Deadline
<1>3. Alive \in SUBSET Conn
  BY DEF Alive
<1>4. /\ active' = Returned(Alive) /\ tunnels' = Closed(Alive) /\ version' = version
      /\ phase' \in {"running", "draining", "stopped"}
  BY DEF Deadline
<1>5. None \in Record \cup {None}
  OBVIOUS
<1>6. QED
  BY <1>2, <1>3, <1>4, <1>5, EndKeeps

LEMMA InitIInv == Init => IInv
<1> SUFFICES ASSUME Init PROVE IInv
  OBVIOUS
<1>1. Blank \in Task
  BY BlankIsTask
<1>2. Types
  BY <1>1, SnapshotFacts DEF Init, Types
<1>3. /\ Blank.stage = "none" /\ ~ Blank.permit /\ Blank.attempts = 0
      /\ Blank.sniffed = None /\ Blank.seen = {}
  BY DEF Blank
<1>4. TaskOK(Blank, 1)
  BY <1>3 DEF TaskOK
<1>5. TasksOK
  BY <1>4 DEF Init, TasksOK
<1>6. (\A u : Holders(u) = {}) /\ (\A o : Spliced(o) = {})
  BY <1>3 DEF Init, Holders, Spliced
<1>7. Counted
  BY <1>6, FS_EmptySet DEF Init, Counted, Within
<1>8. QED
  BY <1>2, <1>5, <1>7 DEF IInv

LEMMA NextIInv == IInv /\ [Next]_vars => IInv'
<1> SUFFICES ASSUME IInv, [Next]_vars PROVE IInv'
  OBVIOUS
<1>1. ASSUME NEW c \in Conn, Client(c) PROVE IInv'
  <2>1. CASE Accept(c)
    BY <2>1, AcceptKeeps
  <2>2. CASE Vanish(c)
    BY <2>2, EndOne DEF Vanish
  <2>3. CASE Reject(c)
    BY <2>3, RejectKeeps
  <2>4. CASE SniAdmit(c)
    BY <2>4, SniAdmitKeeps
  <2>5. CASE \E u \in User : Identify(c, u)
    BY <2>5, IdentifyKeeps
  <2>6. CASE \E h \in Host, route \in BOOLEAN : Request(c, h, route)
    BY <2>6, RequestKeeps
  <2>7. CASE \E h \in Host, route \in BOOLEAN : \E u \in User : HttpRequest(c, u, h, route)
    BY <2>7, HttpRequestKeeps
  <2>8. QED
    BY <1>1, <2>1, <2>2, <2>3, <2>4, <2>5, <2>6, <2>7 DEF Client
<1>2. ASSUME NEW c \in Conn, Sniffing(c) PROVE IInv'
  BY <1>2, SniffFailsKeeps, SniffKeeps DEF Sniffing
<1>3. ASSUME NEW c \in Conn, Attempt(c) PROVE IInv'
  BY <1>3, ConnectFailedKeeps, ConnectedKeeps, AttemptFailsKeeps DEF Attempt
<1>4. ASSUME NEW c \in Conn, Respond(c) PROVE IInv'
  <2>1. conn[c].record \in Record \cup {None}
    BY TaskFacts DEF Task
  <2>2. QED
    BY <1>4, <2>1, EndOne DEF Respond
<1>5. ASSUME NEW c \in Conn, RespondFails(c) PROVE IInv'
  BY <1>5, EndOne DEF RespondFails
<1>6. ASSUME NEW c \in Conn, Reply(c) PROVE IInv'
  BY <1>6, ReplyKeeps
<1>7. ASSUME NEW c \in Conn, ReplyFails(c) PROVE IInv'
  BY <1>7, EndOne DEF ReplyFails
<1>8. ASSUME NEW c \in Conn, NEW d \in {"up", "down"}, CopyEnds(c, d) PROVE IInv'
  BY <1>8, CopyEndsKeeps
<1>9. ASSUME NEW c \in Conn, ForwardFails(c) PROVE IInv'
  BY <1>9, EndOne, NotesAreRecords DEF ForwardFails
<1>10. ASSUME NEW c \in Conn, Finish(c) PROVE IInv'
  BY <1>10, EndOne, NotesAreRecords DEF Finish
<1>11. CASE Swap
  BY <1>11, SwapKeeps
<1>12. CASE Shutdown
  BY <1>12, PhaseKeeps DEF Shutdown
<1>13. CASE DrainCompletes
  BY <1>13, PhaseKeeps DEF DrainCompletes
<1>14. CASE Deadline
  BY <1>14, DeadlineKeeps
<1>15. CASE UNCHANGED vars
  <2>1. phase \in {"running", "draining", "stopped"}
    BY DEF IInv, Types
  <2>2. QED
    BY <1>15, <2>1, PhaseKeeps DEF vars
<1>16. QED
  BY <1>1, <1>2, <1>3, <1>4, <1>5, <1>6, <1>7, <1>8, <1>9, <1>10, <1>11, <1>12, <1>13,
     <1>14, <1>15 DEF Next

LEMMA SpecIInv == Spec => []IInv
BY InitIInv, NextIInv, PTL DEF Spec

-------------------------------------------------------------------------------
(* The theorems *)

LEMMA IInvBalanced == IInv => Balanced
<1> SUFFICES ASSUME IInv PROVE Balanced
  OBVIOUS
<1>1. /\ version \in DOMAIN Snapshot /\ phase \in {"running", "draining", "stopped"}
      /\ active \in [User -> Nat] /\ tunnels \in [Outlet -> Nat]
  BY SnapshotFacts DEF IInv, Types
<1>2. ASSUME NEW c \in Conn
      PROVE  /\ conn[c].stage \in Stage
             /\ conn[c].proto \in Frontend \cup {None}
             /\ conn[c].user \in User \cup {None} /\ conn[c].host \in Host \cup {None}
             /\ conn[c].sniffed \in Host \cup {None}
             /\ conn[c].limit \in Nat /\ conn[c].attempts \in Nat
             /\ conn[c].spent \in 0 .. TotalTimeout
             /\ conn[c].egress \in Outlet \cup {None}
             /\ conn[c].record \in Record \cup {None}
             /\ conn[c].permit <=> \/ conn[c].stage \in {"sniff", "dial", "reply", "splice"}
                                   \/ conn[c].stage = "respond" /\ conn[c].attempts > 0
  <2>1. PICK r \in Task : r = conn[c]
    BY TaskFacts
  <2>2. TaskOK(r, version)
    BY <2>1, TaskFacts
  <2>3. r.permit <=> \/ r.stage \in {"sniff", "dial", "reply", "splice"}
                     \/ r.stage = "respond" /\ r.attempts > 0
    BY <2>2 DEF TaskOK
  <2>4. /\ r.stage \in Stage /\ r.proto \in Frontend \cup {None}
        /\ r.user \in User \cup {None} /\ r.host \in Host \cup {None}
        /\ r.sniffed \in Host \cup {None} /\ r.limit \in Nat /\ r.attempts \in Nat
        /\ r.spent \in 0 .. TotalTimeout /\ r.egress \in Outlet \cup {None}
        /\ r.record \in Record \cup {None}
    BY <2>1 DEF Task
  <2>5. QED
    BY <2>1, <2>3, <2>4
<1>3. Counted
  BY DEF IInv
<1>4. Cardinality(Conn) \in Nat
  BY SnapshotFacts, FS_CardinalityType
<1>5. active \in [User -> 0 .. Cardinality(Conn)]
  BY <1>1, <1>3, <1>4, HoldersFinite DEF Counted
<1>6. tunnels \in [Outlet -> 0 .. Cardinality(Conn)]
  BY <1>1, <1>3, <1>4, HoldersFinite DEF Counted
<1>7. TypeOK
  BY <1>1, <1>2, <1>5, <1>6 DEF TypeOK
<1>8. Accounted
  BY <1>3 DEF Counted, Accounted, Within, LimitsOf, Holders, Spliced
<1>9. QED
  BY <1>7, <1>8 DEF Balanced

\* ConnectionPermit and ActiveGuard: for every set of connections, users, outlets and
\* snapshots, the permits counted for a user and the tunnels counted for an outlet
\* are exactly those of tasks that exist, whichever way tasks end; no user has more
\* permits than the most generous snapshot served so far allows; and no chain uses
\* more time than CHAIN_TOTAL_TIMEOUT.
THEOREM CountersBalanced == Spec => []Balanced
BY SpecIInv, IInvBalanced, PTL

LEMMA IInvEgress == IInv => EgressByDecision
<1> SUFFICES ASSUME IInv, NEW c \in Conn, conn[c].stage \in {"reply", "splice"}
             PROVE  \E v \in conn[c].seen :
                LET a == Chosen(Snapshot[v], conn[c].user, conn[c].host, conn[c].sniffed)
                IN  \/ a = Direct /\ conn[c].egress = "direct"
                    \/ a.type = "via" /\ conn[c].egress = a.members[1]
                    \/ a.type = "chain" /\ \E m \in a.members :
                        /\ conn[c].egress = m.upstream
                        /\ conn[c].attempts = Cardinality({n \in a.members : n.priority <= m.priority})
  BY DEF EgressByDecision
<1>1. PICK r \in Task : r = conn[c]
  BY TaskFacts
<1>2. TaskOK(r, version) /\ r.stage \in {"reply", "splice"}
  BY <1>1, TaskFacts
<1>3. PICK w \in r.seen : Follows(r, w)
  BY <1>2 DEF TaskOK
<1>4. w \in DOMAIN Snapshot
  BY <1>1, <1>3, SnapshotFacts DEF Task
<1>5. PICK d : d = Decide(Compiled[w], r.user, r.host, r.sniffed)
  OBVIOUS
<1>6. /\ d # Block /\ r.attempts \in 1 .. Len(Outlets(d)) /\ r.egress = Outlets(d)[r.attempts]
  BY <1>2, <1>3, <1>5 DEF Follows
<1>7. PICK a : a = Chosen(Snapshot[w], r.user, r.host, r.sniffed)
  OBVIOUS
<1>8. Realizes(d, a)
  BY <1>4, <1>5, <1>6, <1>7, DecideChooses
<1>9. \/ a = Direct /\ r.egress = "direct"
      \/ a.type = "via" /\ r.egress = a.members[1]
      \/ a.type = "chain" /\ \E m \in a.members :
            r.egress = m.upstream /\ r.attempts = Cardinality({n \in a.members : n.priority <= m.priority})
  <2>1. CASE a \in {Block, Direct} /\ d = a
    <3>1. a = Direct /\ Outlets(d) = <<"direct">>
      BY <1>6, <2>1 DEF Outlets
    <3>2. Len(<<"direct">>) = 1 /\ <<"direct">>[1] = "direct"
      OBVIOUS
    <3>3. r.attempts = 1
      BY <1>6, <3>1, <3>2
    <3>4. r.egress = "direct"
      BY <1>6, <3>1, <3>2, <3>3
    <3>5. QED
      BY <3>1, <3>4
  <2>2. CASE a.type = "via" /\ a \in Via /\ d = a
    <3>1. d # Direct /\ Outlets(d) = a.members
      BY <2>2 DEF Outlets, Direct
    <3>2. a.members \in [1 .. 1 -> Upstream]
      BY <2>2 DEF Via
    <3>3. PICK s : s = a.members
      OBVIOUS
    <3>4. Len(s) = 1
      <4>1. s = [i \in 1 .. 1 |-> s[i]]
        BY <3>2, <3>3
      <4>2. Len([i \in 1 .. 1 |-> s[i]]) = 1
        OBVIOUS
      <4>3. QED
        BY <4>1, <4>2, Zenon
    <3>5. Outlets(d) = s
      BY <3>1, <3>3
    <3>6. r.attempts \in 1 .. Len(s) /\ r.egress = s[r.attempts]
      BY <1>6, <3>5, Zenon
    <3>7. r.attempts = 1
      BY <3>4, <3>6
    <3>8. r.egress = a.members[1]
      BY <3>3, <3>6, <3>7
    <3>9. QED
      BY <2>2, <3>8
  <2>3. CASE /\ a.type = "chain" /\ d \in CompiledChain
             /\ \A i \in 1 .. Len(d.members) : \E m \in a.members :
                  d.members[i] = m.upstream /\ Cardinality(UpTo(a.members, m)) = i
    <3>1. d # Direct
      BY <2>3 DEF CompiledChain, Direct
    <3>2. Outlets(d) = d.members
      BY <3>1 DEF Outlets
    <3>3. r.attempts \in 1 .. Len(d.members) /\ r.egress = d.members[r.attempts]
      BY <1>6, <3>2, Zenon
    <3>4. PICK m \in a.members :
              d.members[r.attempts] = m.upstream /\ Cardinality(UpTo(a.members, m)) = r.attempts
      BY <2>3, <3>3
    <3>5. QED
      BY <2>3, <3>3, <3>4 DEF UpTo
  <2>4. QED
    BY <1>8, <2>1, <2>2, <2>3 DEF Realizes
<1>10. QED
  BY <1>1, <1>3, <1>7, <1>9

\* decide_with_sniff and connect: for every list of documents, whatever their routes
\* and chains, an established tunnel leaves through the outlet that one document
\* served during the connection chooses by its first matching route, and the member
\* of a chain only after those before it.
THEOREM EgressIsDecided == Spec => []EgressByDecision
BY SpecIInv, IInvEgress, PTL

=============================================================================
