------------------------------ MODULE Hop_proofs ------------------------------
(***************************************************************************)
(* Proofs about hops: the UDP relay of a reverse hop, for every number of  *)
(* associations below the size of the session id space, every table limit, *)
(* queue capacity and filter size, and every resolver; and the process of  *)
(* a stand-alone hop with its access log, for every command line,          *)
(* environment, set of connections and queue length.                       *)
(***************************************************************************)
EXTENDS ReverseUdp, HopNode, FiniteSetTheorems, SequenceTheorems, TLAPS

-------------------------------------------------------------------------------
(* The UDP relay of a reverse hop *)

EdgeRec == [stage : {"unborn", "asked", "open", "gone"}, sid : Sid \cup {0}]
HopRec  == [task : {"none", "request", "acking", "holding", "done"},
            reply : {"none", "ok", "err"}]

Born(a) == edge[a].stage # "unborn"

\* The addresses a client sent to.
Targets(a) == {Resolve[h] : h \in asked[a]}

\* As long as the counter has not come around, call a gets session id a, and
\* calls are made in order.
IdsUnique ==
    /\ \A a \in Assoc : Born(a) => edge[a].sid = a /\ \A b \in 1 .. a - 1 : Born(b)
    /\ \A a \in Assoc : ~Born(a) /\ (\A b \in 1 .. a - 1 : Born(b)) => NextId(seq) = a
    /\ \A a \in Assoc : hop[a].task # "none" => Born(a)

\* A session id is routed to the call it was given to, while that is open.
RoutedToOwner ==
    \A i \in Sid : routes[i] # 0 => routes[i] = i /\ edge[i].stage = "open"

\* Whatever is under way to the hop, remembered by it or under way back is about
\* a destination its client named and a socket of its own.
CarriedTrue ==
    /\ \A d \in up : d.sid \in Assoc /\ Born(d.sid) /\ d.host \in asked[d.sid]
    /\ uplink # Idle => uplink.host \in asked[uplink.a]
    /\ \A a \in Assoc : \A n \in DOMAIN contacted[a] : contacted[a][n] \in Targets(a)
    /\ \A d \in down : d.ret.from = d.sid /\ d.ret.addr \in Targets(d.ret.from)

\* The hypothesis of every result here: no session id is handed out twice.
NoWrap == MaxAssoc < IdSpace

Occupied == {i \in Sid : table[i] # 0}

AssociationsInv == NoWrap /\ AssociationsSound /\ IdsUnique /\ RoutedToOwner /\ CarriedTrue
-------------------------------------------------------------------------------
(* What a step leaves alone *)

LEMMA AssocIsSid == NoWrap => Assoc \subseteq Sid
  BY UdpAssumption DEF NoWrap, Assoc, Sid

LEMMA CrossTalkKept ==
    ASSUME NoCrossTalk, UNCHANGED queue, \A a \in Assoc : asked[a] \subseteq asked'[a]
    PROVE  NoCrossTalk'
  BY DEF NoCrossTalk

LEMMA EntriesKept ==
    ASSUME EntryOwned, UNCHANGED table,
           \A a \in Assoc : edge'[a].sid = edge[a].sid \/ hop[a].task = "none",
           \A a \in Assoc : hop[a].task \in {"acking", "holding"} =>
                              hop'[a].task \in {"acking", "holding"},
           TypeOK
    PROVE  EntryOwned'
  <1>1. \A i \in Sid : table[i] \in Assoc \cup {0}
    BY DEF TypeOK
  <1>2. Occupied' = Occupied
    BY DEF Occupied
  <1>3. QED BY <1>1, <1>2 DEF EntryOwned, Occupied

LEMMA IdsKept ==
    ASSUME IdsUnique, UNCHANGED seq,
           \A a \in Assoc : edge'[a].sid = edge[a].sid /\ (Born(a)' <=> Born(a)),
           \A a \in Assoc : hop'[a].task # "none" => hop[a].task # "none"
    PROVE  IdsUnique'
  <1>1. \A a \in Assoc : \A b \in 1 .. a - 1 : b \in Assoc
    BY UdpAssumption DEF Assoc
  <1>2. QED BY <1>1 DEF IdsUnique

LEMMA CarriedKept ==
    ASSUME CarriedTrue, UNCHANGED <<uplink, contacted>>,
           up' \subseteq up, down' \subseteq down, TypeOK,
           \A a \in Assoc : asked[a] \subseteq asked'[a] /\ (Born(a) => Born(a)')
    PROVE  CarriedTrue'
  <1>1. \A a \in Assoc : Targets(a) \subseteq Targets(a)'
    BY DEF Targets
  <1>2. /\ \A d \in down : d.ret.from \in Assoc
        /\ uplink # Idle => uplink.a \in Assoc
    BY DEF TypeOK, DownDg, Return
  <1>3. QED BY <1>1, <1>2 DEF CarriedTrue

-------------------------------------------------------------------------------
(* The steps *)

LEMMA InitInv == NoWrap /\ Init => AssociationsInv
  <1> SUFFICES ASSUME NoWrap, Init PROVE AssociationsInv
    OBVIOUS
  <1>1. TypeOK
    <2>1. /\ queue \in [Assoc -> Seq(Return)] /\ \A a \in Assoc : Len(queue[a]) <= QueueCap
          /\ contacted \in [Assoc -> Seq(Addr)]
          /\ \A a \in Assoc : Len(contacted[a]) <= MaxContacted
      BY UdpAssumption DEF Init
    <2>2. /\ edge \in [Assoc -> EdgeRec] /\ \A a \in Assoc : ~Born(a)
          /\ hop \in [Assoc -> HopRec]
      BY DEF Init, EdgeRec, HopRec, Born
    <2>3. /\ seq \in 0 .. IdSpace - 1 /\ pkts \in 0 .. MaxPackets
          /\ closed = FALSE /\ up = {} /\ down = {} /\ uplink = Idle
      <3>1. 0 \in 0 .. IdSpace - 1 /\ 0 \in 0 .. MaxPackets
        BY UdpAssumption
      <3>2. QED BY <3>1 DEF Init
    <2>4. /\ routes \in [Sid -> Assoc \cup {0}] /\ table \in [Sid -> Assoc \cup {0}]
          /\ cache \in [Assoc -> SUBSET Host] /\ asked \in [Assoc -> SUBSET Host]
      BY DEF Init
    <2>5. QED BY <2>1, <2>2, <2>3, <2>4 DEF TypeOK, EdgeRec, HopRec, Born
  <1>2. NoCrossTalk
    BY DEF Init, NoCrossTalk
  <1>3. EntryOwned
    <2>1. Occupied = {}
      BY DEF Init, Occupied
    <2>2. Cardinality(Occupied) = 0
      BY <2>1, FS_EmptySet
    <2>3. Cardinality(Occupied) <= MaxSessions
      BY <2>2, UdpAssumption
    <2>4. QED BY <2>3 DEF Init, EntryOwned, Occupied
  <1>4. IdsUnique
    BY UdpAssumption DEF Init, IdsUnique, Born, NextId, Assoc
  <1>5. RoutedToOwner /\ CarriedTrue
    BY DEF Init, RoutedToOwner, CarriedTrue
  <1>6. QED BY <1>1, <1>2, <1>3, <1>4, <1>5 DEF AssociationsInv, AssociationsSound

\* A fresh call takes the next id, which no earlier call has.
LEMMA OpenUdpInv ==
    ASSUME AssociationsInv, NEW a \in Assoc, OpenUdp(a) PROVE AssociationsInv'
  <1>0. TypeOK /\ IdsUnique /\ a \in Sid /\ a \in Int
    BY AssocIsSid DEF AssociationsInv, AssociationsSound, Assoc
  <1>1. ~Born(a) /\ \A b \in 1 .. a - 1 : Born(b)
    BY DEF OpenUdp, Born
  <1>2. NextId(seq) = a
    BY <1>0, <1>1 DEF IdsUnique
  <1>3. /\ edge' = [edge EXCEPT ![a] = [stage |-> "asked", sid |-> a]]
        /\ seq' = (a + 1) % IdSpace
        /\ hop' = [hop EXCEPT ![a].task = "request"]
        /\ UNCHANGED <<closed, routes, queue, table, contacted, cache, uplink, up, down, history>>
    BY <1>2 DEF OpenUdp
  <1>4. /\ edge'[a].stage = "asked" /\ edge'[a].sid = a
        /\ \A b \in Assoc : b # a => edge'[b] = edge[b]
        /\ hop'[a].task = "request"
        /\ \A b \in Assoc : b # a => hop'[b] = hop[b]
    BY <1>0, <1>3 DEF TypeOK
  <1>5. hop[a].task = "none"
    BY <1>0, <1>1 DEF IdsUnique
  <1>6. TypeOK'
    <2>1. seq' \in 0 .. IdSpace - 1
      BY <1>0, <1>3, UdpAssumption
    <2>2. edge' \in [Assoc -> EdgeRec] /\ hop' \in [Assoc -> HopRec]
      BY <1>0, <1>3 DEF TypeOK, EdgeRec, HopRec
    <2>3. \A b \in Assoc : edge'[b].stage # "unborn" => edge'[b].sid # 0
      BY <1>0, <1>4 DEF TypeOK, Sid
    <2>4. QED BY <1>0, <1>3, <2>1, <2>2, <2>3 DEF TypeOK, history, EdgeRec, HopRec
  <1>7. NoCrossTalk'
    BY <1>3, CrossTalkKept DEF AssociationsInv, AssociationsSound, history
  <1>8. EntryOwned'
    BY <1>0, <1>3, <1>4, <1>5, EntriesKept DEF AssociationsInv, AssociationsSound
  <1>9. \A b \in Assoc : Born(b)' <=> b = a \/ Born(b)
    BY <1>4 DEF Born
  <1>10. IdsUnique'
    <2>1. ASSUME NEW b \in Assoc, Born(b)'
          PROVE  edge'[b].sid = b /\ \A d \in 1 .. b - 1 : Born(d)'
      <3>1. \A d \in 1 .. b - 1 : d \in Assoc
        BY UdpAssumption DEF Assoc
      <3>2. QED BY <1>0, <1>1, <1>4, <1>9, <2>1, <3>1 DEF IdsUnique
    <2>2. ASSUME NEW b \in Assoc, ~Born(b)', \A d \in 1 .. b - 1 : Born(d)'
          PROVE  NextId(seq')  = b
      <3>1. b # a /\ ~Born(b) /\ b \in 1 .. MaxAssoc /\ a \in 1 .. MaxAssoc
        BY <1>9, <2>2 DEF Assoc
      <3>2. ~ (b < a)
        BY <1>1, <3>1
      <3>3. b = a + 1
        <4>1. ASSUME b > a + 1 PROVE FALSE
          <5>1. a + 1 \in Assoc /\ a + 1 \in 1 .. b - 1
            BY <3>1, <4>1, UdpAssumption DEF Assoc
          <5>2. Born(a + 1)
            BY <1>9, <2>2, <5>1, <3>1
          <5>3. a \in 1 .. (a + 1) - 1
            BY <3>1
          <5>4. QED BY <1>0, <1>1, <5>1, <5>2, <5>3 DEF IdsUnique
        <4>2. QED BY <3>1, <3>2, <4>1
      <3>4. (a + 1) % IdSpace = a + 1
        BY <3>1, <3>3, UdpAssumption DEF AssociationsInv, NoWrap
      <3>5. QED BY <1>3, <3>1, <3>3, <3>4 DEF NextId
    <2>3. \A b \in Assoc : hop'[b].task # "none" => Born(b)'
      BY <1>0, <1>4, <1>9 DEF IdsUnique
    <2>4. QED BY <2>1, <2>2, <2>3 DEF IdsUnique, NextId
  <1>11. RoutedToOwner'
    BY <1>0, <1>1, <1>3, <1>4 DEF AssociationsInv, RoutedToOwner, Born, TypeOK
  <1>12. CarriedTrue'
    BY <1>0, <1>3, <1>9, CarriedKept DEF AssociationsInv, history
  <1>13. QED BY <1>6, <1>7, <1>8, <1>10, <1>11, <1>12 DEF AssociationsInv, AssociationsSound, NoWrap
\* A call moves on at the edge: what depends on its id only stays.
LEMMA EdgeMoves ==
    ASSUME AssociationsInv, NEW a \in Assoc, NEW st \in {"open", "gone"}, Born(a),
           edge' = [edge EXCEPT ![a].stage = st],
           UNCHANGED <<closed, seq, hopVars, up, down, history>>
    PROVE  /\ EntryOwned' /\ IdsUnique' /\ CarriedTrue'
           /\ edge' \in [Assoc -> EdgeRec]
           /\ \A b \in Assoc : edge'[b].stage # "unborn" => edge'[b].sid # 0
           /\ edge'[a].stage = st /\ \A b \in Assoc : b # a => edge'[b] = edge[b]
  <1>1. TypeOK
    BY DEF AssociationsInv, AssociationsSound
  <1>2. /\ edge'[a].stage = st /\ edge'[a].sid = edge[a].sid
        /\ \A b \in Assoc : b # a => edge'[b] = edge[b]
        /\ edge' \in [Assoc -> EdgeRec]
    <2>1. edge \in [Assoc -> EdgeRec] /\ st \in {"unborn", "asked", "open", "gone"}
      BY <1>1 DEF TypeOK, EdgeRec
    <2>2. /\ edge'[a].stage = st /\ edge'[a].sid = edge[a].sid
          /\ \A b \in Assoc : b # a => edge'[b] = edge[b]
      BY <2>1 DEF EdgeRec
    <2>3. edge' \in [Assoc -> EdgeRec]
      BY <2>1 DEF EdgeRec
    <2>4. QED BY <2>2, <2>3
  <1>3. \A b \in Assoc : edge'[b].sid = edge[b].sid /\ (Born(b)' <=> Born(b))
    BY <1>2 DEF Born
  <1>4. \A b \in Assoc : edge'[b].stage # "unborn" => edge'[b].sid # 0
    BY <1>1, <1>2, <1>3 DEF TypeOK, Born
  <1>5. EntryOwned'
    BY <1>1, <1>3, EntriesKept DEF AssociationsInv, AssociationsSound, hopVars
  <1>6. IdsUnique'
    BY <1>3, IdsKept DEF AssociationsInv, hopVars
  <1>7. CarriedTrue'
    BY <1>1, <1>3, CarriedKept DEF AssociationsInv, hopVars, history
  <1>8. QED BY <1>2, <1>4, <1>5, <1>6, <1>7

LEMMA OpenedInv ==
    ASSUME AssociationsInv, NEW a \in Assoc, Opened(a) PROVE AssociationsInv'
  <1>0. TypeOK /\ a \in Sid /\ Born(a) /\ edge[a].sid = a
    BY AssocIsSid DEF AssociationsInv, AssociationsSound, Opened, Born, IdsUnique
  <1>1. /\ edge' = [edge EXCEPT ![a].stage = "open"]
        /\ routes' = [routes EXCEPT ![a] = a]
        /\ UNCHANGED <<closed, seq, queue, hopVars, up, down, history>>
    BY <1>0 DEF Opened
  <1>2. /\ EntryOwned' /\ IdsUnique' /\ CarriedTrue'
        /\ edge' \in [Assoc -> EdgeRec]
        /\ \A b \in Assoc : edge'[b].stage # "unborn" => edge'[b].sid # 0
        /\ edge'[a].stage = "open" /\ \A b \in Assoc : b # a => edge'[b] = edge[b]
    BY <1>0, <1>1, EdgeMoves
  <1>3. TypeOK'
    <2>1. routes' \in [Sid -> Assoc \cup {0}]
      BY <1>0, <1>1 DEF TypeOK
    <2>2. QED BY <1>0, <1>1, <1>2, <2>1 DEF TypeOK, hopVars, history, EdgeRec
  <1>4. NoCrossTalk'
    BY <1>1, CrossTalkKept DEF AssociationsInv, AssociationsSound, history
  <1>5. RoutedToOwner'
    BY <1>0, <1>1, <1>2 DEF AssociationsInv, RoutedToOwner, TypeOK
  <1>6. QED BY <1>2, <1>3, <1>4, <1>5 DEF AssociationsInv, AssociationsSound, NoWrap

LEMMA NotOpenedInv ==
    ASSUME AssociationsInv, NEW a \in Assoc, NotOpened(a) PROVE AssociationsInv'
  <1>0. TypeOK /\ edge[a].stage = "asked" /\ Born(a)
    BY DEF AssociationsInv, AssociationsSound, NotOpened, Born
  <1>1. /\ edge' = [edge EXCEPT ![a].stage = "gone"]
        /\ UNCHANGED <<closed, seq, routes, queue, hopVars, up, down, history>>
    BY DEF NotOpened
  <1>2. /\ EntryOwned' /\ IdsUnique' /\ CarriedTrue'
        /\ edge' \in [Assoc -> EdgeRec]
        /\ \A b \in Assoc : edge'[b].stage # "unborn" => edge'[b].sid # 0
        /\ edge'[a].stage = "gone" /\ \A b \in Assoc : b # a => edge'[b] = edge[b]
    BY <1>0, <1>1, EdgeMoves
  <1>3. TypeOK'
    BY <1>0, <1>1, <1>2 DEF TypeOK, hopVars, history, EdgeRec
  <1>4. NoCrossTalk'
    BY <1>1, CrossTalkKept DEF AssociationsInv, AssociationsSound, history
  <1>5. RoutedToOwner'
    BY <1>0, <1>1, <1>2 DEF AssociationsInv, RoutedToOwner, TypeOK
  <1>6. QED BY <1>2, <1>3, <1>4, <1>5 DEF AssociationsInv, AssociationsSound, NoWrap

LEMMA DropRelayInv ==
    ASSUME AssociationsInv, NEW a \in Assoc, DropRelay(a) PROVE AssociationsInv'
  <1>0. TypeOK /\ a \in Sid /\ Born(a) /\ edge[a].sid = a
    BY AssocIsSid DEF AssociationsInv, AssociationsSound, DropRelay, Born, IdsUnique
  <1>1. /\ edge' = [edge EXCEPT ![a].stage = "gone"]
        /\ routes' = [routes EXCEPT ![a] = 0]
        /\ queue' = [queue EXCEPT ![a] = <<>>]
        /\ UNCHANGED <<closed, seq, hopVars, up, down, history>>
    BY <1>0 DEF DropRelay
  <1>2. /\ EntryOwned' /\ IdsUnique' /\ CarriedTrue'
        /\ edge' \in [Assoc -> EdgeRec]
        /\ \A b \in Assoc : edge'[b].stage # "unborn" => edge'[b].sid # 0
        /\ edge'[a].stage = "gone" /\ \A b \in Assoc : b # a => edge'[b] = edge[b]
    BY <1>0, <1>1, EdgeMoves
  <1>3. /\ queue'[a] = <<>> /\ \A b \in Assoc : b # a => queue'[b] = queue[b]
        /\ queue' \in [Assoc -> Seq(Return)]
        /\ \A b \in Assoc : Len(queue'[b]) <= QueueCap
    <2>1. queue'[a] = <<>> /\ \A b \in Assoc : b # a => queue'[b] = queue[b]
      BY <1>0, <1>1 DEF TypeOK
    <2>2. queue' \in [Assoc -> Seq(Return)]
      BY <1>0, <1>1 DEF TypeOK
    <2>3. \A b \in Assoc : Len(queue'[b]) <= QueueCap
      <3>1. Len(<<>>) <= QueueCap
        BY UdpAssumption
      <3>2. \A b \in Assoc : Len(queue[b]) <= QueueCap
        BY <1>0 DEF TypeOK
      <3>3. QED BY <2>1, <3>1, <3>2
    <2>4. QED BY <2>1, <2>2, <2>3
  <1>4. TypeOK'
    <2>1. routes' \in [Sid -> Assoc \cup {0}]
      BY <1>0, <1>1 DEF TypeOK
    <2>2. QED BY <1>0, <1>1, <1>2, <1>3, <2>1 DEF TypeOK, hopVars, history, EdgeRec
  <1>5. NoCrossTalk'
    BY <1>1, <1>3 DEF AssociationsInv, AssociationsSound, NoCrossTalk, history
  <1>6. RoutedToOwner'
    BY <1>0, <1>1, <1>2 DEF AssociationsInv, RoutedToOwner, TypeOK
  <1>7. QED BY <1>2, <1>4, <1>5, <1>6 DEF AssociationsInv, AssociationsSound, NoWrap

LEMMA SendToInv ==
    ASSUME AssociationsInv, NEW a \in Assoc, NEW h \in Host, SendTo(a, h) PROVE AssociationsInv'
  <1>0. TypeOK /\ a \in Sid /\ Born(a) /\ edge[a].sid = a
    BY AssocIsSid DEF AssociationsInv, AssociationsSound, SendTo, Born, IdsUnique
  <1>1. /\ up' = up \cup {[sid |-> a, host |-> h]}
        /\ asked' = [asked EXCEPT ![a] = asked[a] \cup {h}]
        /\ UNCHANGED <<closed, edgeVars, hopVars, down, pkts>>
    BY <1>0 DEF SendTo, TypeOK
  <1>2. h \in asked'[a] /\ \A b \in Assoc : asked[b] \subseteq asked'[b]
    BY <1>0, <1>1 DEF TypeOK
  <1>3. TypeOK'
    <2>1. asked' \in [Assoc -> SUBSET Host]
      BY <1>0, <1>1 DEF TypeOK
    <2>2. up' \subseteq UpDg
      BY <1>0, <1>1 DEF TypeOK, UpDg
    <2>3. QED BY <1>0, <1>1, <2>1, <2>2 DEF TypeOK, edgeVars, hopVars
  <1>4. NoCrossTalk'
    BY <1>1, <1>2, CrossTalkKept DEF AssociationsInv, AssociationsSound, edgeVars
  <1>5. EntryOwned'
    BY <1>0, <1>1, EntriesKept DEF AssociationsInv, AssociationsSound, edgeVars, hopVars
  <1>6. IdsUnique'
    BY <1>1, IdsKept DEF AssociationsInv, edgeVars, hopVars, Born
  <1>7. RoutedToOwner'
    BY <1>1 DEF AssociationsInv, RoutedToOwner, edgeVars
  <1>8. CarriedTrue'
    <2>1. \A b \in Assoc : Targets(b) \subseteq Targets(b)'
      BY <1>2 DEF Targets
    <2>2. \A d \in up' : d.sid \in Assoc /\ Born(d.sid)' /\ d.host \in asked'[d.sid]
      BY <1>0, <1>1, <1>2 DEF AssociationsInv, CarriedTrue, Born, edgeVars
    <2>3. /\ \A d \in down : d.ret.from \in Assoc
          /\ uplink # Idle => uplink.a \in Assoc
      BY <1>0 DEF TypeOK, DownDg, Return
    <2>4. QED BY <1>1, <1>2, <2>1, <2>2, <2>3 DEF AssociationsInv, CarriedTrue, hopVars
  <1>9. QED BY <1>3, <1>4, <1>5, <1>6, <1>7, <1>8 DEF AssociationsInv, AssociationsSound, NoWrap

\* A return datagram is queued for the owner of its session id, and that is the
\* association whose socket it came in on.
LEMMA RouteInv ==
    ASSUME AssociationsInv, NEW d \in down, Route(d) PROVE AssociationsInv'
  <1>0. TypeOK /\ d \in DownDg /\ d.sid \in Sid /\ d.ret \in Return
    BY DEF AssociationsInv, AssociationsSound, TypeOK, DownDg
  <1>1. /\ down' = down \ {d}
        /\ UNCHANGED <<closed, seq, edge, routes, hopVars, up, pkts, asked>>
    BY DEF Route
  <1>2. /\ EntryOwned' /\ IdsUnique' /\ RoutedToOwner' /\ CarriedTrue'
    <2>1. EntryOwned'
      BY <1>0, <1>1, EntriesKept DEF AssociationsInv, AssociationsSound, hopVars
    <2>2. IdsUnique'
      BY <1>1, IdsKept DEF AssociationsInv, hopVars, Born
    <2>3. RoutedToOwner'
      BY <1>1 DEF AssociationsInv, RoutedToOwner
    <2>4. CarriedTrue'
      BY <1>0, <1>1, CarriedKept DEF AssociationsInv, hopVars, Born
    <2>5. QED BY <2>1, <2>2, <2>3, <2>4
  <1>3. /\ queue' \in [Assoc -> Seq(Return)]
        /\ \A b \in Assoc : Len(queue'[b]) <= QueueCap
        /\ NoCrossTalk'
    <2>1. CASE UNCHANGED queue
      BY <1>0, <1>1, <2>1, CrossTalkKept DEF TypeOK, AssociationsInv, AssociationsSound
    <2>2. CASE routes[d.sid] # 0 /\ ~ UNCHANGED queue
      <3>1. PICK a \in Assoc : a = routes[d.sid]
        BY <1>0, <2>2 DEF TypeOK
      <3>2. a = d.sid /\ d.ret.from = a /\ d.ret.addr \in Targets(a)
        BY <1>0, <2>2, <3>1 DEF AssociationsInv, RoutedToOwner, CarriedTrue
      <3>3. queue' = [queue EXCEPT ![a] = Append(queue[a], d.ret)] /\ Len(queue[a]) < QueueCap
        BY <1>0, <2>2, <3>1 DEF Route, Enqueue, TypeOK
      <3>4. queue[a] \in Seq(Return) /\ Append(queue[a], d.ret) \in Seq(Return)
        BY <1>0 DEF TypeOK
      <3>5. /\ queue'[a] = Append(queue[a], d.ret)
            /\ \A b \in Assoc : b # a => queue'[b] = queue[b]
            /\ queue' \in [Assoc -> Seq(Return)]
        BY <1>0, <3>3, <3>4 DEF TypeOK
      <3>6. \A b \in Assoc : Len(queue'[b]) <= QueueCap
        BY <1>0, <3>3, <3>4, <3>5, UdpAssumption DEF TypeOK
      <3>7. \A n \in DOMAIN queue'[a] :
               \/ n \in DOMAIN queue[a] /\ queue'[a][n] = queue[a][n]
               \/ queue'[a][n] = d.ret
        BY <3>4, <3>5
      <3>8. NoCrossTalk'
        <4>1. \A n \in DOMAIN queue'[a] :
                 queue'[a][n].from = a /\ queue'[a][n].addr \in Targets(a)
          BY <3>2, <3>7 DEF AssociationsInv, AssociationsSound, NoCrossTalk, Targets
        <4>2. \A b \in Assoc : b # a => \A n \in DOMAIN queue'[b] :
                 queue'[b][n].from = b /\ queue'[b][n].addr \in Targets(b)
          BY <3>5 DEF AssociationsInv, AssociationsSound, NoCrossTalk, Targets
        <4>3. QED BY <1>1, <4>1, <4>2 DEF NoCrossTalk, Targets
      <3>9. QED BY <3>5, <3>6, <3>8
    <2>3. QED BY <2>1, <2>2 DEF Route
  <1>4. TypeOK'
    BY <1>0, <1>1, <1>3 DEF TypeOK, hopVars
  <1>5. QED BY <1>2, <1>3, <1>4 DEF AssociationsInv, AssociationsSound, NoWrap

LEMMA RecvFromInv ==
    ASSUME AssociationsInv, NEW a \in Assoc, RecvFrom(a) PROVE AssociationsInv'
  <1>0. TypeOK /\ queue[a] \in Seq(Return) /\ queue[a] # <<>>
    BY DEF AssociationsInv, AssociationsSound, TypeOK, RecvFrom
  <1>1. /\ queue' = [queue EXCEPT ![a] = Tail(queue[a])]
        /\ UNCHANGED <<closed, seq, edge, routes, hopVars, up, down, history>>
    BY <1>0 DEF RecvFrom, TypeOK
  <1>2. /\ Tail(queue[a]) \in Seq(Return) /\ Len(Tail(queue[a])) = Len(queue[a]) - 1
        /\ \A n \in DOMAIN Tail(queue[a]) :
              n + 1 \in DOMAIN queue[a] /\ Tail(queue[a])[n] = queue[a][n + 1]
    BY <1>0
  <1>3. /\ queue'[a] = Tail(queue[a])
        /\ \A b \in Assoc : b # a => queue'[b] = queue[b]
        /\ queue' \in [Assoc -> Seq(Return)]
    BY <1>0, <1>1, <1>2 DEF TypeOK
  <1>4. \A b \in Assoc : Len(queue'[b]) <= QueueCap
    <2>1. Len(queue[a]) <= QueueCap /\ Len(queue[a]) \in Nat /\ QueueCap \in Nat
      BY <1>0, UdpAssumption DEF TypeOK
    <2>2. Len(queue'[a]) <= QueueCap
      BY <1>2, <1>3, <2>1
    <2>3. QED BY <1>0, <1>3, <2>2 DEF TypeOK
  <1>5. TypeOK'
    BY <1>0, <1>1, <1>3, <1>4 DEF TypeOK, hopVars, history
  <1>6. NoCrossTalk'
    BY <1>1, <1>2, <1>3 DEF AssociationsInv, AssociationsSound, NoCrossTalk, history
  <1>7. EntryOwned'
    BY <1>0, <1>1, EntriesKept DEF AssociationsInv, AssociationsSound, hopVars
  <1>8. IdsUnique'
    BY <1>1, IdsKept DEF AssociationsInv, hopVars, Born
  <1>9. RoutedToOwner'
    BY <1>1 DEF AssociationsInv, RoutedToOwner
  <1>10. CarriedTrue'
    BY <1>0, <1>1, CarriedKept DEF AssociationsInv, hopVars, history, Born
  <1>11. QED BY <1>5, <1>6, <1>7, <1>8, <1>9, <1>10 DEF AssociationsInv, AssociationsSound, NoWrap
\* The hop's task moves on and its table may change: the rest stays.
LEMMA HopMoves ==
    ASSUME AssociationsInv, hop' \in [Assoc -> HopRec],
           \A b \in Assoc : hop'[b].task # "none" => hop[b].task # "none",
           table' \in [Sid -> Assoc \cup {0}],
           UNCHANGED <<closed, edgeVars, contacted, cache, uplink, up, down, history>>
    PROVE  TypeOK' /\ NoCrossTalk' /\ IdsUnique' /\ RoutedToOwner' /\ CarriedTrue'
  <1>0. TypeOK
    BY DEF AssociationsInv, AssociationsSound
  <1>1. TypeOK'
    BY <1>0 DEF TypeOK, edgeVars, history, HopRec
  <1>2. NoCrossTalk'
    BY CrossTalkKept DEF AssociationsInv, AssociationsSound, edgeVars, history
  <1>3. IdsUnique'
    BY IdsKept DEF AssociationsInv, edgeVars, Born
  <1>4. RoutedToOwner'
    BY DEF AssociationsInv, RoutedToOwner, edgeVars
  <1>5. CarriedTrue'
    BY <1>0, CarriedKept DEF AssociationsInv, edgeVars, history, Born
  <1>6. QED BY <1>1, <1>2, <1>3, <1>4, <1>5

LEMMA OccupiedFinite ==
    IsFiniteSet(Occupied) /\ Cardinality(Occupied) \in Nat
  <1>1. IsFiniteSet(Sid)
    BY UdpAssumption, FS_Interval DEF Sid
  <1>2. IsFiniteSet(Occupied)
    BY <1>1, FS_Subset DEF Occupied
  <1>3. QED BY <1>2, FS_CardinalityType

\* A session is entered under its own id, and only while there is room.
LEMMA AssociateInv ==
    ASSUME AssociationsInv, NEW a \in Assoc, Associate(a) PROVE AssociationsInv'
  <1>0. TypeOK /\ EntryOwned /\ hop[a].task = "request"
    BY DEF AssociationsInv, AssociationsSound, Associate
  <1>1. a \in Sid /\ edge[a].sid = a
    BY <1>0, AssocIsSid DEF AssociationsInv, IdsUnique
  <1>2. UNCHANGED <<closed, edgeVars, contacted, cache, uplink, up, down, history>>
    BY DEF Associate
  <1>3. CASE /\ hop' = [hop EXCEPT ![a] = [task |-> "done", reply |-> "err"]]
             /\ UNCHANGED table
    <2>1. /\ hop'[a].task = "done" /\ \A b \in Assoc : b # a => hop'[b] = hop[b]
          /\ hop' \in [Assoc -> HopRec]
      BY <1>0, <1>3 DEF TypeOK, HopRec
    <2>2. TypeOK' /\ NoCrossTalk' /\ IdsUnique' /\ RoutedToOwner' /\ CarriedTrue'
      BY <1>0, <1>2, <1>3, <2>1, HopMoves DEF TypeOK
    <2>3. EntryOwned'
      BY <1>0, <1>2, <1>3, <2>1, EntriesKept DEF edgeVars
    <2>4. QED BY <2>2, <2>3 DEF AssociationsInv, AssociationsSound, NoWrap
  <1>4. CASE /\ HasRoom(a) /\ table' = [table EXCEPT ![a] = a]
             /\ hop' = [hop EXCEPT ![a].task = "acking"]
    <2>1. /\ hop'[a].task = "acking" /\ \A b \in Assoc : b # a => hop'[b] = hop[b]
          /\ hop' \in [Assoc -> HopRec]
      BY <1>0, <1>4 DEF TypeOK, HopRec
    <2>2. /\ table'[a] = a /\ \A i \in Sid : i # a => table'[i] = table[i]
          /\ table' \in [Sid -> Assoc \cup {0}]
      BY <1>0, <1>1, <1>4 DEF TypeOK
    <2>3. TypeOK' /\ NoCrossTalk' /\ IdsUnique' /\ RoutedToOwner' /\ CarriedTrue'
      BY <1>0, <1>2, <2>1, <2>2, HopMoves
    <2>4. \A i \in Sid : table'[i] # 0 =>
             hop'[table'[i]].task \in {"acking", "holding"} /\ edge'[table'[i]].sid = i
      <3>1. ASSUME NEW i \in Sid, i # a, table[i] # 0
            PROVE  /\ table[i] \in Assoc /\ table[i] # a
                   /\ hop[table[i]].task \in {"acking", "holding"} /\ edge[table[i]].sid = i
        BY <1>0, <3>1 DEF TypeOK, EntryOwned
      <3>2. edge' = edge
        BY <1>2 DEF edgeVars
      <3>3. QED BY <1>1, <2>1, <2>2, <3>1, <3>2
    <2>5. Cardinality(Occupied') <= MaxSessions
      <3>1. Occupied' = Occupied \cup {a}
        <4>1. a # 0
          BY UdpAssumption DEF Assoc
        <4>2. \A i : i \in Occupied' <=> i \in Occupied \cup {a}
          BY <1>1, <2>2, <4>1 DEF Occupied
        <4>3. QED BY <4>2
      <3>2. Cardinality(Occupied) <= MaxSessions
        BY <1>0 DEF EntryOwned, Occupied
      <3>3. CASE a \in Occupied
        <4>1. Occupied' = Occupied
          BY <3>1, <3>3
        <4>2. QED BY <3>2, <4>1
      <3>4. CASE a \notin Occupied
        <4>1. table[a] = 0
          BY <1>1, <3>4 DEF Occupied
        <4>2. Cardinality(Occupied) < MaxSessions
          BY <1>4, <4>1 DEF HasRoom, Occupied
        <4>3. Cardinality(Occupied') = Cardinality(Occupied) + 1
          BY <3>1, <3>4, OccupiedFinite, FS_AddElement
        <4>4. QED BY <4>2, <4>3, OccupiedFinite, UdpAssumption
      <3>5. QED BY <3>3, <3>4
    <2>6. EntryOwned'
      BY <2>4, <2>5 DEF EntryOwned, Occupied
    <2>7. QED BY <2>3, <2>6 DEF AssociationsInv, AssociationsSound, NoWrap
  <1>5. QED BY <1>1, <1>3, <1>4 DEF Associate

LEMMA AssociateAckInv ==
    ASSUME AssociationsInv, NEW a \in Assoc, AssociateAck(a) PROVE AssociationsInv'
  <1>0. TypeOK /\ EntryOwned /\ hop[a].task = "acking"
    BY DEF AssociationsInv, AssociationsSound, AssociateAck
  <1>1. /\ hop' = [hop EXCEPT ![a] = [task |-> "holding", reply |-> "ok"]]
        /\ UNCHANGED table
        /\ UNCHANGED <<closed, edgeVars, contacted, cache, uplink, up, down, history>>
    BY DEF AssociateAck
  <1>2. /\ hop'[a].task = "holding" /\ \A b \in Assoc : b # a => hop'[b] = hop[b]
        /\ hop' \in [Assoc -> HopRec]
    BY <1>0, <1>1 DEF TypeOK, HopRec
  <1>3. TypeOK' /\ NoCrossTalk' /\ IdsUnique' /\ RoutedToOwner' /\ CarriedTrue'
    BY <1>0, <1>1, <1>2, HopMoves DEF TypeOK
  <1>4. EntryOwned'
    BY <1>0, <1>1, <1>2, EntriesKept DEF edgeVars
  <1>5. QED BY <1>3, <1>4 DEF AssociationsInv, AssociationsSound, NoWrap

\* Entries that leave the table leave the others alone.
LEMMA FewerEntries ==
    ASSUME EntryOwned, TypeOK, UNCHANGED edge, NEW j \in Sid, table' = [table EXCEPT ![j] = 0],
           \A a \in Assoc : a # table[j] => hop'[a] = hop[a]
    PROVE  EntryOwned' /\ table' \in [Sid -> Assoc \cup {0}]
  <1>1. /\ table'[j] = 0 /\ \A i \in Sid : i # j => table'[i] = table[i]
        /\ table' \in [Sid -> Assoc \cup {0}]
    BY DEF TypeOK
  <1>2. \A i \in Sid : table'[i] # 0 =>
           hop'[table'[i]].task \in {"acking", "holding"} /\ edge'[table'[i]].sid = i
    <2>1. ASSUME NEW i \in Sid, i # j, table[i] # 0
          PROVE  /\ table[i] \in Assoc /\ table[i] # table[j]
                 /\ hop[table[i]].task \in {"acking", "holding"} /\ edge[table[i]].sid = i
      BY <2>1 DEF TypeOK, EntryOwned
    <2>2. QED BY <1>1, <2>1
  <1>3. Occupied' \subseteq Occupied
    BY <1>1 DEF Occupied
  <1>4. Cardinality(Occupied') <= Cardinality(Occupied) /\ Cardinality(Occupied') \in Nat
    BY <1>3, OccupiedFinite, FS_Subset, FS_CardinalityType
  <1>5. Cardinality(Occupied) <= MaxSessions
    BY DEF EntryOwned, Occupied
  <1>6. Cardinality(Occupied') <= MaxSessions
    BY <1>4, <1>5, OccupiedFinite, UdpAssumption
  <1>7. QED BY <1>1, <1>2, <1>6 DEF EntryOwned, Occupied

\* The association that ends removes its own entry.
LEMMA DissociateInv ==
    ASSUME AssociationsInv, NEW a \in Assoc, Dissociate(a) PROVE AssociationsInv'
  <1>0. TypeOK /\ EntryOwned /\ hop[a].task \in {"acking", "holding"}
    BY DEF AssociationsInv, AssociationsSound, Dissociate
  <1>1. a \in Sid /\ edge[a].sid = a
    BY <1>0, AssocIsSid DEF AssociationsInv, IdsUnique
  <1>2. /\ hop' = [hop EXCEPT ![a].task = "done"]
        /\ table' = [table EXCEPT ![a] = 0]
        /\ UNCHANGED <<closed, edgeVars, contacted, cache, uplink, up, down, history>>
    BY <1>1 DEF Dissociate, Remove
  <1>3. /\ hop'[a].task = "done" /\ \A b \in Assoc : b # a => hop'[b] = hop[b]
        /\ hop' \in [Assoc -> HopRec]
    <2>1. hop \in [Assoc -> HopRec]
      BY <1>0 DEF TypeOK, HopRec
    <2>2. QED BY <1>2, <2>1 DEF HopRec
  <1>4. CASE table[a] = a
    <2>1. EntryOwned' /\ table' \in [Sid -> Assoc \cup {0}]
      BY <1>0, <1>1, <1>2, <1>3, <1>4, FewerEntries DEF edgeVars
    <2>2. TypeOK' /\ NoCrossTalk' /\ IdsUnique' /\ RoutedToOwner' /\ CarriedTrue'
      BY <1>0, <1>2, <1>3, <2>1, HopMoves
    <2>3. QED BY <2>1, <2>2 DEF AssociationsInv, AssociationsSound, NoWrap
  <1>5. CASE table[a] # a
    <2>1. \A i \in Sid : table[i] # a
      BY <1>0, <1>1, <1>5, UdpAssumption DEF EntryOwned, Assoc
    <2>2. table[a] = 0
      <3>1. table[a] # 0 => table[a] \in Assoc /\ Born(table[a]) /\ edge[table[a]].sid = a
        <4>1. table[a] # 0 => /\ table[a] \in Assoc /\ edge[table[a]].sid = a
                              /\ hop[table[a]].task \in {"acking", "holding"}
          BY <1>0, <1>1 DEF TypeOK, EntryOwned
        <4>2. QED BY <4>1 DEF AssociationsInv, IdsUnique
      <3>2. QED BY <1>5, <3>1 DEF AssociationsInv, IdsUnique
    <2>3. table' = table
      BY <1>0, <1>2, <2>2 DEF TypeOK
    <2>4. TypeOK' /\ NoCrossTalk' /\ IdsUnique' /\ RoutedToOwner' /\ CarriedTrue'
      BY <1>0, <1>2, <1>3, <2>3, HopMoves DEF TypeOK
    <2>5. /\ \A i \in Sid : table'[i] # 0 =>
               hop'[table'[i]].task \in {"acking", "holding"} /\ edge'[table'[i]].sid = i
          /\ Occupied' = Occupied
      BY <1>0, <1>2, <1>3, <2>1, <2>3 DEF TypeOK, EntryOwned, edgeVars, Occupied
    <2>6. EntryOwned'
      BY <1>0, <2>5 DEF EntryOwned, Occupied
    <2>7. QED BY <2>4, <2>6 DEF AssociationsInv, AssociationsSound, NoWrap
  <1>6. QED BY <1>4, <1>5

LEMMA UnreadInv ==
    ASSUME AssociationsInv, NEW a \in Assoc, Unread(a) PROVE AssociationsInv'
  <1>0. TypeOK /\ EntryOwned /\ hop[a].task = "request"
    BY DEF AssociationsInv, AssociationsSound, Unread
  <1>1. /\ hop' = [hop EXCEPT ![a].task = "done"] /\ UNCHANGED table
        /\ UNCHANGED <<closed, edgeVars, contacted, cache, uplink, up, down, history>>
    BY DEF Unread
  <1>2. /\ hop'[a].task = "done" /\ \A b \in Assoc : b # a => hop'[b] = hop[b]
        /\ hop' \in [Assoc -> HopRec]
    BY <1>0, <1>1 DEF TypeOK, HopRec
  <1>3. TypeOK' /\ NoCrossTalk' /\ IdsUnique' /\ RoutedToOwner' /\ CarriedTrue'
    BY <1>0, <1>1, <1>2, HopMoves DEF TypeOK
  <1>4. EntryOwned'
    BY <1>0, <1>1, <1>2, EntriesKept DEF edgeVars
  <1>5. QED BY <1>3, <1>4 DEF AssociationsInv, AssociationsSound, NoWrap

LEMMA EvictIdleInv ==
    ASSUME AssociationsInv, NEW i \in Sid, EvictIdle(i) PROVE AssociationsInv'
  <1>0. TypeOK /\ EntryOwned
    BY DEF AssociationsInv, AssociationsSound
  <1>1. /\ table' = [table EXCEPT ![i] = 0] /\ UNCHANGED hop
        /\ UNCHANGED <<closed, edgeVars, contacted, cache, uplink, up, down, history>>
    BY DEF EvictIdle
  <1>2. EntryOwned' /\ table' \in [Sid -> Assoc \cup {0}]
    BY <1>0, <1>1, FewerEntries DEF edgeVars
  <1>3. TypeOK' /\ NoCrossTalk' /\ IdsUnique' /\ RoutedToOwner' /\ CarriedTrue'
    BY <1>0, <1>1, <1>2, HopMoves DEF TypeOK, HopRec
  <1>4. QED BY <1>2, <1>3 DEF AssociationsInv, AssociationsSound, NoWrap
\* A step that leaves ids, routes, queues and the table alone keeps the sound part.
LEMMA RestKept ==
    ASSUME AssociationsInv, UNCHANGED <<edgeVars, hop, table, asked>>
    PROVE  NoCrossTalk' /\ EntryOwned' /\ IdsUnique' /\ RoutedToOwner'
  <1>1. NoCrossTalk'
    BY CrossTalkKept DEF AssociationsInv, AssociationsSound, edgeVars
  <1>2. EntryOwned'
    BY EntriesKept DEF AssociationsInv, AssociationsSound, edgeVars
  <1>3. IdsUnique'
    BY IdsKept DEF AssociationsInv, edgeVars, Born
  <1>4. RoutedToOwner'
    BY DEF AssociationsInv, RoutedToOwner, edgeVars
  <1>5. QED BY <1>1, <1>2, <1>3, <1>4

\* The entry under a datagram's session id is the session of the client that sent it.
LEMMA TakeUplinkInv ==
    ASSUME AssociationsInv, NEW d \in up, TakeUplink(d) PROVE AssociationsInv'
  <1>0. TypeOK /\ CarriedTrue /\ d.sid \in Sid /\ d.host \in Host
    BY DEF AssociationsInv, AssociationsSound, TypeOK, UpDg
  <1>1. /\ up' = up \ {d}
        /\ uplink' = IF table[d.sid] = 0 THEN Idle ELSE [a |-> table[d.sid], host |-> d.host]
        /\ UNCHANGED <<closed, edgeVars, hop, table, contacted, cache, down, history>>
    BY DEF TakeUplink
  <1>2. table[d.sid] # 0 => table[d.sid] \in Assoc /\ table[d.sid] = d.sid
    <2>1. table[d.sid] # 0 => /\ table[d.sid] \in Assoc /\ edge[table[d.sid]].sid = d.sid
                              /\ hop[table[d.sid]].task \in {"acking", "holding"}
      BY <1>0 DEF TypeOK, AssociationsInv, AssociationsSound, EntryOwned
    <2>2. QED BY <2>1 DEF AssociationsInv, IdsUnique
  <1>3. \/ uplink' = Idle
        \/ /\ uplink' \in [a : Assoc, host : Host]
           /\ uplink'.host \in asked[uplink'.a]
    BY <1>0, <1>1, <1>2 DEF CarriedTrue
  <1>4. NoCrossTalk' /\ EntryOwned' /\ IdsUnique' /\ RoutedToOwner'
    BY <1>1, RestKept DEF history
  <1>5. TypeOK'
    <2>1. uplink' \in {Idle} \cup [a : Assoc, host : Host]
      BY <1>3
    <2>2. QED BY <1>0, <1>1, <2>1 DEF TypeOK, edgeVars, history
  <1>6. CarriedTrue'
    <2>1. uplink' # Idle => uplink'.host \in asked'[uplink'.a]
      BY <1>1, <1>3 DEF history
    <2>2. QED BY <1>0, <1>1, <2>1 DEF CarriedTrue, Born, Targets, edgeVars, history
  <1>7. QED BY <1>4, <1>5, <1>6 DEF AssociationsInv, AssociationsSound, NoWrap

\* Contacted::insert keeps the bound and adds nothing but the address.
LEMMA ContactSound ==
    ASSUME NEW q \in Seq(Addr), Len(q) <= MaxContacted, NEW x \in Addr
    PROVE  /\ Contact(q, x) \in Seq(Addr)
           /\ Len(Contact(q, x)) <= MaxContacted
           /\ \A n \in DOMAIN Contact(q, x) :
                 Contact(q, x)[n] = x \/ \E m \in DOMAIN q : Contact(q, x)[n] = q[m]
  <1> DEFINE l == Append(q, x)
  <1>0. MaxContacted \in Nat /\ MaxContacted > 0 /\ Len(q) \in Nat
    BY UdpAssumption
  <1>1. /\ l \in Seq(Addr) /\ Len(l) = Len(q) + 1
        /\ \A n \in DOMAIN l : l[n] = x \/ (n \in DOMAIN q /\ l[n] = q[n])
    OBVIOUS
  <1>2. /\ Tail(l) \in Seq(Addr) /\ Len(Tail(l)) = Len(q)
        /\ \A n \in DOMAIN Tail(l) : n + 1 \in DOMAIN l /\ Tail(l)[n] = l[n + 1]
    <2>1. l # <<>>
      BY <1>0, <1>1
    <2>2. QED BY <1>0, <1>1, <2>1
  <1>3. CASE \E i \in DOMAIN q : q[i] = x
    BY <1>3 DEF Contact
  <1>4. CASE ~(\E i \in DOMAIN q : q[i] = x) /\ Len(l) > MaxContacted
    <2>1. Contact(q, x) = Tail(l)
      BY <1>4 DEF Contact
    <2> HIDE DEF l
    <2>2. QED BY <1>1, <1>2, <2>1
  <1>5. CASE ~(\E i \in DOMAIN q : q[i] = x) /\ ~(Len(l) > MaxContacted)
    <2>1. Contact(q, x) = l
      BY <1>5 DEF Contact
    <2>2. Len(l) <= MaxContacted
      BY <1>0, <1>1, <1>5
    <2> HIDE DEF l
    <2>3. QED BY <1>1, <2>1, <2>2
  <1>6. QED BY <1>3, <1>4, <1>5

LEMMA FinishUplinkInv == AssociationsInv /\ FinishUplink => AssociationsInv'
  <1> SUFFICES ASSUME AssociationsInv, FinishUplink PROVE AssociationsInv'
    OBVIOUS
  <1>0. /\ TypeOK /\ CarriedTrue /\ uplink # Idle
        /\ UNCHANGED <<closed, edgeVars, hop, table, up, down, history>>
        /\ uplink' = Idle
    BY DEF AssociationsInv, AssociationsSound, FinishUplink
  <1>1. PICK a \in Assoc, h \in Host : a = uplink.a /\ h = uplink.host
    BY <1>0 DEF TypeOK
  <1>2. h \in asked[a] /\ Resolve[h] \in Addr /\ Resolve[h] \in Targets(a)
    BY <1>0, <1>1, UdpAssumption DEF CarriedTrue, Targets
  <1>3. NoCrossTalk' /\ EntryOwned' /\ IdsUnique' /\ RoutedToOwner'
    BY <1>0, RestKept DEF history
  <1>4. cache' \in [Assoc -> SUBSET Host]
    <2>1. cache' = cache \/ cache' = [cache EXCEPT ![a] = cache[a] \cup {h}]
      BY <1>0, <1>1 DEF FinishUplink, TypeOK
    <2>2. cache \in [Assoc -> SUBSET Host] /\ cache[a] \cup {h} \in SUBSET Host
      BY <1>0 DEF TypeOK
    <2>3. QED BY <2>1, <2>2
  <1>5. /\ contacted' \in [Assoc -> Seq(Addr)]
        /\ \A b \in Assoc : Len(contacted'[b]) <= MaxContacted
        /\ \A b \in Assoc : \A n \in DOMAIN contacted'[b] : contacted'[b][n] \in Targets(b)
    <2> DEFINE q == Contact(contacted[a], Resolve[h])
    <2>1. contacted' = contacted \/ contacted' = [contacted EXCEPT ![a] = q]
      BY <1>0, <1>1 DEF FinishUplink, TypeOK
    <2>2. contacted[a] \in Seq(Addr) /\ Len(contacted[a]) <= MaxContacted
      BY <1>0 DEF TypeOK
    <2>3. /\ q \in Seq(Addr) /\ Len(q) <= MaxContacted
          /\ \A n \in DOMAIN q : q[n] = Resolve[h] \/ \E m \in DOMAIN contacted[a] : q[n] = contacted[a][m]
      BY <1>2, <2>2, ContactSound
    <2>4. \A n \in DOMAIN q : q[n] \in Targets(a)
      BY <1>0, <1>2, <2>3 DEF CarriedTrue
    <2>5. CASE contacted' = contacted
      BY <1>0, <2>5 DEF TypeOK, CarriedTrue
    <2>6. CASE contacted' = [contacted EXCEPT ![a] = q]
      <3> HIDE DEF q
      <3>1. contacted'[a] = q /\ \A b \in Assoc : b # a => contacted'[b] = contacted[b]
        BY <1>0, <2>6 DEF TypeOK
      <3>2. contacted' \in [Assoc -> Seq(Addr)]
        BY <1>0, <2>3, <2>6 DEF TypeOK
      <3>3. \A b \in Assoc : Len(contacted'[b]) <= MaxContacted
        BY <1>0, <2>3, <3>1 DEF TypeOK
      <3>4. \A b \in Assoc : \A n \in DOMAIN contacted'[b] : contacted'[b][n] \in Targets(b)
        BY <1>0, <2>4, <3>1 DEF CarriedTrue
      <3>5. QED BY <3>2, <3>3, <3>4
    <2>7. QED BY <2>1, <2>5, <2>6
  <1>6. TypeOK'
    BY <1>0, <1>4, <1>5 DEF TypeOK, edgeVars, history
  <1>7. CarriedTrue'
    BY <1>0, <1>5 DEF CarriedTrue, Born, Targets, edgeVars, history
  <1>8. QED BY <1>3, <1>6, <1>7 DEF AssociationsInv, AssociationsSound, NoWrap

\* Only an address its client sent to passes the filter of a socket.
LEMMA DownlinkInv ==
    ASSUME AssociationsInv, NEW i \in Sid, NEW addr \in Addr, Downlink(i, addr) PROVE AssociationsInv'
  <1>0. TypeOK /\ CarriedTrue /\ table[i] # 0 /\ Admits(table[i], addr)
    BY DEF AssociationsInv, AssociationsSound, Downlink
  <1>1. /\ pkts < MaxPackets /\ pkts' = pkts + 1
        /\ down' = down \cup {[sid |-> i, ret |-> [from |-> table[i], addr |-> addr]]}
        /\ UNCHANGED <<closed, edgeVars, hopVars, up, asked>>
    BY DEF Downlink
  <1>2. table[i] \in Assoc /\ table[i] = i
    <2>1. /\ table[i] \in Assoc /\ edge[table[i]].sid = i
          /\ hop[table[i]].task \in {"acking", "holding"}
      BY <1>0 DEF TypeOK, AssociationsInv, AssociationsSound, EntryOwned
    <2>2. QED BY <2>1 DEF AssociationsInv, IdsUnique
  <1>3. addr \in Targets(i)
    BY <1>0, <1>2 DEF Admits, CarriedTrue
  <1>4. NoCrossTalk' /\ EntryOwned' /\ IdsUnique' /\ RoutedToOwner'
    BY <1>1, RestKept DEF hopVars
  <1>5. TypeOK'
    <2>1. pkts' \in 0 .. MaxPackets
      BY <1>0, <1>1, UdpAssumption DEF TypeOK
    <2>2. down' \subseteq DownDg
      BY <1>0, <1>1, <1>2 DEF TypeOK, DownDg, Return
    <2>3. QED BY <1>0, <1>1, <2>1, <2>2 DEF TypeOK, edgeVars, hopVars
  <1>6. CarriedTrue'
    <2>1. \A d \in down' : d.ret.from = d.sid /\ d.ret.addr \in Targets(d.ret.from)
      BY <1>0, <1>1, <1>2, <1>3 DEF CarriedTrue
    <2>2. QED BY <1>0, <1>1, <2>1 DEF CarriedTrue, Born, Targets, edgeVars, hopVars
  <1>7. QED BY <1>4, <1>5, <1>6 DEF AssociationsInv, AssociationsSound, NoWrap

\* Datagrams get lost, one by one or with the connection.
LEMMA LossInv ==
    ASSUME AssociationsInv, closed' \in BOOLEAN, up' \subseteq up, down' \subseteq down,
           UNCHANGED <<edgeVars, hopVars, history>>
    PROVE  AssociationsInv'
  <1>0. TypeOK
    BY DEF AssociationsInv, AssociationsSound
  <1>1. NoCrossTalk' /\ EntryOwned' /\ IdsUnique' /\ RoutedToOwner'
    BY RestKept DEF hopVars, history
  <1>2. TypeOK'
    BY <1>0 DEF TypeOK, edgeVars, hopVars, history
  <1>3. CarriedTrue'
    BY <1>0, CarriedKept DEF AssociationsInv, edgeVars, hopVars, history, Born
  <1>4. QED BY <1>1, <1>2, <1>3 DEF AssociationsInv, AssociationsSound, NoWrap

LEMMA NextInv == AssociationsInv /\ [Next]_vars => AssociationsInv'
  <1> SUFFICES ASSUME AssociationsInv, [Next]_vars PROVE AssociationsInv'
    OBVIOUS
  <1>0. closed \in BOOLEAN
    BY DEF AssociationsInv, AssociationsSound, TypeOK
  <1>1. ASSUME NEW a \in Assoc,
               OpenUdp(a) \/ Opened(a) \/ NotOpened(a) \/ RecvFrom(a) \/ DropRelay(a)
        PROVE  AssociationsInv'
    BY <1>1, OpenUdpInv, OpenedInv, NotOpenedInv, RecvFromInv, DropRelayInv
  <1>2. ASSUME NEW a \in Assoc, HopTask(a) PROVE AssociationsInv'
    BY <1>2, AssociateInv, AssociateAckInv, DissociateInv, UnreadInv DEF HopTask
  <1>3. ASSUME NEW a \in Assoc, NEW h \in Host, SendTo(a, h) PROVE AssociationsInv'
    BY <1>3, SendToInv
  <1>4. ASSUME NEW i \in Sid, EvictIdle(i) \/ \E addr \in Addr : Downlink(i, addr) PROVE AssociationsInv'
    BY <1>4, EvictIdleInv, DownlinkInv
  <1>5. CASE (\E d \in up : TakeUplink(d)) \/ (\E d \in down : Route(d)) \/ FinishUplink
    BY <1>5, TakeUplinkInv, RouteInv, FinishUplinkInv
  <1>6. CASE LoseDatagram
    BY <1>0, <1>6, LossInv DEF LoseDatagram
  <1>7. CASE Close
    BY <1>7, LossInv DEF Close
  <1>8. CASE UNCHANGED vars
    BY <1>0, <1>8, LossInv DEF vars, edgeVars, hopVars, history
  <1>9. QED BY <1>1, <1>2, <1>3, <1>4, <1>5, <1>6, <1>7, <1>8 DEF Next

-------------------------------------------------------------------------------

\* As long as fewer associations are opened on a connection than there are session
\* ids, a client only ever receives what came in on its own socket from an address
\* it sent to, every egress socket in the hop's table has a task that will remove
\* it, and the table keeps its limit: for every overlap of opening, dropping,
\* eviction, loss and late datagrams.
THEOREM AssociationsStaySound ==
    ASSUME MaxAssoc < IdSpace PROVE Spec => []AssociationsSound
  <1>1. Init => AssociationsInv
    BY InitInv DEF NoWrap
  <1>2. AssociationsInv => AssociationsSound
    BY DEF AssociationsInv
  <1>3. QED BY <1>1, <1>2, NextInv, PTL DEF Spec

-------------------------------------------------------------------------------
(* The hop process *)

ConnFields == {"stage", "protocol", "presented", "failure"}
Behind     == {"request", "dialing", "replying", "tunnel"}  \* stages after the credentials

\* Only a process with a listener has connections, and it lets through who presents the
\* credentials it was started with.
Served ==
    /\ boot = Boot(command.args, command.env)
    /\ conn = [c \in Conns |-> conn[c]]
    /\ \A c \in Conns :
         /\ DOMAIN conn[c] = ConnFields
         /\ conn[c].stage # "none" => boot.up /\ boot.listeners # <<>>
         /\ conn[c].stage \in Behind => conn[c].presented = boot.credentials

RecordLine == [name : Conns, n : {1}]
GaugeLine  == [name : RowSet, n : Nat]

LogTypes ==
    /\ logQ \in Seq(RecordLine) /\ dropped \in Nat
    /\ totals \in [RowSet -> Nat] /\ lastBytes \in [RowSet -> Nat]
    /\ logged \in [Conns \cup RowSet -> Nat]
    /\ writer.todo \in Seq(GaugeLine)
    /\ \A r \in RowSet : lastBytes[r] <= totals[r]

\* A record waits once, for a connection that is over and not in the file yet.
QueueFresh ==
    /\ \A i \in DOMAIN logQ : conn[logQ[i].name].stage = "done" /\ logged[logQ[i].name] = 0
    /\ \A i, j \in DOMAIN logQ : logQ[i].name = logQ[j].name => i = j

LoggedOnce == \A c \in Conns : logged[c] = 0 \/ (logged[c] = 1 /\ conn[c].stage = "done")

\* The lines of a tick are of different rows, and none is left when the writer selects.
TodoOnce ==
    /\ \A i, j \in DOMAIN writer.todo : writer.todo[i].name = writer.todo[j].name => i = j
    /\ writer.at = "select" => writer.todo = <<>>

DoneConns    == {c \in Conns : conn[c].stage = "done"}
WrittenConns == {c \in Conns : logged[c] = 1}
Recorded ==
    boot.access_log => Cardinality(DoneConns) = Cardinality(WrittenConns) + Len(logQ) + dropped

NodeInv == Served /\ LogTypes /\ QueueFresh /\ LoggedOnce /\ TodoOnce /\ Recorded /\ GaugesAddUp

\* Credentials of a process that serves a listener are the operator's, both halves.
LEMMA OperatorCredentials ==
    ASSUME NEW cmd, NEW env, Boot(cmd, env).up, Boot(cmd, env).listeners # <<>>
    PROVE  LET a == parse(cmd)
           IN  /\ Boot(cmd, env).credentials[1] \in {a.username, env.username} \ {None, ""}
               /\ Boot(cmd, env).credentials[2] \in {a.password, env.password} \ {None, ""}
<1> DEFINE a    == parse(cmd)
           user == first_non_empty(a.username, env.username)
           pass == first_non_empty(a.password, env.password)
<1>1. /\ Boot(cmd, env).listeners = Listeners(a)
      /\ Boot(cmd, env).credentials = credentials_with_env(a, env).is
      /\ Boot(cmd, env).up => credentials_with_env(a, env).ok
  BY DEF Boot
<1> HIDE DEF a
<1>2. user # None /\ pass # None
  BY <1>1 DEF credentials_with_env, Failure
<1>3. Boot(cmd, env).credentials = <<user, pass>>
  BY <1>1, <1>2 DEF credentials_with_env
<1>4. /\ user \in {a.username, env.username} \ {None, ""}
      /\ pass \in {a.password, env.password} \ {None, ""}
  BY <1>2 DEF first_non_empty, NotBlank
<1> HIDE DEF user, pass
<1>5. <<user, pass>>[1] = user /\ <<user, pass>>[2] = pass
  OBVIOUS
<1>6. QED
  BY <1>3, <1>4, <1>5 DEF a

LEMMA RowsSequence == Rows \in Seq(RowSet)
  BY RowsDistinct DEF RowSet

LEMMA QueueNames ==
    ASSUME LogTypes
    PROVE  /\ Len(logQ) \in Nat /\ DOMAIN logQ = 1 .. Len(logQ)
           /\ \A i \in DOMAIN logQ : logQ[i].name \in Conns /\ logQ[i].n = 1
<1>1. logQ \in Seq(RecordLine)
  BY DEF LogTypes
<1>2. \A i \in DOMAIN logQ : logQ[i] \in RecordLine
  BY <1>1
<1>3. QED
  BY <1>1, <1>2 DEF RecordLine

LEMMA CountsFinite ==
    /\ IsFiniteSet(DoneConns) /\ IsFiniteSet(WrittenConns)
    /\ Cardinality(DoneConns) \in Nat /\ Cardinality(WrittenConns) \in Nat
<1>1. DoneConns \subseteq Conns /\ WrittenConns \subseteq Conns
  BY DEF DoneConns, WrittenConns
<1>2. IsFiniteSet(Conns)
  BY LogBounds
<1>3. IsFiniteSet(DoneConns) /\ IsFiniteSet(WrittenConns)
  BY <1>1, <1>2, FS_Subset
<1>4. QED
  BY <1>3, FS_CardinalityType

LEMMA GaugesStay ==
    ASSUME GaugesAddUp, UNCHANGED <<writer, logged, lastBytes>>
    PROVE  GaugesAddUp'
  BY DEF GaugesAddUp

\* A step of a connection that does not end it, and none of the log.
LEMMA MoveKeeps ==
    ASSUME NodeInv, UNCHANGED <<bootVars, logVars>>, NEW c \in Conns,
           conn' = [d \in Conns |-> conn'[d]], \A d \in Conns \ {c} : conn'[d] = conn[d],
           conn[c].stage # "done", conn'[c].stage # "done",
           DOMAIN conn'[c] = ConnFields,
           conn'[c].stage # "none" => boot.up /\ boot.listeners # <<>>,
           conn'[c].stage \in Behind => conn'[c].presented = boot.credentials
    PROVE  NodeInv'
<1>1. Served'
  BY DEF NodeInv, Served, bootVars
<1>2. LogTypes' /\ TodoOnce'
  BY DEF NodeInv, LogTypes, TodoOnce, logVars
<1>3. \A d \in Conns : conn[d].stage = "done" => conn'[d].stage = "done"
  OBVIOUS
<1>4. QueueFresh' /\ LoggedOnce'
  BY <1>3, QueueNames DEF NodeInv, QueueFresh, LoggedOnce, logVars
<1>5. DoneConns' = DoneConns /\ WrittenConns' = WrittenConns
  BY DEF DoneConns, WrittenConns, logVars
<1>6. Recorded'
  BY <1>5 DEF NodeInv, Recorded, logVars, bootVars
<1>7. GaugesAddUp'
  BY GaugesStay DEF NodeInv, logVars
<1>8. QED
  BY <1>1, <1>2, <1>4, <1>6, <1>7 DEF NodeInv

LEMMA DoctorKeeps ==
    ASSUME NodeInv, UNCHANGED <<bootVars, proxyVars, logVars>>
    PROVE  NodeInv'
<1>1. Served' /\ LogTypes' /\ TodoOnce'
  BY DEF NodeInv, Served, LogTypes, TodoOnce, bootVars, proxyVars, logVars
<1>2. QueueFresh' /\ LoggedOnce' /\ Recorded'
  BY DEF NodeInv, QueueFresh, LoggedOnce, Recorded, DoneConns, WrittenConns, bootVars, proxyVars, logVars
<1>3. GaugesAddUp'
  BY GaugesStay DEF NodeInv, logVars
<1>4. QED
  BY <1>1, <1>2, <1>3 DEF NodeInv

\* The end of a handler: one record, queued or counted as dropped.
LEMMA RecordKeeps ==
    ASSUME NodeInv, NEW c \in Conns, End(c, "done"), conn[c].stage \notin {"none", "done"},
           NEW n \in Nat, NEW rows,
           RecordBytes(rows, n) \/ UNCHANGED totals,
           IF boot.access_log THEN LogRecord(c) ELSE UNCHANGED <<logQ, dropped>>,
           UNCHANGED <<bootVars, lastBytes, logged, writer>>
    PROVE  NodeInv'
<1>1. conn' = [d \in Conns |-> conn'[d]] /\ \A d \in Conns \ {c} : conn'[d] = conn[d]
  BY DEF NodeInv, Served, End
<1>2. DOMAIN conn'[c] = ConnFields /\ conn'[c].stage = "done"
  BY DEF NodeInv, Served, End, NoConn, ConnFields
<1>3. Served'
  BY <1>1, <1>2 DEF NodeInv, Served, bootVars, Behind
<1>4. TodoOnce' /\ GaugesAddUp'
  BY GaugesStay DEF NodeInv, TodoOnce
<1>5. LoggedOnce'
  BY <1>1, <1>2 DEF NodeInv, LoggedOnce
<1>6. Record(c) \in RecordLine /\ Record(c).name = c /\ logged[c] = 0
  BY DEF Record, NodeInv, LoggedOnce, RecordLine
<1>7. totals' \in [RowSet -> Nat] /\ \A r \in RowSet : totals[r] <= totals'[r]
  <2>1. totals \in [RowSet -> Nat]
    BY DEF NodeInv, LogTypes
  <2>2. CASE RecordBytes(rows, n)
    <3>1. \A r \in RowSet : totals[r] \in Nat /\ totals[r] + n \in Nat /\ totals[r] <= totals[r] + n
      BY <2>1
    <3>2. QED
      BY <2>2, <3>1 DEF RecordBytes
  <2>3. CASE UNCHANGED totals
    BY <2>1, <2>3
  <2>4. QED
    BY <2>2, <2>3
<1>8. logQ' \in Seq(RecordLine) /\ dropped' \in Nat
  <2>1. logQ \in Seq(RecordLine) /\ dropped \in Nat
    BY DEF NodeInv, LogTypes
  <2>2. Append(logQ, Record(c)) \in Seq(RecordLine) /\ dropped + 1 \in Nat
    BY <1>6, <2>1
  <2>3. QED
    BY <2>1, <2>2 DEF LogRecord
<1>9. LogTypes'
  BY <1>7, <1>8 DEF NodeInv, LogTypes
<1>10. \A i \in DOMAIN logQ : logQ[i].name \in Conns /\ logQ[i].name # c
  BY QueueNames DEF NodeInv, QueueFresh
<1>11. QueueFresh'
  <2>1. CASE UNCHANGED logQ
    BY <1>1, <1>2, <1>10, <2>1 DEF NodeInv, QueueFresh
  <2>2. CASE logQ' = Append(logQ, Record(c))
    <3>1. logQ \in Seq(RecordLine) /\ Len(logQ) \in Nat
      BY DEF NodeInv, LogTypes
    <3>2. /\ DOMAIN logQ' = 1 .. Len(logQ) + 1 /\ DOMAIN logQ = 1 .. Len(logQ)
          /\ \A i \in 1 .. Len(logQ) : logQ'[i] = logQ[i]
          /\ logQ'[Len(logQ) + 1] = Record(c)
      BY <1>6, <2>2, <3>1
    <3>3. \A i \in DOMAIN logQ' : i \in DOMAIN logQ \/ i = Len(logQ) + 1
      BY <3>1, <3>2
    <3>4. QED
      BY <1>1, <1>2, <1>6, <1>10, <3>2, <3>3 DEF NodeInv, QueueFresh
  <2>3. QED
    BY <2>1, <2>2 DEF LogRecord
<1>12. Recorded'
  <2>1. DoneConns' = DoneConns \cup {c} /\ c \notin DoneConns /\ WrittenConns' = WrittenConns
    BY <1>1, <1>2 DEF DoneConns, WrittenConns
  <2>2. Cardinality(DoneConns \cup {c}) = Cardinality(DoneConns) + 1
    BY <2>1, CountsFinite, FS_AddElement
  <2>3. /\ Cardinality(DoneConns') = Cardinality(DoneConns) + 1
        /\ Cardinality(DoneConns) \in Nat /\ Cardinality(WrittenConns) \in Nat
    BY <2>1, <2>2, CountsFinite
  <2>4. logQ \in Seq(RecordLine) /\ Len(logQ) \in Nat /\ dropped \in Nat
    BY DEF NodeInv, LogTypes
  <2>5. boot.access_log => Len(logQ') + dropped' = Len(logQ) + dropped + 1
    BY <1>6, <2>4 DEF LogRecord
  <2>6. Len(logQ') \in Nat /\ dropped' \in Nat
    BY <1>8
  <2>7. boot' = boot
    BY DEF bootVars
  <2>8. QED
    BY <2>1, <2>3, <2>4, <2>5, <2>6, <2>7 DEF NodeInv, Recorded
<1>13. QED
  BY <1>3, <1>4, <1>5, <1>9, <1>11, <1>12 DEF NodeInv

LEMMA ProxyKeeps ==
    ASSUME NodeInv, Proxy
    PROVE  NodeInv'
<1>1. PICK c \in Conns :
        \/ Handshake(c) \/ Vanish(c) \/ ReadVersionBad(c) \/ Replied(c) \/ RefusalSent(c)
        \/ \E i \in DOMAIN boot.listeners : Accept(c, i)
        \/ \E yes \in BOOLEAN : ReadGreeting(c, yes) \/ ReadRequest(c, yes) \/ Dialled(c, yes)
        \/ \E pair \in Presented : ReadAuth(c, pair)
        \/ \E connect, ok \in BOOLEAN, pair \in Presented : ReadHead(c, connect, pair, ok)
        \/ \E n \in Bytes : TunnelEnds(c, n)
  BY DEF Proxy
<1> USE DEF Behind
<1>2. Served
  BY DEF NodeInv
\* What the updates of a connection do.
<1>3. ASSUME NEW stage, Move(c, stage)
      PROVE  /\ conn' = [d \in Conns |-> conn'[d]] /\ \A d \in Conns \ {c} : conn'[d] = conn[d]
             /\ DOMAIN conn'[c] = ConnFields /\ conn'[c].stage = stage
             /\ conn'[c].presented = conn[c].presented
  BY <1>2, <1>3 DEF Served, Move, ConnFields
<1>4. ASSUME NEW how, Refuse(c, how)
      PROVE  /\ conn' = [d \in Conns |-> conn'[d]] /\ \A d \in Conns \ {c} : conn'[d] = conn[d]
             /\ DOMAIN conn'[c] = ConnFields /\ conn'[c].stage = "refusing"
  BY <1>2, <1>4 DEF Served, Refuse, ConnFields
<1>5. conn[c].stage # "none" => boot.up /\ boot.listeners # <<>>
  BY <1>2 DEF Served
<1>6. conn[c].stage \in Behind => conn[c].presented = boot.credentials
  BY <1>2 DEF Served
<1>7. CASE Handshake(c)
  BY <1>3, <1>5, <1>6, <1>7, MoveKeeps DEF Handshake, FirstRead, At, Quiet
<1>8. CASE Vanish(c)
  <2>1. /\ conn' = [d \in Conns |-> conn'[d]] /\ \A d \in Conns \ {c} : conn'[d] = conn[d]
        /\ DOMAIN conn'[c] = ConnFields /\ conn'[c].stage = "gone"
    BY <1>2, <1>8 DEF Served, Vanish, End, NoConn, ConnFields
  <2>2. QED
    BY <1>5, <1>8, <2>1, MoveKeeps DEF Vanish, Quiet
<1>9. CASE ReadVersionBad(c)
  BY <1>9, RecordKeeps DEF ReadVersionBad, At
<1>10. CASE Replied(c)
  BY <1>3, <1>5, <1>6, <1>10, MoveKeeps DEF Replied, At, Quiet
<1>11. CASE RefusalSent(c)
  BY <1>11, RecordKeeps DEF RefusalSent, Finish, At
<1>12. CASE \E i \in DOMAIN boot.listeners : Accept(c, i)
  <2>1. PICK i \in DOMAIN boot.listeners : Accept(c, i)
    BY <1>12
  <2>2. boot.listeners # <<>>
    <3>1. DOMAIN <<>> = {}
      OBVIOUS
    <3>2. QED
      BY <3>1
  <2> DEFINE st == IF boot.listeners[i].protocol = "socks5" THEN "greeting" ELSE "tls"
             pr == boot.listeners[i].protocol
  <2>3. conn' = [conn EXCEPT ![c].stage = st, ![c].protocol = pr]
    BY <2>1 DEF Accept
  <2>4. st \in {"greeting", "tls"}
    OBVIOUS
  <2> HIDE DEF st, pr
  <2>5. /\ conn' = [d \in Conns |-> conn'[d]] /\ \A d \in Conns \ {c} : conn'[d] = conn[d]
        /\ DOMAIN conn'[c] = ConnFields /\ conn'[c].stage = st
    BY <1>2, <2>3 DEF Served, ConnFields
  <2>6. QED
    BY <2>1, <2>2, <2>4, <2>5, MoveKeeps DEF Accept, At, Quiet
<1>13. CASE \E yes \in BOOLEAN : ReadGreeting(c, yes) \/ ReadRequest(c, yes) \/ Dialled(c, yes)
  <2>1. PICK yes \in BOOLEAN : ReadGreeting(c, yes) \/ ReadRequest(c, yes) \/ Dialled(c, yes)
    BY <1>13
  <2>2. CASE ReadGreeting(c, yes)
    BY <1>3, <1>4, <1>5, <2>2, MoveKeeps DEF ReadGreeting, At, Quiet
  <2>3. CASE ReadRequest(c, yes)
    BY <1>3, <1>4, <1>5, <1>6, <2>3, MoveKeeps DEF ReadRequest, At, Quiet
  <2>4. CASE Dialled(c, yes)
    BY <1>3, <1>4, <1>5, <1>6, <2>4, MoveKeeps DEF Dialled, At, Quiet
  <2>5. QED
    BY <2>1, <2>2, <2>3, <2>4
<1>14. CASE \E pair \in Presented : ReadAuth(c, pair)
  <2>1. PICK pair \in Presented : ReadAuth(c, pair)
    BY <1>14
  <2>2. CASE Refuse(c, "auth")
    BY <1>4, <1>5, <2>1, <2>2, MoveKeeps DEF ReadAuth, At, Quiet
  <2>3. CASE credentials_ok(pair) /\ conn' = [conn EXCEPT ![c].stage = "request", ![c].presented = pair]
    <3>1. /\ conn' = [d \in Conns |-> conn'[d]] /\ \A d \in Conns \ {c} : conn'[d] = conn[d]
          /\ DOMAIN conn'[c] = ConnFields /\ conn'[c].stage = "request" /\ conn'[c].presented = pair
      BY <1>2, <2>3 DEF Served, ConnFields
    <3>2. pair = boot.credentials
      BY <2>3 DEF credentials_ok
    <3>3. QED
      BY <1>5, <2>1, <3>1, <3>2, MoveKeeps DEF ReadAuth, At, Quiet
  <2>4. QED
    BY <2>1, <2>2, <2>3 DEF ReadAuth
<1>15. CASE \E connect, ok \in BOOLEAN, pair \in Presented : ReadHead(c, connect, pair, ok)
  <2>1. PICK connect \in BOOLEAN, ok \in BOOLEAN, pair \in Presented : ReadHead(c, connect, pair, ok)
    BY <1>15
  <2>2. CASE Refuse(c, "auth") \/ Refuse(c, "parse")
    BY <1>4, <1>5, <2>1, <2>2, MoveKeeps DEF ReadHead, At, Quiet
  <2>3. CASE credentials_ok(pair) /\ conn' = [conn EXCEPT ![c].stage = "dialing", ![c].presented = pair]
    <3>1. /\ conn' = [d \in Conns |-> conn'[d]] /\ \A d \in Conns \ {c} : conn'[d] = conn[d]
          /\ DOMAIN conn'[c] = ConnFields /\ conn'[c].stage = "dialing" /\ conn'[c].presented = pair
      BY <1>2, <2>3 DEF Served, ConnFields
    <3>2. pair = boot.credentials
      BY <2>3 DEF credentials_ok
    <3>3. QED
      BY <1>5, <2>1, <3>1, <3>2, MoveKeeps DEF ReadHead, At, Quiet
  <2>4. QED
    BY <2>1, <2>2, <2>3 DEF ReadHead
<1>16. CASE \E n \in Bytes : TunnelEnds(c, n)
  BY <1>16, TrafficCounted, RecordKeeps DEF TunnelEnds, Finish, At
<1>17. QED
  BY <1>1, <1>7, <1>8, <1>9, <1>10, <1>11, <1>12, <1>13, <1>14, <1>15, <1>16

-------------------------------------------------------------------------------
(* The writer of the access log *)

\* A step of the writer that touches no line.
LEMMA SinkKeeps ==
    ASSUME NodeInv, UNCHANGED <<bootVars, proxyVars, logQ, dropped, totals, lastBytes, logged>>,
           writer'.todo = writer.todo, writer'.at = "select" => writer.todo = <<>>
    PROVE  NodeInv'
<1>1. Served' /\ LogTypes' /\ TodoOnce'
  BY DEF NodeInv, Served, LogTypes, TodoOnce, bootVars, proxyVars
<1>2. QueueFresh' /\ LoggedOnce' /\ Recorded'
  BY DEF NodeInv, QueueFresh, LoggedOnce, Recorded, DoneConns, WrittenConns, bootVars, proxyVars
<1>3. GaugesAddUp'
  BY DEF NodeInv, GaugesAddUp
<1>4. QED
  BY <1>1, <1>2, <1>3 DEF NodeInv

\* The gauge of a row that is ahead, and none.
LEMMA GaugeAhead ==
    ASSUME NEW s, \A i, j \in DOMAIN s : s[i].name = s[j].name => i = j, NEW r
    PROVE  LET ahead == {i \in DOMAIN s : s[i].name = r}
               amount == IF ahead = {} THEN 0 ELSE s[CHOOSE i \in ahead : TRUE].n
           IN  /\ \A i \in DOMAIN s : s[i].name = r => amount = s[i].n
               /\ (\A i \in DOMAIN s : s[i].name # r) => amount = 0
<1> DEFINE ahead == {i \in DOMAIN s : s[i].name = r}
<1>1. ASSUME NEW i \in DOMAIN s, s[i].name = r
      PROVE  ahead # {} /\ (CHOOSE j \in ahead : TRUE) = i
  <2>1. ahead = {i}
    BY <1>1
  <2>2. (CHOOSE j \in {i} : TRUE) = i
    OBVIOUS
  <2>3. QED
    BY <2>1, <2>2
<1>2. (\A i \in DOMAIN s : s[i].name # r) => ahead = {}
  OBVIOUS
<1>3. QED
  BY <1>1, <1>2

\* What GaugesAddUp says of a list of lines.
Amount(s, r) ==
    LET ahead == {i \in DOMAIN s : s[i].name = r}
    IN  IF ahead = {} THEN 0 ELSE s[CHOOSE i \in ahead : TRUE].n

LEMMA GaugesByAmount == GaugesAddUp <=> \A r \in RowSet : logged[r] + Amount(writer.todo, r) = lastBytes[r]
  BY DEF GaugesAddUp, Amount

\* The lines after the first one.
LEMMA AmountTail ==
    ASSUME NEW s \in Seq(GaugeLine), s # <<>>, NEW r \in RowSet,
           \A i, j \in DOMAIN s : s[i].name = s[j].name => i = j
    PROVE  /\ Head(s) = s[1] /\ s[1].name \in RowSet /\ s[1].n \in Nat
           /\ Tail(s) \in Seq(GaugeLine)
           /\ \A i, j \in DOMAIN Tail(s) : Tail(s)[i].name = Tail(s)[j].name => i = j
           /\ Amount(s, r) \in Nat /\ Amount(Tail(s), r) \in Nat
           /\ Amount(s, r) = Amount(Tail(s), r) + (IF s[1].name = r THEN s[1].n ELSE 0)
<1> DEFINE t == Tail(s)
<1>1. /\ Len(s) \in Nat /\ Len(s) >= 1 /\ DOMAIN s = 1 .. Len(s) /\ Head(s) = s[1]
      /\ t \in Seq(GaugeLine) /\ Len(t) = Len(s) - 1 /\ DOMAIN t = 1 .. Len(s) - 1
      /\ \A i \in 1 .. Len(s) - 1 : t[i] = s[i + 1]
  BY HeadTailProperties
<1>2. \A i \in DOMAIN s : s[i] \in GaugeLine
  OBVIOUS
<1>3. 1 \in DOMAIN s /\ s[1].name \in RowSet /\ s[1].n \in Nat
  BY <1>1, <1>2 DEF GaugeLine
<1> HIDE DEF t
<1>4. \A i \in DOMAIN t : i + 1 \in DOMAIN s /\ i + 1 # 1 /\ t[i] = s[i + 1]
  BY <1>1
<1>5. \A i, j \in DOMAIN t : t[i].name = t[j].name => i = j
  <2>1. ASSUME NEW i \in DOMAIN t, NEW j \in DOMAIN t, t[i].name = t[j].name
        PROVE  i = j
    <3>1. i + 1 = j + 1
      BY <1>4, <2>1
    <3>2. i \in Nat /\ j \in Nat
      BY <1>1
    <3>3. QED
      BY <3>1, <3>2
  <2>2. QED
    BY <2>1
<1>6. ASSUME NEW i \in DOMAIN s, s[i].name = r PROVE Amount(s, r) = s[i].n
  BY <1>6, GaugeAhead DEF Amount
<1>7. (\A i \in DOMAIN s : s[i].name # r) => Amount(s, r) = 0
  BY GaugeAhead DEF Amount
<1>8. ASSUME NEW i \in DOMAIN t, t[i].name = r PROVE Amount(t, r) = t[i].n
  BY <1>5, <1>8, GaugeAhead DEF Amount
<1>9. (\A i \in DOMAIN t : t[i].name # r) => Amount(t, r) = 0
  BY <1>5, GaugeAhead DEF Amount
<1>10. CASE s[1].name = r
  <2>1. Amount(s, r) = s[1].n
    BY <1>3, <1>6, <1>10
  <2>2. \A i \in DOMAIN t : t[i].name # r
    BY <1>3, <1>4, <1>10
  <2>3. QED
    BY <1>1, <1>3, <1>5, <1>9, <1>10, <2>1, <2>2 DEF t
<1>11. CASE s[1].name # r /\ \E i \in DOMAIN s : s[i].name = r
  <2>1. PICK i \in DOMAIN s : s[i].name = r
    BY <1>11
  <2>2. i # 1 /\ i \in Nat /\ i - 1 \in DOMAIN t /\ i - 1 + 1 = i
    BY <1>1, <1>11, <2>1
  <2>3. t[i - 1] = s[i]
    BY <1>4, <2>2
  <2>4. Amount(s, r) = s[i].n /\ Amount(t, r) = s[i].n /\ s[i].n \in Nat
    BY <1>2, <1>6, <1>8, <2>1, <2>2, <2>3 DEF GaugeLine
  <2>5. QED
    BY <1>1, <1>3, <1>5, <1>11, <2>4 DEF t
<1>12. CASE \A i \in DOMAIN s : s[i].name # r
  <2>1. \A i \in DOMAIN t : t[i].name # r
    BY <1>4, <1>12
  <2>2. QED
    BY <1>1, <1>3, <1>5, <1>7, <1>9, <1>12, <2>1 DEF t
<1>13. QED
  BY <1>10, <1>11, <1>12

\* Emitting the gauges of a list moves the first one from the list to the file.
LEMMA EmitKeeps ==
    ASSUME NodeInv, NEW lines \in Seq(GaugeLine), Emit(lines),
           \A i, j \in DOMAIN lines : lines[i].name = lines[j].name => i = j,
           UNCHANGED <<bootVars, proxyVars, logQ, dropped, totals>>,
           lastBytes' \in [RowSet -> Nat],
           \A r \in RowSet : lastBytes'[r] <= totals[r],
           \A r \in RowSet : logged[r] + Amount(lines, r) = lastBytes'[r]
    PROVE  NodeInv'
<1>1. logged \in [Conns \cup RowSet -> Nat]
  BY DEF NodeInv, LogTypes
<1>2. \A r \in RowSet : r \notin Conns
  BY RowsDistinct DEF RowSet
<1>3. CASE lines = <<>>
  <2>1. writer' = [at |-> "select", todo |-> <<>>] /\ logged' = logged
    BY <1>3 DEF Emit
  <2>2. writer'.todo = <<>> /\ DOMAIN <<>> = {} /\ <<>> \in Seq(GaugeLine)
    BY <2>1
  <2>3. LogTypes' /\ TodoOnce'
    BY <2>1, <2>2 DEF NodeInv, LogTypes, TodoOnce
  <2>4. Served' /\ QueueFresh' /\ LoggedOnce' /\ Recorded'
    BY <2>1 DEF NodeInv, Served, QueueFresh, LoggedOnce, Recorded, DoneConns, WrittenConns, bootVars, proxyVars
  <2>5. \A r \in RowSet : logged'[r] + Amount(writer'.todo, r) = lastBytes'[r]
    BY <1>3, <2>1, <2>2
  <2>6. GaugesAddUp'
    BY <2>5 DEF GaugesAddUp, Amount
  <2>7. QED
    BY <2>3, <2>4, <2>6 DEF NodeInv
<1>4. CASE lines # <<>>
  <2> DEFINE line == lines[1]
  <2>1. /\ Head(lines) = line /\ line.name \in RowSet /\ line.n \in Nat
        /\ Tail(lines) \in Seq(GaugeLine)
        /\ \A i, j \in DOMAIN Tail(lines) : Tail(lines)[i].name = Tail(lines)[j].name => i = j
    <3>1. \E r : r \in RowSet
      <4>1. lines[1] \in GaugeLine
        BY <1>4, HeadTailProperties
      <4>2. QED
        BY <4>1 DEF GaugeLine
    <3>2. QED
      BY <1>4, <3>1, AmountTail
  <2>2. \A r \in RowSet : /\ Amount(Tail(lines), r) \in Nat
                           /\ Amount(lines, r) = Amount(Tail(lines), r) + (IF line.name = r THEN line.n ELSE 0)
    BY <1>4, AmountTail
  <2> HIDE DEF line
  <2>3. logged' = [logged EXCEPT ![line.name] = @ + line.n]
    BY <1>4, <2>1 DEF Emit
  <2>4. writer'.todo = Tail(lines) /\ writer'.at # "select"
    BY <1>4 DEF Emit
  <2>5. logged[line.name] \in Nat
    BY <1>1, <2>1
  <2>6. /\ logged' \in [Conns \cup RowSet -> Nat]
        /\ \A x \in Conns \cup RowSet : logged'[x] = IF x = line.name THEN logged[x] + line.n ELSE logged[x]
    BY <1>1, <2>1, <2>3, <2>5
  <2>7. \A c \in Conns : logged'[c] = logged[c]
    BY <1>2, <2>1, <2>6
  <2>8. LogTypes' /\ TodoOnce'
    BY <2>1, <2>4, <2>6 DEF NodeInv, LogTypes, TodoOnce
  <2>9. Served' /\ LoggedOnce'
    BY <2>7 DEF NodeInv, Served, LoggedOnce, bootVars, proxyVars
  <2>10. QueueFresh'
    BY <2>7, QueueNames DEF NodeInv, QueueFresh, proxyVars
  <2>11. WrittenConns' = WrittenConns /\ DoneConns' = DoneConns
    BY <2>7 DEF WrittenConns, DoneConns, proxyVars
  <2>12. Recorded'
    BY <2>11 DEF NodeInv, Recorded, bootVars
  <2>13. ASSUME NEW r \in RowSet
         PROVE  logged'[r] + Amount(writer'.todo, r) = lastBytes'[r]
    <3>1. logged[r] \in Nat /\ logged[r] + Amount(lines, r) = lastBytes'[r]
      BY <1>1
    <3>2. CASE line.name = r
      BY <2>1, <2>2, <2>4, <2>6, <3>1, <3>2
    <3>3. CASE line.name # r
      BY <2>1, <2>2, <2>4, <2>6, <3>1, <3>3
    <3>4. QED
      BY <3>2, <3>3
  <2>14. GaugesAddUp'
    BY <2>13 DEF GaugesAddUp, Amount
  <2>15. QED
    BY <2>8, <2>9, <2>10, <2>12, <2>14 DEF NodeInv
<1>5. QED
  BY <1>3, <1>4

LEMMA WriterRecvKeeps ==
    ASSUME NodeInv, WriterRecv, UNCHANGED <<bootVars, proxyVars>>
    PROVE  NodeInv'
<1> DEFINE x == logQ[1].name
<1>1. LogTypes /\ QueueFresh /\ LoggedOnce /\ TodoOnce
  BY DEF NodeInv
<1>2. logQ \in Seq(RecordLine) /\ logQ # <<>>
  BY <1>1 DEF WriterRecv, LogTypes
<1>3. /\ Len(logQ) \in Nat /\ Len(logQ) >= 1 /\ DOMAIN logQ = 1 .. Len(logQ) /\ Head(logQ) = logQ[1]
      /\ logQ' \in Seq(RecordLine) /\ Len(logQ') = Len(logQ) - 1 /\ DOMAIN logQ' = 1 .. Len(logQ) - 1
      /\ \A i \in 1 .. Len(logQ) - 1 : logQ'[i] = logQ[i + 1]
  BY <1>2, HeadTailProperties DEF WriterRecv
<1>4. 1 \in DOMAIN logQ /\ x \in Conns /\ logQ[1].n = 1
  BY <1>1, <1>3, QueueNames
<1>5. conn[x].stage = "done" /\ logged[x] = 0
  BY <1>1, <1>4 DEF QueueFresh
<1>6. \A i \in DOMAIN logQ' : i + 1 \in DOMAIN logQ /\ i + 1 # 1 /\ logQ'[i] = logQ[i + 1]
  BY <1>3
<1>7. \A i \in DOMAIN logQ' : logQ'[i].name \in Conns /\ logQ'[i].name # x
  BY <1>1, <1>4, <1>6, QueueNames DEF QueueFresh
<1> HIDE DEF x
<1>8. logged' = [logged EXCEPT ![x] = @ + 1] /\ writer'.todo = Tail(<<logQ[1]>>) /\ writer'.at # "select"
  <2>1. Emit(<<logQ[1]>>)
    BY <1>3 DEF WriterRecv
  <2>2. <<logQ[1]>> # <<>> /\ Head(<<logQ[1]>>) = logQ[1]
    OBVIOUS
  <2>3. QED
    BY <1>4, <2>1, <2>2 DEF Emit, x
<1>9. writer'.todo = <<>> /\ writer.todo = <<>>
  BY <1>1, <1>8 DEF TodoOnce, WriterRecv
<1>10. \A r \in RowSet : r \notin Conns
  BY RowsDistinct DEF RowSet
<1>11. /\ logged' \in [Conns \cup RowSet -> Nat]
       /\ \A y \in Conns \cup RowSet : logged'[y] = IF y = x THEN 1 ELSE logged[y]
  BY <1>1, <1>4, <1>5, <1>8 DEF LogTypes
<1>12. <<>> \in Seq(GaugeLine) /\ DOMAIN <<>> = {}
  OBVIOUS
<1>13. LogTypes' /\ TodoOnce'
  BY <1>1, <1>3, <1>8, <1>9, <1>11, <1>12 DEF LogTypes, TodoOnce, WriterRecv
<1>14. Served'
  BY DEF NodeInv, Served, bootVars, proxyVars
<1>15. LoggedOnce'
  BY <1>1, <1>4, <1>5, <1>11 DEF LoggedOnce, proxyVars
<1>16. QueueFresh'
  <2>1. ASSUME NEW i \in DOMAIN logQ' PROVE conn'[logQ'[i].name].stage = "done" /\ logged'[logQ'[i].name] = 0
    BY <1>1, <1>6, <1>7, <1>11 DEF QueueFresh, proxyVars
  <2>2. ASSUME NEW i \in DOMAIN logQ', NEW j \in DOMAIN logQ', logQ'[i].name = logQ'[j].name
        PROVE  i = j
    <3>1. i + 1 = j + 1
      BY <1>1, <1>6, <2>2 DEF QueueFresh
    <3>2. i \in Nat /\ j \in Nat
      BY <1>3
    <3>3. QED
      BY <3>1, <3>2
  <2>3. QED
    BY <2>1, <2>2 DEF QueueFresh
<1>17. Recorded'
  <2>1. WrittenConns' = WrittenConns \cup {x} /\ x \notin WrittenConns /\ DoneConns' = DoneConns
    BY <1>4, <1>5, <1>11 DEF WrittenConns, DoneConns, proxyVars
  <2>2. Cardinality(WrittenConns') = Cardinality(WrittenConns) + 1
    BY <2>1, CountsFinite, FS_AddElement
  <2>3. dropped' = dropped /\ dropped \in Nat /\ boot' = boot
    BY <1>1 DEF WriterRecv, LogTypes, bootVars
  <2>4. QED
    BY <1>3, <2>1, <2>2, <2>3, CountsFinite DEF NodeInv, Recorded
<1>18. GaugesAddUp'
  <2>1. ASSUME NEW r \in RowSet PROVE logged'[r] = logged[r]
    BY <1>4, <1>10, <1>11
  <2>2. lastBytes' = lastBytes /\ writer'.todo = writer.todo
    BY <1>9 DEF WriterRecv
  <2>3. QED
    BY <2>1, <2>2 DEF NodeInv, GaugesAddUp
<1>19. QED
  BY <1>13, <1>14, <1>15, <1>16, <1>17, <1>18 DEF NodeInv

\* The lines of a tick.
LEMMA GaugesOfRows ==
    ASSUME LogTypes
    PROVE  [i \in DOMAIN Rows |-> Gauge(Rows[i])] \in Seq(GaugeLine)
<1>1. DOMAIN Rows = 1 .. Len(Rows) /\ Len(Rows) \in Nat /\ \A i \in DOMAIN Rows : Rows[i] \in RowSet
  BY RowsDistinct DEF RowSet
<1>2. \A r \in RowSet : totals[r] \in Nat /\ lastBytes[r] \in Nat
  BY DEF LogTypes
<1>3. \A r \in RowSet : Gauge(r) \in GaugeLine
  BY <1>2 DEF Gauge, GaugeLine, bytes_delta_since
<1>4. [i \in DOMAIN Rows |-> Gauge(Rows[i])] \in [1 .. Len(Rows) -> GaugeLine]
  BY <1>1, <1>3
<1>5. QED
  BY <1>1, <1>4, SeqDef

LEMMA StatsTickKeeps ==
    ASSUME NodeInv, StatsTick, UNCHANGED <<bootVars, proxyVars>>
    PROVE  NodeInv'
<1> DEFINE lines == [i \in DOMAIN Rows |-> Gauge(Rows[i])]
<1>1. LogTypes /\ TodoOnce
  BY DEF NodeInv
<1>2. DOMAIN Rows = 1 .. Len(Rows) /\ Len(Rows) \in Nat /\ \A i \in DOMAIN Rows : Rows[i] \in RowSet
  BY RowsDistinct DEF RowSet
<1>3. \A r \in RowSet : /\ totals[r] \in Nat /\ lastBytes[r] \in Nat /\ lastBytes[r] <= totals[r]
                         /\ logged[r] \in Nat
  BY <1>1 DEF LogTypes
<1>4. \A r \in RowSet : bytes_delta_since(r) \in Nat /\ lastBytes[r] + bytes_delta_since(r) = totals[r]
  BY <1>3 DEF bytes_delta_since
<1>5. \A r \in RowSet : Gauge(r) \in GaugeLine /\ Gauge(r).name = r /\ Gauge(r).n = bytes_delta_since(r)
  BY <1>4 DEF Gauge, GaugeLine
<1>6. lines \in Seq(GaugeLine)
  BY <1>1, GaugesOfRows
<1>7. \A i \in DOMAIN lines : /\ i \in DOMAIN Rows /\ lines[i].name = Rows[i]
                               /\ lines[i].n = bytes_delta_since(Rows[i])
  BY <1>2, <1>5
<1> HIDE DEF lines
<1>8. \A i, j \in DOMAIN lines : lines[i].name = lines[j].name => i = j
  BY <1>7, RowsDistinct
<1>9. ASSUME NEW r \in RowSet PROVE Amount(lines, r) = bytes_delta_since(r)
  <2>1. PICK i \in DOMAIN Rows : Rows[i] = r
    BY DEF RowSet
  <2>2. i \in DOMAIN lines /\ lines[i].name = r /\ lines[i].n = bytes_delta_since(r)
    BY <1>7, <2>1 DEF lines
  <2>3. QED
    BY <1>8, <2>2, GaugeAhead DEF Amount
<1>10. writer.todo = <<>>
  BY <1>1 DEF TodoOnce, StatsTick
<1>11. ASSUME NEW r \in RowSet PROVE logged[r] = lastBytes[r]
  <2>1. DOMAIN writer.todo = {}
    BY <1>10
  <2>2. Amount(writer.todo, r) = 0
    BY <2>1 DEF Amount
  <2>3. logged[r] + Amount(writer.todo, r) = lastBytes[r]
    BY GaugesByAmount DEF NodeInv
  <2>4. QED
    BY <1>3, <2>2, <2>3
<1>12. Emit(lines) /\ lastBytes' = totals /\ UNCHANGED <<logQ, dropped, totals>>
  BY DEF StatsTick, lines
<1>13. totals \in [RowSet -> Nat] /\ \A r \in RowSet : totals[r] <= totals[r]
  BY <1>1, <1>3 DEF LogTypes
<1>14. \A r \in RowSet : logged[r] + Amount(lines, r) = totals[r]
  BY <1>4, <1>9, <1>11
<1>15. QED
  BY <1>6, <1>8, <1>12, <1>13, <1>14, EmitKeeps

LEMMA WriterKeeps ==
    ASSUME NodeInv, Writer, UNCHANGED <<bootVars, proxyVars>>
    PROVE  NodeInv'
<1>1. CASE NextLine
  <2>1. Emit(writer.todo) /\ UNCHANGED <<logQ, dropped, totals, lastBytes>>
    BY <1>1 DEF NextLine
  <2>2. /\ writer.todo \in Seq(GaugeLine) /\ lastBytes \in [RowSet -> Nat]
        /\ \A r \in RowSet : lastBytes[r] <= totals[r]
        /\ \A i, j \in DOMAIN writer.todo : writer.todo[i].name = writer.todo[j].name => i = j
    BY DEF NodeInv, LogTypes, TodoOnce
  <2>3. \A r \in RowSet : logged[r] + Amount(writer.todo, r) = lastBytes[r]
    BY GaugesByAmount DEF NodeInv
  <2>4. QED
    BY <2>1, <2>2, <2>3, EmitKeeps
<1>2. CASE DropCheckTick
  BY <1>2, SinkKeeps DEF DropCheckTick, NodeInv, TodoOnce
<1>3. CASE SinkSent \/ SinkFailed \/ SinkTimeout \/ \E ok \in BOOLEAN : SinkOpen(ok)
  <2>1. PICK at : writer' = [writer EXCEPT !.at = at] /\ at # "select"
    BY <1>3 DEF SinkSent, SinkFailed, SinkTimeout, SinkOpen
  <2>2. writer'.todo = writer.todo /\ writer'.at # "select"
    BY <2>1
  <2>3. QED
    BY <1>3, <2>2, SinkKeeps DEF SinkSent, SinkFailed, SinkTimeout, SinkOpen
<1>4. CASE \E ok \in BOOLEAN : AppenderWrite(ok)
  <2>1. UNCHANGED <<logQ, dropped, totals, lastBytes, logged, writer>>
    BY <1>4 DEF AppenderWrite
  <2>2. writer'.todo = writer.todo /\ (writer'.at = "select" => writer.todo = <<>>)
    BY <2>1 DEF NodeInv, TodoOnce
  <2>3. QED
    BY <2>1, <2>2, SinkKeeps
<1>5. QED
  BY <1>1, <1>2, <1>3, <1>4, WriterRecvKeeps, StatsTickKeeps DEF Writer

-------------------------------------------------------------------------------

LEMMA NodeInvInit == NodeInit => NodeInv
<1> SUFFICES ASSUME NodeInit PROVE NodeInv
  OBVIOUS
<1>1. DOMAIN <<>> = {} /\ Len(<<>>) = 0 /\ <<>> \in Seq(RecordLine) /\ <<>> \in Seq(GaugeLine)
  OBVIOUS
<1>2. \A c \in Conns : DOMAIN conn[c] = ConnFields /\ conn[c].stage = "none"
  BY DEF NodeInit, NoConn, ConnFields
<1>3. Served
  BY <1>2 DEF NodeInit, Served, Behind
<1>4. LogTypes /\ QueueFresh /\ LoggedOnce /\ TodoOnce
  BY <1>1 DEF NodeInit, LogInit, LogTypes, QueueFresh, LoggedOnce, TodoOnce
<1>5. DoneConns = {} /\ WrittenConns = {}
  BY <1>2 DEF DoneConns, WrittenConns, NodeInit, LogInit
<1>6. Recorded
  BY <1>1, <1>5, FS_EmptySet DEF Recorded, NodeInit, LogInit
<1>7. GaugesAddUp
  BY <1>1 DEF GaugesAddUp, NodeInit, LogInit
<1>8. QED
  BY <1>3, <1>4, <1>6, <1>7 DEF NodeInv

LEMMA NodeInvNext == NodeInv /\ [NodeNext]_nodeVars => NodeInv'
<1> SUFFICES ASSUME NodeInv, [NodeNext]_nodeVars PROVE NodeInv'
  OBVIOUS
<1>1. CASE DoctorService
  BY <1>1, DoctorKeeps
     DEF DoctorService, LoopConnAck, LoopSubscribed, LoopSend, LoopError, LoopDeliver, Plan, Probe, Publish, Still
<1>2. CASE UNCHANGED nodeVars
  BY <1>2, DoctorKeeps DEF nodeVars
<1>3. QED
  BY <1>1, <1>2, ProxyKeeps, WriterKeeps DEF NodeNext

LEMMA NodeAlways == NodeSpec => []NodeInv
  BY NodeInvInit, NodeInvNext, PTL DEF NodeSpec

\* A stand-alone hop lets a connection through only for a user and a password that its
\* operator gave it on the command line or in the environment, whatever the command line
\* (credentials_with_env of rove-hop.rs, credentials_ok of proxy/mod.rs).
THEOREM OnlyOperatorCredentials == NodeSpec => []Admitted
<1>1. NodeInv => Admitted
  <2> SUFFICES ASSUME NodeInv, NEW c \in Conns, conn[c].stage \in {"dialing", "replying", "tunnel"}
               PROVE  LET a == parse(command.args) e == command.env
                      IN  /\ conn[c].presented[1] \in {a.username, e.username} \ {None, ""}
                          /\ conn[c].presented[2] \in {a.password, e.password} \ {None, ""}
    BY DEF Admitted
  <2>1. /\ boot = Boot(command.args, command.env) /\ boot.up /\ boot.listeners # <<>>
        /\ conn[c].presented = boot.credentials
    BY DEF NodeInv, Served, Behind
  <2> DEFINE b == Boot(command.args, command.env)
             a == parse(command.args)
  <2>2. b.up /\ b.listeners # <<>>
    BY <2>1
  <2>3. /\ b.credentials[1] \in {a.username, command.env.username} \ {None, ""}
        /\ b.credentials[2] \in {a.password, command.env.password} \ {None, ""}
    BY <2>2, OperatorCredentials
  <2>4. b.credentials = conn[c].presented
    BY <2>1
  <2> HIDE DEF b
  <2>5. QED
    BY <2>3, <2>4
<1>2. QED
  BY <1>1, NodeAlways, PTL

-------------------------------------------------------------------------------
(* The appender of the file *)

FileLine == [name : Conns \cup RowSet, n : Nat]

\* A record is queued once by the appender, and what it got is in one place.
FileInv ==
    /\ appendQ \in Seq(FileLine) /\ onDisk \in [Conns -> Nat] /\ givenUp \subseteq Conns
    /\ \A i, j \in DOMAIN appendQ :
         appendQ[i].name \in Conns /\ appendQ[i].name = appendQ[j].name => i = j
    /\ \A c \in Conns : InOnePlace(c)

\* A step that hands the appender nothing and leaves it alone.
LEMMA FileStays ==
    ASSUME FileInv, UNCHANGED fileVars, \A c \in Conns : logged'[c] = logged[c]
    PROVE  FileInv'
  BY DEF FileInv, InOnePlace, Appending, fileVars

\* A line handed to the appender: a record for the first time, or a gauge.
LEMMA AppendKeeps ==
    ASSUME FileInv, NEW line \in FileLine, AppendLine(line),
           \A c \in Conns : logged[c] \in {0, 1},
           line.name \in Conns => logged[line.name] = 0,
           \A c \in Conns : logged'[c] = IF c = line.name THEN 1 ELSE logged[c]
    PROVE  FileInv'
<1>1. appendQ \in Seq(FileLine) /\ onDisk \in [Conns -> Nat] /\ givenUp \subseteq Conns
  BY DEF FileInv
<1>2. CASE Len(appendQ) < AppendCap
  <2>1. appendQ' = Append(appendQ, line) /\ onDisk' = onDisk /\ givenUp' = givenUp
    BY <1>2 DEF AppendLine
  <2>2. /\ Len(appendQ) \in Nat /\ DOMAIN appendQ = 1 .. Len(appendQ)
        /\ appendQ' \in Seq(FileLine) /\ DOMAIN appendQ' = 1 .. Len(appendQ) + 1
        /\ \A i \in 1 .. Len(appendQ) : appendQ'[i] = appendQ[i]
        /\ appendQ'[Len(appendQ) + 1] = line
    BY <1>1, <2>1
  <2>3. /\ \A i \in DOMAIN appendQ' : i \in DOMAIN appendQ \/ i = Len(appendQ) + 1
        /\ \A i \in DOMAIN appendQ : i \in DOMAIN appendQ' /\ appendQ'[i] = appendQ[i]
        /\ Len(appendQ) + 1 \in DOMAIN appendQ'
    BY <2>2
  <2>4. \A c \in Conns : Appending(c)' <=> Appending(c) \/ c = line.name
    BY <2>2, <2>3 DEF Appending
  <2>5. line.name \in Conns => ~Appending(line.name)
    BY DEF FileInv, InOnePlace
  <2>6. \A c \in Conns : InOnePlace(c)'
    <3>1. ASSUME NEW c \in Conns, c = line.name PROVE InOnePlace(c)'
      BY <2>1, <2>4, <3>1 DEF FileInv, InOnePlace
    <3>2. ASSUME NEW c \in Conns, c # line.name PROVE InOnePlace(c)'
      BY <2>1, <2>4, <3>2 DEF FileInv, InOnePlace
    <3>3. QED
      BY <3>1, <3>2
  <2>7. ASSUME NEW i \in DOMAIN appendQ', NEW j \in DOMAIN appendQ',
               appendQ'[i].name \in Conns, appendQ'[i].name = appendQ'[j].name
        PROVE  i = j
    BY <2>2, <2>3, <2>5, <2>7 DEF FileInv, Appending
  <2>8. QED
    BY <1>1, <2>1, <2>2, <2>6, <2>7 DEF FileInv
<1>3. CASE ~(Len(appendQ) < AppendCap)
  <2>1. givenUp' = givenUp \cup ({line.name} \cap Conns) /\ appendQ' = appendQ /\ onDisk' = onDisk
    BY <1>3 DEF AppendLine, GiveUp
  <2>2. \A c \in Conns : Appending(c)' <=> Appending(c)
    BY <2>1 DEF Appending
  <2>3. \A c \in Conns : InOnePlace(c)'
    <3>1. ASSUME NEW c \in Conns, c = line.name PROVE InOnePlace(c)'
      BY <2>1, <2>2, <3>1 DEF FileInv, InOnePlace
    <3>2. ASSUME NEW c \in Conns, c # line.name PROVE InOnePlace(c)'
      BY <2>1, <2>2, <3>2 DEF FileInv, InOnePlace
    <3>3. QED
      BY <3>1, <3>2
  <2>4. QED
    BY <1>1, <2>1, <2>3 DEF FileInv
<1>4. QED
  BY <1>2, <1>3

\* The appender's thread takes a line out of its queue, for the file or for nothing.
LEMMA AppenderKeeps ==
    ASSUME FileInv, \A c \in Conns : logged[c] \in {0, 1}, NEW ok \in BOOLEAN, AppenderWrite(ok)
    PROVE  FileInv'
<1> DEFINE x == appendQ[1].name
<1>1. appendQ \in Seq(FileLine) /\ appendQ # <<>> /\ onDisk \in [Conns -> Nat] /\ givenUp \subseteq Conns
  BY DEF FileInv, AppenderWrite
<1>2. /\ Len(appendQ) \in Nat /\ Len(appendQ) >= 1 /\ DOMAIN appendQ = 1 .. Len(appendQ)
      /\ Head(appendQ) = appendQ[1]
      /\ appendQ' \in Seq(FileLine) /\ DOMAIN appendQ' = 1 .. Len(appendQ) - 1
      /\ \A i \in 1 .. Len(appendQ) - 1 : appendQ'[i] = appendQ[i + 1]
  BY <1>1, HeadTailProperties DEF AppenderWrite
<1>3. /\ 1 \in DOMAIN appendQ
      /\ \A i \in DOMAIN appendQ' : i + 1 \in DOMAIN appendQ /\ i + 1 # 1 /\ appendQ'[i] = appendQ[i + 1]
      /\ \A i \in DOMAIN appendQ : i = 1 \/ (i - 1 \in DOMAIN appendQ' /\ appendQ'[i - 1] = appendQ[i])
  BY <1>2
<1>4. ASSUME NEW c \in Conns PROVE Appending(c)' <=> Appending(c) /\ c # x
  <2>1. ASSUME NEW i \in DOMAIN appendQ', appendQ'[i].name = c PROVE Appending(c) /\ c # x
    BY <1>3, <2>1 DEF FileInv, Appending
  <2>2. ASSUME NEW i \in DOMAIN appendQ, appendQ[i].name = c, c # x PROVE Appending(c)'
    BY <1>3, <2>2 DEF Appending
  <2>3. QED
    BY <2>1, <2>2 DEF Appending
<1>5. x \in Conns => Appending(x)
  BY <1>3 DEF Appending
<1>6. logged' = logged
  BY DEF AppenderWrite
<1>7. /\ \A c \in Conns \ {x} : onDisk'[c] = onDisk[c] /\ (c \in givenUp' <=> c \in givenUp)
      /\ x \in Conns => \/ onDisk'[x] = onDisk[x] + 1 /\ (x \in givenUp' <=> x \in givenUp)
                        \/ onDisk'[x] = onDisk[x] /\ x \in givenUp'
      /\ onDisk' \in [Conns -> Nat] /\ givenUp' \subseteq Conns
  <2>1. CASE ok
    <3>1. onDisk' = [c \in Conns |-> IF c = x THEN onDisk[c] + 1 ELSE onDisk[c]] /\ givenUp' = givenUp
      BY <1>2, <2>1 DEF AppenderWrite
    <3> HIDE DEF x
    <3>2. QED
      BY <1>1, <3>1
  <2>2. CASE ~ok
    <3>1. givenUp' = givenUp \cup ({x} \cap Conns) /\ onDisk' = onDisk
      BY <1>2, <2>2 DEF AppenderWrite, GiveUp
    <3> HIDE DEF x
    <3>2. QED
      BY <1>1, <3>1
  <2>3. QED
    BY <2>1, <2>2
<1> HIDE DEF x
<1>8. ASSUME NEW c \in Conns PROVE InOnePlace(c)'
  <2>1. InOnePlace(c) /\ logged[c] \in {0, 1} /\ logged'[c] = logged[c]
    BY <1>6 DEF FileInv
  <2>2. CASE c = x
    <3>1. Appending(c) /\ ~Appending(c)' /\ logged[c] = 1 /\ onDisk[c] = 0 /\ c \notin givenUp
      BY <1>4, <1>5, <2>1, <2>2 DEF InOnePlace
    <3>2. QED
      BY <1>7, <2>1, <2>2, <3>1 DEF InOnePlace
  <2>3. CASE c # x
    BY <1>4, <1>7, <2>1, <2>3 DEF InOnePlace
  <2>4. QED
    BY <2>2, <2>3
<1>9. ASSUME NEW i \in DOMAIN appendQ', NEW j \in DOMAIN appendQ',
             appendQ'[i].name \in Conns, appendQ'[i].name = appendQ'[j].name
      PROVE  i = j
  <2>1. i + 1 = j + 1
    BY <1>3, <1>9 DEF FileInv
  <2>2. i \in Nat /\ j \in Nat
    BY <1>2
  <2>3. QED
    BY <2>1, <2>2
<1>10. QED
  BY <1>2, <1>7, <1>8, <1>9 DEF FileInv

\* The gauges of a tick.
LEMMA EmitGauges ==
    ASSUME NodeInv, FileInv, NEW lines \in Seq(GaugeLine), Emit(lines)
    PROVE  FileInv'
<1>1. CASE lines = <<>>
  BY <1>1, FileStays DEF Emit
<1>2. CASE lines # <<>>
  <2> DEFINE line == lines[1]
  <2>1. Head(lines) = line /\ line \in GaugeLine
    BY <1>2, HeadTailProperties
  <2> HIDE DEF line
  <2>2. line \in FileLine /\ line.name \in RowSet /\ line.name \notin Conns
    BY <2>1, RowsDistinct DEF GaugeLine, FileLine, RowSet
  <2>3. logged' = [logged EXCEPT ![line.name] = @ + line.n] /\ AppendLine(line)
    BY <1>2, <2>1 DEF Emit
  <2>4. \A c \in Conns : logged'[c] = logged[c] /\ logged[c] \in {0, 1} /\ c # line.name
    BY <2>2, <2>3 DEF NodeInv, LogTypes, LoggedOnce
  <2>5. QED
    BY <2>2, <2>3, <2>4, AppendKeeps
<1>3. QED
  BY <1>1, <1>2

\* The record at the head of the channel.
LEMMA EmitRecord ==
    ASSUME NodeInv, FileInv, WriterRecv
    PROVE  FileInv'
<1> DEFINE line == logQ[1]
<1>1. LogTypes /\ QueueFresh /\ LoggedOnce /\ logQ \in Seq(RecordLine) /\ logQ # <<>>
  BY DEF NodeInv, LogTypes, WriterRecv
<1>2. Head(logQ) = line /\ 1 \in DOMAIN logQ /\ line \in RecordLine
  BY <1>1, HeadTailProperties
<1>3. logged[line.name] = 0
  BY <1>1, <1>2 DEF QueueFresh
<1>4. Emit(<<line>>)
  BY <1>2 DEF WriterRecv
<1> HIDE DEF line
<1>5. line.name \in Conns /\ line.n = 1 /\ line \in FileLine
  BY <1>2 DEF RecordLine, FileLine
<1>6. <<line>> # <<>> /\ Head(<<line>>) = line
  OBVIOUS
<1>7. logged' = [logged EXCEPT ![line.name] = @ + line.n] /\ AppendLine(line)
  BY <1>4, <1>6 DEF Emit
<1>8. \A c \in Conns : logged[c] \in {0, 1} /\ logged'[c] = IF c = line.name THEN 1 ELSE logged[c]
  BY <1>1, <1>3, <1>5, <1>7 DEF LogTypes, LoggedOnce
<1>9. QED
  BY <1>3, <1>5, <1>7, <1>8, AppendKeeps

LEMMA WriterKeepsFile ==
    ASSUME NodeInv, FileInv, Writer
    PROVE  FileInv'
<1>1. CASE WriterRecv
  BY <1>1, EmitRecord
<1>2. CASE StatsTick
  <2> DEFINE lines == [i \in DOMAIN Rows |-> Gauge(Rows[i])]
  <2>1. lines \in Seq(GaugeLine)
    BY GaugesOfRows DEF NodeInv
  <2>2. Emit(lines)
    BY <1>2 DEF StatsTick
  <2> HIDE DEF lines
  <2>3. QED
    BY <2>1, <2>2, EmitGauges
<1>3. CASE NextLine
  BY <1>3, EmitGauges DEF NextLine, NodeInv, LogTypes
<1>4. CASE DropCheckTick \/ SinkSent \/ SinkFailed \/ SinkTimeout \/ \E ok \in BOOLEAN : SinkOpen(ok)
  BY <1>4, FileStays DEF DropCheckTick, SinkSent, SinkFailed, SinkTimeout, SinkOpen
<1>5. CASE \E ok \in BOOLEAN : AppenderWrite(ok)
  BY <1>5, AppenderKeeps DEF NodeInv, LoggedOnce
<1>6. QED
  BY <1>1, <1>2, <1>3, <1>4, <1>5 DEF Writer

LEMMA FileInvInit == NodeInit => FileInv
<1> SUFFICES ASSUME NodeInit PROVE FileInv
  OBVIOUS
<1>1. DOMAIN <<>> = {} /\ <<>> \in Seq(FileLine)
  OBVIOUS
<1>2. QED
  BY <1>1 DEF FileInv, InOnePlace, Appending, NodeInit, LogInit

LEMMA FileInvNext == NodeInv /\ FileInv /\ [NodeNext]_nodeVars => FileInv'
<1> SUFFICES ASSUME NodeInv, FileInv, [NodeNext]_nodeVars PROVE FileInv'
  OBVIOUS
<1>1. CASE Proxy
  <2>1. UNCHANGED <<logged, fileVars>>
    BY <1>1 DEF Proxy, Quiet, logVars, Handshake, Vanish, ReadVersionBad, Replied, RefusalSent, Finish,
                Accept, ReadGreeting, ReadRequest, Dialled, ReadAuth, ReadHead, TunnelEnds
  <2>2. QED
    BY <2>1, FileStays
<1>2. CASE DoctorService
  <2>1. UNCHANGED logVars
    BY <1>2 DEF DoctorService, LoopConnAck, LoopSubscribed, LoopSend, LoopError, LoopDeliver, Plan, Probe,
                Publish, Still
  <2>2. QED
    BY <2>1, FileStays DEF logVars
<1>3. CASE UNCHANGED nodeVars
  BY <1>3, FileStays DEF nodeVars, logVars
<1>4. QED
  BY <1>1, <1>2, <1>3, WriterKeepsFile DEF NodeNext

\* The access log accounts for every connection that ended with a record: the record waits in
\* the channel, was counted as dropped or was handed to the file's appender, and there it is
\* queued, in the file once or among what the appender gave up uncounted; and the gauges of the
\* statistics handed over add up, whatever the collector and the file do (AccessLogger and its
\* writer, access_log.rs).
THEOREM LogAlwaysAccounts == NodeSpec => []LogAccounts
<1>1. NodeInv /\ FileInv => LogAccounts
  BY DEF NodeInv, FileInv, LogAccounts, Recorded, DoneConns, WrittenConns, LoggedOnce, At
<1>2. NodeSpec => []FileInv
  BY FileInvInit, FileInvNext, NodeAlways, PTL DEF NodeSpec
<1>3. QED
  BY <1>1, <1>2, NodeAlways, PTL

===============================================================================
