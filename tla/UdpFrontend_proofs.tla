-------------------------- MODULE UdpFrontend_proofs --------------------------
(***************************************************************************)
(* Proofs about the UDP frontends, for every number of users, hosts,       *)
(* associations, uni-streams and relays, and every sequence of policies.   *)
(***************************************************************************)
EXTENDS UdpFrontend, FiniteSetTheorems, TLAPS

\* The decisions a task may have read.
Read == {p[x] : p \in Policy, x \in User \X Host} \cup {None}

Work == [stage : Stage, user : User \cup {None}, host : Host \cup {None},
         key : Key \cup {None}, read : Read, todo : SUBSET Nat,
         relay : Relay \cup {None}, stale : BOOLEAN]

\* The keys a task works for.
KeysOf(t) == IF t = Socks THEN {Socks} ELSE AssocId

\* A task with a packet knows whose it is, and the policy let it pass.
TaskOK(t, w) ==
    /\ w \in Work
    /\ w.stage \in {"insert", "send"} <=> w.relay # None
    /\ w.stage \notin {"idle", "reading"} =>
        w.key \in KeysOf(t) /\ w.user \in User /\ w.host \in Host /\ w.read.type # "block"

\* A task only sends over the relay of its association, unless it was dissociated.
OverTheTable(w) == w.stage = "send" /\ ~w.stale => w.relay = assoc[w.key]

TasksSound ==
    /\ DOMAIN task = Task /\ task = [t \in Task |-> task[t]]
    /\ \A t \in Task : TaskOK(t, task[t]) /\ OverTheTable(task[t])

\* Whoever tears a table down has joined the tasks that could fill it again.
Joined ==
    /\ phase = "over" => \A t \in Tuic : task[t].stage = "idle"
    /\ socks = "over" => task[Socks].stage = "idle"

\* Up to the tear-down, an id's packets went over the relay the table still has.
UsedCurrent ==
    /\ \A a \in AssocId : phase # "over" => used[a] \subseteq {assoc[a]}
    /\ socks # "over" => used[Socks] \subseteq {assoc[Socks]}
    /\ \A k \in Key : \E r \in Relay \cup {None} : used[k] \subseteq {r}

Tables ==
    /\ assoc \in [Key -> Relay \cup {None}]
    /\ pump \in [Relay -> {"none", "running", "aborted"}]
    /\ detached \subseteq Relay
    /\ used \in [Key -> SUBSET Relay]

Scalars ==
    /\ policy \in Policy
    /\ phase \in {"open", "draining", "closed", "over"}
    /\ auth \in User \cup {None}
    /\ socks \in {"open", "closed", "over"}
    /\ swaps \in 0 .. MaxSwaps /\ packets \in 0 .. MaxPackets

IInv == /\ Scalars /\ Tables /\ TasksSound /\ Joined /\ UsedCurrent
        /\ NothingAfterTeardown /\ PerPacketPolicy
-------------------------------------------------------------------------------
LEMMA IInvTable == IInv => TableSound /\ PerPacketPolicy
  <1>1. SUFFICES ASSUME IInv PROVE TableSound
    BY DEF IInv
  <1>2. TypeOK
    BY <1>1 DEF IInv, Scalars, Tables, TasksSound, TaskOK, Work, TypeOK
  <1>3. ASSUME NEW k \in Key PROVE Cardinality(used[k]) <= 1
    <2>1. PICK r : used[k] \subseteq {r}
      BY <1>1, <1>3 DEF IInv, UsedCurrent
    <2>2. used[k] = {} \/ used[k] = {r}
      BY <2>1
    <2>3. Cardinality({}) = 0
      BY FS_EmptySet
    <2>4. Cardinality({r}) = 1
      BY FS_Singleton
    <2>5. QED BY <2>2, <2>3, <2>4
  <1>4. QED BY <1>1, <1>2, <1>3 DEF TableSound, Sticky, IInv

LEMMA IdleOK == \A t \in Task : TaskOK(t, Idle) /\ OverTheTable(Idle) /\ OverTheTable(Idle)'
  BY DEF TaskOK, OverTheTable, Idle, Work, Stage, Read

LEMMA NamesApart ==
    /\ Socks \notin Tuic /\ Datagrams \in Tuic /\ Uni \subseteq Tuic /\ Tuic \subseteq Task
    /\ Socks \in Task /\ Socks \in Key /\ AssocId \subseteq Key /\ Socks \notin AssocId
    /\ None \notin Relay /\ Task = Tuic \cup {Socks}
    /\ \A t \in Task : KeysOf(t) \subseteq Key /\ (t \in Tuic => KeysOf(t) = AssocId)
    /\ KeysOf(Socks) = {Socks}
  BY FrontendAssumption DEF Tuic, Task, Key, KeysOf, Datagrams, Socks

LEMMA IInvInit == Init => IInv
  <1>1. SUFFICES ASSUME Init PROVE IInv
    OBVIOUS
  <1>2. Scalars
    BY <1>1, FrontendAssumption DEF Init, Scalars
  <1>3. Tables
    BY <1>1 DEF Init, Tables
  <1>4. TasksSound
    BY <1>1, IdleOK DEF Init, TasksSound
  <1>5. Joined /\ NothingAfterTeardown /\ PerPacketPolicy
    BY <1>1, NamesApart DEF Init, Joined, NothingAfterTeardown, PerPacketPolicy, Idle
  <1>6. UsedCurrent
    BY <1>1, NamesApart DEF Init, UsedCurrent
  <1>7. QED BY <1>2, <1>3, <1>4, <1>5, <1>6 DEF IInv
-------------------------------------------------------------------------------
(* What a step of one task does *)

\* Only the work of t changes, into w.
Moves(t, w) == task' = [task EXCEPT ![t] = w]

\* The new work fits the task, which may only be busy while its frontend is.
Fits(t, w) ==
    /\ TaskOK(t, w) /\ OverTheTable(w)'
    /\ w.stage = "idle" \/ (IF t = Socks THEN socks # "over" ELSE phase # "over")

LEMMA TaskMoves ==
    ASSUME NEW t \in Task, NEW w, TasksSound, Joined, Moves(t, w), Fits(t, w),
           UNCHANGED <<phase, socks>>,
           \A u \in Task : u # t => OverTheTable(task[u])'
    PROVE  TasksSound' /\ Joined'
  <1>1. /\ DOMAIN task' = Task /\ task' = [u \in Task |-> task'[u]]
        /\ task'[t] = w /\ \A u \in Task : u # t => task'[u] = task[u]
    BY DEF Moves, TasksSound
  <1>2. \A u \in Task : TaskOK(u, task'[u])
    BY <1>1 DEF Fits, TasksSound
  <1>3. \A u \in Task : OverTheTable(task[u])'
    BY <1>1 DEF Fits, OverTheTable
  <1>4. Joined'
    BY <1>1, NamesApart DEF Joined, Fits
  <1>5. QED BY <1>1, <1>2, <1>3, <1>4 DEF TasksSound, TaskOK

\* A step of a task that touches neither table nor history.
LEMMA TaskOnly ==
    ASSUME IInv, NEW t \in Task, NEW w, Moves(t, w), TaskOK(t, w), OverTheTable(w),
           w.stage = "idle" \/ (IF t = Socks THEN socks # "over" ELSE phase # "over"),
           UNCHANGED <<policy, phase, auth, assoc, pump, socks, swaps, used, sent>>,
           packets' \in 0 .. MaxPackets, detached' \subseteq detached
    PROVE  IInv'
  <1>1. Scalars' /\ Tables' /\ UsedCurrent' /\ NothingAfterTeardown' /\ PerPacketPolicy'
    BY DEF IInv, Scalars, Tables, UsedCurrent, NothingAfterTeardown, PerPacketPolicy
  <1>2. OverTheTable(w)' /\ \A u \in Task : u # t => OverTheTable(task[u])'
    <2>1. \A u \in Task : u # t => task'[u] = task[u]
      BY DEF Moves, IInv, TasksSound
    <2>2. QED BY <2>1 DEF IInv, TasksSound, OverTheTable
  <1>3. Fits(t, w)
    BY <1>2 DEF Fits
  <1>4. TasksSound' /\ Joined'
    BY <1>2, <1>3, TaskMoves DEF IInv
  <1>5. QED BY <1>1, <1>4 DEF IInv

\* The part of a busy task that says its frontend still runs.
LEMMA BusyRuns ==
    ASSUME IInv, NEW t \in Task, task[t].stage # "idle"
    PROVE  IF t = Socks THEN socks # "over" ELSE phase # "over"
  BY NamesApart DEF IInv, Joined

LEMMA WorkOf ==
    ASSUME IInv, NEW t \in Task
    PROVE  TaskOK(t, task[t]) /\ OverTheTable(task[t])
  BY DEF IInv, TasksSound

LEMMA OpenUdpKeeps ==
    ASSUME IInv, NEW t \in Task, OpenUdp(t)
    PROVE  IInv'
  <1>1. PICK r \in Relay :
           /\ task' = [task EXCEPT ![t].stage = "insert", ![t].relay = r]
           /\ detached' = detached \ {r}
    BY DEF OpenUdp, Live
  <1>2. PICK w : w = [task[t] EXCEPT !.stage = "insert", !.relay = r]
    OBVIOUS
  <1>3. Moves(t, w)
    BY <1>1, <1>2 DEF Moves
  <1>4. TaskOK(t, w) /\ OverTheTable(w)
    <2>1. r \in Relay /\ r # None
      BY <1>1, NamesApart
    <2>2. task[t].stage = "open" /\ TaskOK(t, task[t])
      BY WorkOf DEF OpenUdp
    <2>3. w \in Work /\ w.stage = "insert" /\ w.relay = r /\ w.key = task[t].key
          /\ w.user = task[t].user /\ w.host = task[t].host /\ w.read = task[t].read
      BY <1>2, <2>1, <2>2 DEF TaskOK, Work, Stage
    <2>4. QED BY <2>1, <2>2, <2>3 DEF TaskOK, OverTheTable
  <1>5. IF t = Socks THEN socks # "over" ELSE phase # "over"
    BY BusyRuns DEF OpenUdp
  <1>6. packets' \in 0 .. MaxPackets
    BY DEF OpenUdp, IInv, Scalars
  <1>7. QED BY <1>1, <1>3, <1>4, <1>5, <1>6, TaskOnly DEF OpenUdp

LEMMA TryNextKeeps ==
    ASSUME IInv, NEW t \in Task, TryNext(t)
    PROVE  IInv'
  <1>1. PICK i : task' = [task EXCEPT ![t].todo = @ \ {i}]
    BY DEF TryNext
  <1>2. PICK w : w = [task[t] EXCEPT !.todo = @ \ {i}]
    OBVIOUS
  <1>3. Moves(t, w)
    BY <1>1, <1>2 DEF Moves
  <1>4. TaskOK(t, w) /\ OverTheTable(w)
    BY <1>2, WorkOf DEF TryNext, TaskOK, OverTheTable, Work
  <1>5. IF t = Socks THEN socks # "over" ELSE phase # "over"
    BY BusyRuns DEF TryNext
  <1>6. packets' \in 0 .. MaxPackets /\ detached' \subseteq detached
    BY DEF TryNext, IInv, Scalars, history
  <1>7. QED BY <1>3, <1>4, <1>5, <1>6, TaskOnly DEF TryNext, history

\* The task gives its packet up.
LEMMA Drops ==
    ASSUME IInv, NEW t \in Task, task' = [task EXCEPT ![t] = Idle],
           UNCHANGED <<policy, phase, auth, assoc, pump, socks, swaps, packets, history>>
    PROVE  IInv'
  <1>1. Moves(t, Idle)
    BY DEF Moves
  <1>2. TaskOK(t, Idle) /\ OverTheTable(Idle) /\ Idle.stage = "idle"
    BY IdleOK DEF Idle
  <1>3. packets' \in 0 .. MaxPackets /\ detached' \subseteq detached
    BY DEF IInv, Scalars, history
  <1>4. QED BY <1>1, <1>2, <1>3, TaskOnly DEF history

LEMMA OpenAssociationKeeps ==
    ASSUME IInv, NEW t \in Task, OpenAssociation(t)
    PROVE  IInv'
  <1>1. TaskOK(t, task[t]) /\ OverTheTable(task[t])
    BY WorkOf
  <1>2. <<task[t].user, task[t].host>> \in User \X Host /\ policy \in Policy
    BY <1>1 DEF OpenAssociation, TaskOK, IInv, Scalars
  <1>3. PICK c : c = Candidates(policy[<<task[t].user, task[t].host>>])
    OBVIOUS
  <1>4. c \subseteq Nat
    BY <1>2, <1>3, FrontendAssumption DEF Candidates, IsDecision
  <1>5. PICK w : w = [task[t] EXCEPT !.stage = "open", !.todo = c]
    OBVIOUS
  <1>6. Moves(t, w)
    BY <1>3, <1>5 DEF Moves, OpenAssociation
  <1>7. TaskOK(t, w) /\ OverTheTable(w)
    BY <1>1, <1>4, <1>5 DEF OpenAssociation, TaskOK, OverTheTable, Work, Stage
  <1>8. IF t = Socks THEN socks # "over" ELSE phase # "over"
    BY BusyRuns DEF OpenAssociation
  <1>9. packets' \in 0 .. MaxPackets /\ detached' \subseteq detached
    BY DEF OpenAssociation, IInv, Scalars, history
  <1>10. QED BY <1>6, <1>7, <1>8, <1>9, TaskOnly DEF OpenAssociation, history

\* A packet that the policy lets pass: what the task takes on.
Packet(user, h, k) ==
    [Idle EXCEPT !.user = user, !.host = h, !.key = k, !.read = policy[<<user, h>>]]
TakesOn(w, user, h, k) ==
    /\ policy[<<user, h>>].type # "block"
    /\ \/ w = [Packet(user, h, k) EXCEPT !.stage = "decide"]
       \/ w = [Packet(user, h, k) EXCEPT !.stage = "open",
                                         !.todo = Candidates(policy[<<user, h>>])]
       \/ assoc[k] # None /\ w = [Packet(user, h, k) EXCEPT !.stage = "send", !.relay = assoc[k]]

LEMMA Passed ==
    ASSUME IInv, NEW t \in Task, NEW k \in KeysOf(t), NEW user \in User, NEW h \in Host,
           NEW w, TakesOn(w, user, h, k)
    PROVE  TaskOK(t, w) /\ OverTheTable(w)
  <1>1. <<user, h>> \in User \X Host /\ policy \in Policy
    BY DEF IInv, Scalars
  <1>2. Candidates(policy[<<user, h>>]) \subseteq Nat
    BY <1>1, FrontendAssumption DEF Candidates, IsDecision
  <1>3. policy[<<user, h>>] \in Read
    BY <1>1 DEF Read
  <1>4. k \in Key /\ assoc[k] \in Relay \cup {None}
    BY NamesApart DEF IInv, Tables
  <1>5. PICK p : p = Packet(user, h, k)
    OBVIOUS
  <1>6. /\ p \in Work /\ p.user = user /\ p.host = h /\ p.key = k
        /\ p.read = policy[<<user, h>>] /\ p.relay = None
    BY <1>3, <1>4, <1>5 DEF Packet, Idle, Work, Stage
  <1>7. p.read.type # "block"
    BY <1>6 DEF TakesOn
  <1>8. CASE w = [p EXCEPT !.stage = "decide"]
    BY <1>6, <1>7, <1>8 DEF TaskOK, OverTheTable, Work, Stage
  <1>9. CASE w = [p EXCEPT !.stage = "open", !.todo = Candidates(policy[<<user, h>>])]
    BY <1>2, <1>6, <1>7, <1>9 DEF TaskOK, OverTheTable, Work, Stage
  <1>10. CASE assoc[k] # None /\ w = [p EXCEPT !.stage = "send", !.relay = assoc[k]]
    <2>1. /\ w \in Work /\ w.stage = "send" /\ w.relay = assoc[k] /\ w.key = k
          /\ w.user = user /\ w.host = h /\ w.read = p.read
      BY <1>4, <1>6, <1>10 DEF Work, Stage
    <2>2. QED BY <1>7, <1>10, <2>1 DEF TaskOK, OverTheTable
  <1>11. QED BY <1>5, <1>8, <1>9, <1>10 DEF TakesOn

LEMMA UplinkKeeps ==
    ASSUME IInv, NEW t \in Tuic, NEW k \in AssocId, NEW user \in User, NEW h \in Host,
           Uplink(t, user, h, k), phase # "over",
           UNCHANGED <<policy, phase, auth, assoc, pump, socks, swaps, history>>
    PROVE  IInv'
  <1>1. packets' \in 0 .. MaxPackets
    BY FrontendAssumption DEF Uplink, IInv, Scalars
  <1>2. PICK w : Moves(t, w) /\ (w = Idle \/ TakesOn(w, user, h, k))
    BY DEF Uplink, Moves, TakesOn, Packet
  <1>3. t \in Task /\ k \in KeysOf(t) /\ t # Socks
    BY NamesApart
  <1>4. TaskOK(t, w) /\ OverTheTable(w)
    BY <1>2, <1>3, IdleOK, Passed
  <1>5. detached' \subseteq detached /\ used' = used /\ sent' = sent
    BY DEF history
  <1>6. QED BY <1>1, <1>2, <1>3, <1>4, <1>5, TaskOnly

LEMMA SocksPacketKeeps ==
    ASSUME IInv, NEW user \in User, NEW h \in Host, SocksPacket(user, h)
    PROVE  IInv'
  <1>1. packets' \in 0 .. MaxPackets
    BY FrontendAssumption DEF SocksPacket, IInv, Scalars
  <1>2. PICK w : Moves(Socks, w) /\ (w = Idle \/ TakesOn(w, user, h, Socks))
    BY DEF SocksPacket, Moves, TakesOn, Packet
  <1>3. Socks \in Task /\ Socks \in KeysOf(Socks)
    BY NamesApart
  <1>4. TaskOK(Socks, w) /\ OverTheTable(w)
    BY <1>2, <1>3, IdleOK, Passed
  <1>5. /\ detached' \subseteq detached /\ socks # "over"
        /\ UNCHANGED <<policy, phase, auth, assoc, pump, socks, swaps, used, sent>>
    BY DEF SocksPacket, history
  <1>6. QED BY <1>1, <1>2, <1>3, <1>4, <1>5, TaskOnly

LEMMA AcceptUniKeeps ==
    ASSUME IInv, NEW t \in Uni, AcceptUni(t)
    PROVE  IInv'
  <1>1. PICK w : w = [task[t] EXCEPT !.stage = "reading"]
    OBVIOUS
  <1>2. t \in Task /\ t # Socks
    BY NamesApart
  <1>3. Moves(t, w)
    BY <1>1 DEF Moves, AcceptUni
  <1>4. TaskOK(t, w) /\ OverTheTable(w)
    BY <1>1, <1>2, WorkOf DEF AcceptUni, TaskOK, OverTheTable, Work, Stage
  <1>5. packets' \in 0 .. MaxPackets /\ detached' \subseteq detached
    BY DEF AcceptUni, IInv, Scalars, history
  <1>6. QED BY <1>2, <1>3, <1>4, <1>5, TaskOnly DEF AcceptUni, history

\* Nothing but the connection's or the process's own state changes.
LEMMA AuthenticateKeeps ==
    ASSUME IInv, NEW t \in Uni, NEW user \in User, Authenticate(t, user)
    PROVE  IInv'
  <1>1. t \in Task /\ phase # "over" /\ phase' # "over" /\ task' = [task EXCEPT ![t] = Idle]
    BY NamesApart DEF Authenticate
  <1>2. UNCHANGED <<policy, assoc, pump, socks, swaps, packets, detached, used, sent>>
    BY DEF Authenticate, history
  <1>3. Scalars'
    BY <1>2 DEF IInv, Scalars, Authenticate
  <1>4. Tables' /\ UsedCurrent' /\ NothingAfterTeardown' /\ PerPacketPolicy'
    BY <1>1, <1>2 DEF IInv, Tables, UsedCurrent, NothingAfterTeardown, PerPacketPolicy
  <1>5. /\ task' = [u \in Task |-> task'[u]] /\ DOMAIN task' = Task
        /\ task'[t] = Idle /\ \A u \in Task : u # t => task'[u] = task[u]
    BY <1>1 DEF IInv, TasksSound
  <1>6. TasksSound'
    BY <1>2, <1>5, IdleOK DEF IInv, TasksSound, OverTheTable, TaskOK
  <1>7. Joined'
    BY <1>1, <1>2, <1>5, NamesApart DEF IInv, Joined
  <1>8. QED BY <1>3, <1>4, <1>6, <1>7 DEF IInv

\* The handles of an association are dropped; its tasks are marked.
LEMMA DissociateKeeps ==
    ASSUME IInv, NEW t \in Uni, NEW a \in AssocId, Dissociate(t, a)
    PROVE  IInv'
  <1>1. /\ phase # "over" /\ a \in Key /\ a # Socks /\ t \in Task
        /\ UNCHANGED <<policy, phase, auth, socks, swaps, packets, detached, sent>>
        /\ assoc' = [assoc EXCEPT ![a] = None] /\ used' = [used EXCEPT ![a] = {}]
    BY NamesApart DEF Dissociate
  <1>2. Scalars' /\ PerPacketPolicy' /\ NothingAfterTeardown'
    BY <1>1 DEF IInv, Scalars, PerPacketPolicy, NothingAfterTeardown
  <1>3. Tables'
    BY <1>1 DEF IInv, Tables, Dissociate, Drop
  <1>4. /\ assoc'[a] = None /\ \A k \in Key : k # a => assoc'[k] = assoc[k]
        /\ used'[a] = {} /\ \A k \in Key : k # a => used'[k] = used[k]
    BY <1>1 DEF IInv, Tables
  <1>5. UsedCurrent'
    BY <1>1, <1>4, NamesApart DEF IInv, UsedCurrent
  <1>6. ASSUME NEW u \in Task
        PROVE  /\ task'[u].stage \in {task[u].stage, "idle"}
               /\ TaskOK(u, task'[u]) /\ OverTheTable(task[u])'
    <2>1. CASE u = t
      BY <2>1, IdleOK DEF Dissociate, Idle, OverTheTable
    <2>2. CASE u # t
      <3>1. PICK w : w = [task[u] EXCEPT !.stale = @ \/ task[u].key = a]
        OBVIOUS
      <3>2. task'[u] = w
        BY <2>2, <3>1 DEF Dissociate
      <3>3. TaskOK(u, task[u]) /\ OverTheTable(task[u])
        BY WorkOf
      <3>4. /\ w \in Work /\ w.stage = task[u].stage /\ w.relay = task[u].relay
            /\ w.key = task[u].key /\ w.user = task[u].user /\ w.host = task[u].host
            /\ w.read = task[u].read
        BY <3>1, <3>3 DEF TaskOK, Work
      <3>5. w.stale = (task[u].stale \/ task[u].key = a)
        BY <3>1, <3>3 DEF TaskOK, Work
      <3>6. TaskOK(u, w)
        BY <3>3, <3>4 DEF TaskOK
      <3>7. ASSUME w.stage = "send", ~w.stale PROVE w.relay = assoc'[w.key]
        <4>1. ~task[u].stale /\ task[u].key # a
          BY <3>5, <3>7
        <4>2. task[u].key \in Key
          BY <3>3, <3>4, <3>7, NamesApart DEF TaskOK
        <4>3. QED BY <1>4, <3>3, <3>4, <3>7, <4>1, <4>2 DEF OverTheTable
      <3>8. QED BY <3>2, <3>4, <3>6, <3>7 DEF OverTheTable
    <2>3. QED BY <2>1, <2>2
  <1>7. DOMAIN task' = Task /\ task' = [u \in Task |-> task'[u]]
    BY DEF Dissociate
  <1>8. TasksSound'
    BY <1>6, <1>7 DEF TasksSound, TaskOK
  <1>9. Joined'
    BY <1>1, <1>6, NamesApart DEF IInv, Joined
  <1>10. QED BY <1>2, <1>3, <1>5, <1>8, <1>9 DEF IInv

\* Of the tasks that opened a relay for an association one enters it, and all go on
\* with the one that is entered.
LEMMA OpenedKeeps ==
    ASSUME IInv, NEW t \in Task, Opened(t)
    PROVE  IInv'
  <1>1. PICK k, r : k = task[t].key /\ r = task[t].relay
    OBVIOUS
  <1>2. TaskOK(t, task[t]) /\ task[t].stage = "insert"
    BY WorkOf DEF Opened
  <1>3. k \in KeysOf(t) /\ k \in Key /\ r \in Relay /\ r # None
    BY <1>1, <1>2, NamesApart DEF TaskOK, Work
  <1>4. /\ UNCHANGED <<policy, phase, auth, socks, swaps, packets, used, sent>>
        /\ pump' = [pump EXCEPT ![r] = "running"]
    BY <1>1 DEF Opened
  <1>5. Scalars' /\ PerPacketPolicy'
    BY <1>4 DEF IInv, Scalars, PerPacketPolicy
  <1>6. IF t = Socks THEN socks # "over" ELSE phase # "over"
    BY <1>2, BusyRuns
  <1>7. assoc \in [Key -> Relay \cup {None}] /\ used \in [Key -> SUBSET Relay]
    BY DEF IInv, Tables
  <1>8. \E q \in Relay :
           /\ assoc' = [assoc EXCEPT ![k] = q] /\ assoc[k] \in {None, q}
           /\ task' = [task EXCEPT ![t].stage = "send", ![t].relay = q]
           /\ detached' \subseteq detached \cup {r}
    <2>1. CASE assoc[k] = None
      <3>1. task' = [task EXCEPT ![t].stage = "send", ![t].relay = r]
        <4>1. task' = [task EXCEPT ![t].stage = "send"]
          BY <1>1, <2>1 DEF Opened, Insert
        <4>2. task[t] = [task[t] EXCEPT !.relay = r] /\ t \in DOMAIN task
          BY <1>1, <1>2 DEF TaskOK, Work, IInv, TasksSound
        <4>3. [task[t] EXCEPT !.stage = "send"] = [task[t] EXCEPT !.stage = "send", !.relay = r]
          BY <1>1, <1>2 DEF TaskOK, Work
        <4>4. QED BY <4>1, <4>3
      <3>2. QED BY <1>1, <1>3, <2>1, <3>1 DEF Opened, Insert
    <2>2. CASE assoc[k] # None
      <3>1. assoc[k] \in Relay /\ assoc = [assoc EXCEPT ![k] = assoc[k]]
        BY <1>3, <1>7, <2>2
      <3>2. QED BY <1>1, <2>2, <3>1 DEF Opened, Insert
    <2>3. QED BY <2>1, <2>2
  <1>9. PICK q \in Relay :
           /\ assoc' = [assoc EXCEPT ![k] = q] /\ assoc[k] \in {None, q}
           /\ task' = [task EXCEPT ![t].stage = "send", ![t].relay = q]
           /\ detached' \subseteq detached \cup {r}
    BY <1>8
  <1>10. q \in Relay /\ q # None
    BY <1>9, NamesApart
  <1>11. assoc'[k] = q /\ \A j \in Key : j # k => assoc'[j] = assoc[j]
    BY <1>3, <1>7, <1>9
  <1>12. Tables'
    BY <1>3, <1>4, <1>9, <1>10 DEF IInv, Tables
  <1>13. PICK w : w = [task[t] EXCEPT !.stage = "send", !.relay = q]
    OBVIOUS
  <1>14. /\ w \in Work /\ w.stage = "send" /\ w.relay = q /\ w.key = k
         /\ w.user = task[t].user /\ w.host = task[t].host /\ w.read = task[t].read
    BY <1>1, <1>2, <1>10, <1>13 DEF TaskOK, Work, Stage
  <1>15. Moves(t, w)
    BY <1>9, <1>13 DEF Moves
  <1>16. Fits(t, w)
    BY <1>2, <1>6, <1>10, <1>11, <1>14, <1>3 DEF Fits, TaskOK, OverTheTable
  <1>17. ASSUME NEW u \in Task, u # t PROVE OverTheTable(task[u])'
    <2>1. task'[u] = task[u] /\ TaskOK(u, task[u]) /\ OverTheTable(task[u])
      BY <1>15, <1>17, WorkOf DEF Moves, IInv, TasksSound
    <2>2. ASSUME task[u].stage = "send", ~task[u].stale
          PROVE  task[u].relay = assoc'[task[u].key]
      <3>1. task[u].relay = assoc[task[u].key] /\ task[u].relay # None /\ task[u].key \in Key
        BY <2>1, <2>2, NamesApart DEF OverTheTable, TaskOK
      <3>2. CASE task[u].key = k
        BY <1>9, <1>11, <3>1, <3>2
      <3>3. CASE task[u].key # k
        BY <1>11, <3>1, <3>3
      <3>4. QED BY <3>2, <3>3
    <2>3. QED BY <2>1, <2>2 DEF OverTheTable
  <1>18. TasksSound' /\ Joined'
    BY <1>4, <1>15, <1>16, <1>17, TaskMoves DEF IInv
  <1>19. \A j \in Key : used[j] \subseteq {assoc[j]} => used'[j] \subseteq {assoc'[j]}
    <2>1. used[k] \subseteq {assoc[k]} => used[k] \subseteq {q}
      BY <1>3, <1>7, <1>9, NamesApart
    <2>2. QED BY <1>4, <1>11, <2>1
  <1>20. UsedCurrent'
    BY <1>4, <1>19, NamesApart DEF IInv, UsedCurrent
  <1>21. NothingAfterTeardown'
    BY <1>3, <1>4, <1>6, <1>11, NamesApart DEF IInv, NothingAfterTeardown
  <1>22. QED BY <1>5, <1>12, <1>18, <1>20, <1>21 DEF IInv

LEMMA SendToKeeps ==
    ASSUME IInv, NEW t \in Task, SendTo(t)
    PROVE  IInv'
  <1>1. PICK k : k = task[t].key
    OBVIOUS
  <1>2. TaskOK(t, task[t]) /\ OverTheTable(task[t]) /\ task[t].stage = "send"
    BY WorkOf DEF SendTo
  <1>3. /\ k \in KeysOf(t) /\ k \in Key /\ task[t].relay \in Relay
        /\ task[t].read.type # "block" /\ task[t].stale \in BOOLEAN
    BY <1>1, <1>2, NamesApart DEF TaskOK, Work
  <1>4. /\ UNCHANGED <<policy, phase, auth, assoc, pump, socks, swaps, packets, detached>>
        /\ sent' = task[t].read /\ task' = [task EXCEPT ![t] = Idle]
        /\ used' = [used EXCEPT ![k] = IF task[t].stale THEN @ ELSE @ \cup {task[t].relay}]
    BY <1>1 DEF SendTo
  <1>5. Scalars' /\ PerPacketPolicy' /\ NothingAfterTeardown'
    BY <1>3, <1>4 DEF IInv, Scalars, PerPacketPolicy, NothingAfterTeardown
  <1>6. used \in [Key -> SUBSET Relay]
    BY DEF IInv, Tables
  <1>7. /\ used' \in [Key -> SUBSET Relay]
        /\ \A j \in Key : j # k => used'[j] = used[j]
        /\ used'[k] = used[k] \/ (~task[t].stale /\ used'[k] = used[k] \cup {task[t].relay})
    BY <1>3, <1>4, <1>6
  <1>8. Tables'
    BY <1>4, <1>7 DEF IInv, Tables
  <1>9. IF t = Socks THEN socks # "over" ELSE phase # "over"
    BY <1>2, BusyRuns
  <1>10. used[k] \subseteq {assoc[k]}
    BY <1>3, <1>9, NamesApart DEF IInv, UsedCurrent, KeysOf
  <1>11. used'[k] \subseteq {assoc[k]}
    BY <1>1, <1>2, <1>7, <1>10 DEF OverTheTable
  <1>12. assoc[k] \in Relay \cup {None}
    BY <1>3 DEF IInv, Tables
  <1>13. UsedCurrent'
    BY <1>4, <1>7, <1>11, <1>12, NamesApart DEF IInv, UsedCurrent
  <1>14. Moves(t, Idle) /\ Fits(t, Idle)
    BY <1>4, IdleOK DEF Moves, Fits, Idle
  <1>15. \A u \in Task : u # t => OverTheTable(task[u])'
    <2>1. \A u \in Task : u # t => task'[u] = task[u]
      BY <1>4 DEF IInv, TasksSound
    <2>2. QED BY <1>4, <2>1 DEF IInv, TasksSound, OverTheTable
  <1>16. TasksSound' /\ Joined'
    BY <1>4, <1>14, <1>15, TaskMoves DEF IInv
  <1>17. QED BY <1>5, <1>8, <1>13, <1>16 DEF IInv
-------------------------------------------------------------------------------
(* Steps that move no task *)

\* Neither tasks nor tables change, and no frontend is torn down.
LEMMA Aside ==
    ASSUME IInv, UNCHANGED <<task, assoc, detached, used, sent>>, Scalars',
           pump' \in [Relay -> {"none", "running", "aborted"}],
           phase' = "over" <=> phase = "over", socks' = "over" <=> socks = "over"
    PROVE  IInv'
  <1>1. Tables' /\ UsedCurrent' /\ NothingAfterTeardown' /\ PerPacketPolicy' /\ Joined'
    BY DEF IInv, Tables, UsedCurrent, NothingAfterTeardown, PerPacketPolicy, Joined
  <1>2. TasksSound'
    BY DEF IInv, TasksSound, OverTheTable, TaskOK
  <1>3. QED BY <1>1, <1>2 DEF IInv

LEMMA PumpKeeps ==
    ASSUME IInv, NEW r \in Relay, PumpEnds(r) \/ PumpBreaks(r)
    PROVE  IInv'
  <1>1. /\ UNCHANGED <<policy, phase, auth, task, assoc, socks, swaps, packets, detached, used, sent>>
        /\ pump' = [pump EXCEPT ![r] = "none"]
    BY DEF PumpEnds, PumpBreaks, history
  <1>2. pump' \in [Relay -> {"none", "running", "aborted"}]
    BY <1>1 DEF IInv, Tables
  <1>3. Scalars'
    BY <1>1 DEF IInv, Scalars
  <1>4. QED BY <1>1, <1>2, <1>3, Aside

LEMMA OutsideKeeps ==
    ASSUME IInv, Close \/ Shutdown \/ SocksClose \/ (\E p \in Policy : Swap(p))
    PROVE  IInv'
  <1>1. UNCHANGED <<task, assoc, pump, detached, used, sent>>
    BY DEF Close, Shutdown, SocksClose, Swap, history
  <1>2. Scalars' /\ (phase' = "over" <=> phase = "over") /\ (socks' = "over" <=> socks = "over")
    <2>1. Scalars
      BY DEF IInv
    <2>2. CASE Close
      BY <2>1, <2>2 DEF Scalars, Close
    <2>3. CASE Shutdown
      BY <2>1, <2>3 DEF Scalars, Shutdown
    <2>4. CASE SocksClose
      BY <2>1, <2>4 DEF Scalars, SocksClose
    <2>5. CASE \E p \in Policy : Swap(p)
      BY <2>1, <2>5, FrontendAssumption DEF Scalars, Swap
    <2>6. QED BY <2>2, <2>3, <2>4, <2>5
  <1>3. pump' \in [Relay -> {"none", "running", "aborted"}]
    BY <1>1 DEF IInv, Tables
  <1>4. QED BY <1>1, <1>2, <1>3, Aside

LEMMA HandlerEndsKeeps ==
    ASSUME IInv, HandlerEnds
    PROVE  IInv'
  <1>1. /\ phase' = "over" /\ \A t \in Tuic : task[t].stage = "idle"
        /\ assoc' = [k \in Key |-> IF k = Socks THEN assoc[k] ELSE None]
        /\ UNCHANGED <<policy, auth, task, socks, swaps, packets, detached, used, sent>>
    BY DEF HandlerEnds, LoopsJoined, history
  <1>2. Scalars' /\ PerPacketPolicy'
    BY <1>1 DEF IInv, Scalars, PerPacketPolicy
  <1>3. Tables'
    BY <1>1 DEF IInv, Tables, HandlerEnds, Drop
  <1>4. Joined' /\ NothingAfterTeardown'
    BY <1>1, NamesApart DEF IInv, Joined, NothingAfterTeardown
  <1>5. UsedCurrent'
    BY <1>1, NamesApart DEF IInv, UsedCurrent
  <1>6. \A t \in Task : OverTheTable(task[t])'
    <2>1. OverTheTable(task[Socks])'
      <3>1. OverTheTable(task[Socks]) /\ TaskOK(Socks, task[Socks])
        BY WorkOf, NamesApart
      <3>2. task[Socks].stage = "send" => task[Socks].key = Socks
        BY <3>1, NamesApart DEF TaskOK
      <3>3. assoc'[Socks] = assoc[Socks]
        BY <1>1, NamesApart
      <3>4. QED BY <1>1, <3>1, <3>2, <3>3 DEF OverTheTable
    <2>2. \A t \in Tuic : OverTheTable(task[t])'
      BY <1>1 DEF OverTheTable
    <2>3. QED BY <2>1, <2>2, NamesApart
  <1>7. TasksSound'
    BY <1>1, <1>6 DEF IInv, TasksSound, TaskOK
  <1>8. QED BY <1>2, <1>3, <1>4, <1>5, <1>7 DEF IInv

LEMMA SocksEndsKeeps ==
    ASSUME IInv, SocksEnds
    PROVE  IInv'
  <1>1. /\ socks' = "over" /\ task[Socks].stage = "idle"
        /\ assoc' = [assoc EXCEPT ![Socks] = None]
        /\ UNCHANGED <<policy, phase, auth, task, swaps, packets, detached, used, sent>>
    BY DEF SocksEnds, history
  <1>2. Scalars' /\ PerPacketPolicy'
    BY <1>1 DEF IInv, Scalars, PerPacketPolicy
  <1>3. Tables'
    BY <1>1 DEF IInv, Tables, SocksEnds, Drop
  <1>4. \A a \in AssocId : assoc'[a] = assoc[a]
    BY <1>1, NamesApart DEF IInv, Tables
  <1>5. Joined' /\ NothingAfterTeardown'
    BY <1>1, <1>4 DEF IInv, Joined, NothingAfterTeardown
  <1>6. UsedCurrent'
    BY <1>1, <1>4 DEF IInv, UsedCurrent
  <1>7. ASSUME NEW t \in Tuic PROVE OverTheTable(task[t])'
    <2>1. OverTheTable(task[t]) /\ TaskOK(t, task[t]) /\ KeysOf(t) = AssocId
      BY WorkOf, NamesApart
    <2>2. QED BY <1>1, <1>4, <2>1 DEF OverTheTable, TaskOK
  <1>8. OverTheTable(task[Socks])'
    BY <1>1 DEF OverTheTable
  <1>9. TasksSound'
    BY <1>1, <1>7, <1>8, NamesApart DEF IInv, TasksSound, TaskOK
  <1>10. QED BY <1>2, <1>3, <1>5, <1>6, <1>9 DEF IInv
-------------------------------------------------------------------------------

LEMMA IInvNext == IInv /\ [Next]_vars => IInv'
  <1>1. SUFFICES ASSUME IInv, [Next]_vars PROVE IInv'
    OBVIOUS
  <1>2. ASSUME NEW t \in Task, Step(t) PROVE IInv'
    <2>1. CASE Exhausted(t)
      BY <1>1, <2>1, Drops DEF Exhausted
    <2>2. QED BY <1>1, <1>2, <2>1, OpenAssociationKeeps, OpenUdpKeeps, TryNextKeeps, OpenedKeeps,
                 SendToKeeps DEF Step
  <1>3. ASSUME NEW h \in Host, NEW a \in AssocId, Datagram(h, a) PROVE IInv'
    <2>1. /\ Datagrams \in Tuic /\ auth \in User /\ phase # "over"
          /\ Uplink(Datagrams, auth, h, a)
          /\ UNCHANGED <<policy, phase, auth, assoc, pump, socks, swaps, history>>
      BY <1>1, <1>3, NamesApart DEF Datagram, IInv, Scalars
    <2>2. QED BY <1>1, <2>1, UplinkKeeps
  <1>4. ASSUME NEW t \in Uni, NEW h \in Host, NEW a \in AssocId, UniPacket(t, h, a) PROVE IInv'
    <2>1. /\ t \in Tuic /\ auth \in User /\ phase # "over"
          /\ Uplink(t, auth, h, a)
          /\ UNCHANGED <<policy, phase, auth, assoc, pump, socks, swaps, history>>
      BY <1>1, <1>4, NamesApart DEF UniPacket, IInv, Scalars
    <2>2. QED BY <1>1, <2>1, UplinkKeeps
  <1>5. ASSUME NEW t \in Uni, UniFails(t) PROVE IInv'
    <2>1. t \in Task
      BY NamesApart
    <2>2. QED BY <1>1, <1>5, <2>1, Drops DEF UniFails
  <1>6. ASSUME NEW t \in Uni,
               \/ AcceptUni(t) \/ UniFails(t)
               \/ \E u \in User : Authenticate(t, u)
               \/ \E a \in AssocId : Dissociate(t, a) \/ \E h \in Host : UniPacket(t, h, a)
        PROVE  IInv'
    BY <1>1, <1>4, <1>5, <1>6, AcceptUniKeeps, AuthenticateKeeps, DissociateKeeps
  <1>7. CASE UNCHANGED vars
    <2>1. Scalars' /\ UNCHANGED <<task, assoc, detached, used, sent, pump, phase, socks>>
      BY <1>1, <1>7 DEF vars, IInv, Scalars
    <2>2. pump' \in [Relay -> {"none", "running", "aborted"}]
      BY <1>1, <2>1 DEF IInv, Tables
    <2>3. QED BY <1>1, <2>1, <2>2, Aside
  <1>8. CASE Next
    BY <1>1, <1>2, <1>3, <1>6, <1>8, PumpKeeps, OutsideKeeps, HandlerEndsKeeps, SocksPacketKeeps,
       SocksEndsKeeps DEF Next
  <1>9. QED BY <1>1, <1>7, <1>8

\* Between two DISSOCIATEs all packets of an association leave through one relay,
\* however many first packets raced to open it, and after the tear-down of a
\* connection nothing is entered into its table (open_association, handle_connection).
THEOREM TablesStaySound == Spec => []TableSound
  <1>1. QED BY IInvInit, IInvNext, IInvTable, PTL DEF Spec

\* Whatever relay is already open and whenever the policy is swapped, no packet leaves
\* whose target the snapshot it was read under blocks (relay_uplink, serve_associate).
THEOREM PolicyPerPacket == Spec => []PerPacketPolicy
  <1>1. QED BY IInvInit, IInvNext, IInvTable, PTL DEF Spec
===============================================================================
