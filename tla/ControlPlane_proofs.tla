------------------------- MODULE ControlPlane_proofs --------------------------
(***************************************************************************)
(* Proofs about what a node shares with its control plane: the policy it   *)
(* synchronises, for every number of documents, releases and crashes and   *)
(* every compatibility relation; and the channel over which it is told     *)
(* what to do, for every set of commands, events and users and every       *)
(* limit.                                                                  *)
(***************************************************************************)
EXTENDS SnapshotSync, ControlChannel, FiniteSetTheorems, TLAPS

-------------------------------------------------------------------------------
(* Policy synchronisation *)

SavePhase == {"write", "sync", "rename", "dirsync", "swap"}

\* A syncing task is away from idle exactly while it holds the gate; the book
\* task holds it exactly between install and replace.
GateHeld ==
    /\ \A t \in Syncing : /\ pc[t] \in {"idle", "fetch"} \cup SavePhase
                          /\ pc[t] # "idle" <=> gate = t
    /\ pc["book"] \in {"idle", "want", "replace"}
    /\ pc["book"] = "replace" <=> gate = "book"

\* What a task carries is still true when it is used: the version asked for is
\* the one served, the compiled pair is newer and uses the installed book.
JobCurrent ==
    /\ \A t \in Syncing :
        /\ pc[t] # "idle" => job[t].since = serving.doc
        /\ pc[t] \in SavePhase =>
              /\ job[t].doc > job[t].since
              /\ job[t].book = book
              /\ Compiles(job[t].doc, job[t].book)
    /\ pc["book"] = "replace" =>
          /\ job["book"].doc = last_raw
          /\ job["book"].book = book
          /\ last_raw # 0 => Compiles(last_raw, book)

\* The policy copies agree except for the engine's book while the book task is
\* between install and replace.
Agree ==
    /\ serving.doc = last_raw
    /\ gate # "book" /\ serving.doc # 0 => serving.book = book

\* A stopped process holds nothing.
DownIsEmpty ==
    ~up => /\ gate = "free" /\ serving.doc = 0 /\ last_raw = 0
           /\ \A t \in Task : pc[t] = "idle"

SyncInv == TypeOK /\ GateHeld /\ JobCurrent /\ Agree /\ DownIsEmpty /\ FailClosed

LEMMA InitInv == Init => SyncInv
  <1> SUFFICES ASSUME Init PROVE SyncInv
    OBVIOUS
  <1>1. TypeOK
    <2>1. NoJob \in Job /\ NoCache \in CacheFile
      BY SyncAssumption DEF NoJob, Job, NoCache, CacheFile, Version, AnyBook
    <2>2. disk \in [book : AnyBook, stamp : 0 .. MaxStamp]
      BY SyncAssumption DEF Init, AnyBook
    <2>3. serving \in [doc : Version, book : AnyBook] /\ book \in AnyBook
      BY SyncAssumption DEF Init, EmptySnapshot, Version, AnyBook
    <2>4. pc \in [Task -> Phase] /\ job \in [Task -> Job]
      BY <2>1 DEF Init, Phase
    <2>5. cache \in CacheFile /\ durable \in CacheFile
      BY <2>1 DEF Init
    <2>6. /\ published \in Version /\ last_raw \in Version /\ crashes \in 0 .. MaxCrashes
          /\ last_stamp \in 0 .. MaxStamp /\ failures \in 0 .. MaxFailures
      BY SyncAssumption DEF Init, Version
    <2>7. up \in BOOLEAN /\ gate \in Task \cup {"free"}
      BY DEF Init
    <2>8. QED BY <2>2, <2>3, <2>4, <2>5, <2>6, <2>7 DEF TypeOK
  <1>2. GateHeld /\ JobCurrent /\ Agree /\ DownIsEmpty /\ FailClosed
    BY DEF Init, GateHeld, JobCurrent, Agree, DownIsEmpty, FailClosed, Syncing,
           Task, SavePhase, EmptySnapshot
  <1>3. QED BY <1>1, <1>2 DEF SyncInv

LEMMA FinishType ==
    ASSUME TypeOK, NEW t \in Task, Finish(t)
    PROVE  pc' \in [Task -> Phase] /\ job' \in [Task -> Job]
             /\ gate' \in Task \cup {"free"}
  BY SyncAssumption DEF TypeOK, Finish, Task, Syncing, Phase, NoJob, Job, Version, AnyBook

LEMMA StartSyncInv ==
    ASSUME SyncInv, NEW t \in Syncing, StartSync(t) PROVE SyncInv'
  <1>1. TypeOK'
    BY DEF SyncInv, TypeOK, StartSync, TakeGate, GoTo, world, life, files, policy,
           Task, Syncing, Phase, Job
  <1>2. GateHeld' /\ JobCurrent'
    BY DEF SyncInv, TypeOK, GateHeld, JobCurrent, StartSync, TakeGate, GoTo, world,
           life, files, policy, Syncing, Task, SavePhase, Job
  <1>3. Agree' /\ DownIsEmpty' /\ FailClosed'
    BY DEF SyncInv, Agree, DownIsEmpty, FailClosed, StartSync, TakeGate, policy, life
  <1>4. QED BY <1>1, <1>2, <1>3 DEF SyncInv

\* A step that leaves the process, the policy and the tasks alone.
LEMMA QuietInv ==
    ASSUME SyncInv, TypeOK', UNCHANGED <<up, policy, gate, pc, job>>
    PROVE  SyncInv'
  <1>1. GateHeld' /\ JobCurrent'
    BY DEF SyncInv, GateHeld, JobCurrent, policy
  <1>2. Agree' /\ DownIsEmpty' /\ FailClosed'
    BY DEF SyncInv, Agree, DownIsEmpty, FailClosed, policy
  <1>3. QED BY <1>1, <1>2 DEF SyncInv

\* A syncing task ends its round without touching the policy.
LEMMA GiveUpInv ==
    ASSUME SyncInv, TypeOK', NEW t \in Syncing, pc[t] # "idle", Finish(t),
           UNCHANGED <<up, policy>>
    PROVE  SyncInv'
  <1>1. gate = t /\ gate' = "free" /\ up
    BY DEF SyncInv, GateHeld, DownIsEmpty, Finish, Task
  <1>2. GateHeld' /\ JobCurrent'
    BY <1>1 DEF SyncInv, TypeOK, GateHeld, JobCurrent, Finish, policy, Syncing, Task,
                SavePhase
  <1>3. Agree' /\ DownIsEmpty' /\ FailClosed'
    BY <1>1 DEF SyncInv, Agree, DownIsEmpty, FailClosed, policy, Syncing
  <1>4. QED BY <1>2, <1>3 DEF SyncInv

LEMMA FetchEndsInv ==
    ASSUME SyncInv, NEW t \in Syncing, FetchEnds(t) PROVE SyncInv'
  <1>0. t \in Task /\ failures \in 0 .. MaxFailures /\ MaxFailures \in Nat
    BY SyncAssumption DEF SyncInv, TypeOK, Task
  <1>1. (RecordFailure \/ RecordSuccess) => failures' \in 0 .. MaxFailures
    BY <1>0 DEF RecordFailure, RecordSuccess
  <1>2. CASE FetchFails(t) \/ FetchNothing(t)
    <2>1. /\ pc[t] # "idle" /\ Finish(t) /\ UNCHANGED <<up, policy>>
          /\ UNCHANGED <<world, life, files, policy, last_stamp>>
          /\ failures' \in 0 .. MaxFailures
      BY <1>1, <1>2 DEF FetchFails, FetchNothing, life
    <2>2. TypeOK'
      BY <2>1, <1>0, FinishType DEF SyncInv, TypeOK, world, life, files, policy
    <2>3. QED BY <2>1, <2>2, GiveUpInv
  <1>3. ASSUME NEW doc \in 1 .. published, FetchDocument(t, doc) PROVE SyncInv'
    <2>1. CASE ~Compiles(doc, book)
      <3>1. /\ pc[t] # "idle" /\ Finish(t) /\ UNCHANGED <<up, policy>>
            /\ UNCHANGED <<world, life, files, policy, last_stamp>>
            /\ failures' \in 0 .. MaxFailures
        BY <1>1, <1>3, <2>1 DEF FetchDocument, life
      <3>2. TypeOK'
        BY <3>1, <1>0, FinishType DEF SyncInv, TypeOK, world, life, files, policy
      <3>3. QED BY <3>1, <3>2, GiveUpInv
    <2>2. CASE Compiles(doc, book)
      <3>1. /\ pc[t] = "fetch" /\ doc > job[t].since
            /\ job' = [job EXCEPT ![t].doc = doc, ![t].book = book]
            /\ pc' = [pc EXCEPT ![t] = "write"]
            /\ UNCHANGED <<gate, failures, world, life, files, policy, last_stamp>>
        BY <1>3, <2>2 DEF FetchDocument, GoTo, IsNewer
      <3>2. doc \in Version
        BY <1>3, SyncAssumption DEF SyncInv, TypeOK, Version
      <3>3. job' \in [Task -> Job]
        BY <3>1, <3>2, <1>0 DEF SyncInv, TypeOK, Job
      <3>4. TypeOK'
        BY <3>1, <3>3, <1>0 DEF SyncInv, TypeOK, world, life, files, policy, Phase
      <3>5. /\ job'[t].doc = doc /\ job'[t].book = book
            /\ job'[t].since = job[t].since
            /\ \A u \in Task : u # t => job'[u] = job[u]
        BY <3>1, <1>0 DEF SyncInv, TypeOK, Job
      <3>6. gate = t
        BY <3>1 DEF SyncInv, GateHeld
      <3>7. GateHeld'
        BY <3>1, <1>0 DEF SyncInv, TypeOK, GateHeld, SavePhase, Syncing, Task
      <3>8. JobCurrent'
        BY <3>1, <3>5, <3>6, <2>2, <1>0
           DEF SyncInv, TypeOK, GateHeld, JobCurrent, SavePhase, Syncing, Task, policy
      <3>9. Agree' /\ DownIsEmpty' /\ FailClosed'
        BY <3>1, <3>6 DEF SyncInv, Agree, DownIsEmpty, FailClosed, policy, life, Syncing
      <3>10. QED BY <3>4, <3>7, <3>8, <3>9 DEF SyncInv
    <2>3. QED BY <2>1, <2>2
  <1>4. QED BY <1>2, <1>3 DEF FetchEnds

\* A step of save_cache moves the task on and carries the same pair.
LEMMA SaveStepInv ==
    ASSUME SyncInv, NEW t \in Syncing, SaveStep(t) PROVE SyncInv'
  <1>0. t \in Task
    BY DEF Task
  <1>1. /\ pc[t] \in SavePhase
        /\ \E ph \in SavePhase : pc' = [pc EXCEPT ![t] = ph]
        /\ UNCHANGED <<world, life, policy, last_stamp, gate, failures>>
    BY DEF SaveStep, WriteTemp, SyncTemp, Rename, SyncDir, SaveFails, GoTo, SavePhase
  <1>2. /\ job' \in [Task -> Job]
        /\ \A u \in Task : /\ job'[u].since = job[u].since
                           /\ job'[u].doc = job[u].doc
                           /\ job'[u].book = job[u].book
    <2>1. CASE WriteTemp(t)
      BY <2>1, <1>0 DEF WriteTemp, SyncInv, TypeOK, Job
    <2>2. CASE SyncTemp(t)
      BY <2>2, <1>0 DEF SyncTemp, SyncInv, TypeOK, Job
    <2>3. CASE Rename(t) \/ SyncDir(t) \/ SaveFails(t)
      BY <2>3 DEF Rename, SyncDir, SaveFails, SyncInv, TypeOK
    <2>4. QED BY <2>1, <2>2, <2>3 DEF SaveStep
  <1>3. cache' \in CacheFile /\ durable' \in CacheFile
    BY <1>0 DEF SaveStep, WriteTemp, SyncTemp, Rename, SyncDir, SaveFails, files, SyncInv,
           TypeOK, CacheFile, Job
  <1>4. TypeOK'
    BY <1>0, <1>1, <1>2, <1>3
       DEF SyncInv, TypeOK, world, life, policy, Phase, SavePhase
  <1>5. GateHeld'
    BY <1>0, <1>1 DEF SyncInv, TypeOK, GateHeld, SavePhase, Syncing, Task
  <1>6. JobCurrent'
    BY <1>0, <1>1, <1>2
       DEF SyncInv, TypeOK, JobCurrent, SavePhase, Syncing, Task, policy
  <1>7. gate = t /\ up
    BY <1>0, <1>1 DEF SyncInv, GateHeld, SavePhase, DownIsEmpty
  <1>8. Agree' /\ DownIsEmpty' /\ FailClosed'
    BY <1>1, <1>7 DEF SyncInv, Agree, DownIsEmpty, FailClosed, policy, life
  <1>9. QED BY <1>4, <1>5, <1>6, <1>8 DEF SyncInv

LEMMA SwapInv ==
    ASSUME SyncInv, NEW t \in Syncing, Swap(t) PROVE SyncInv'
  <1>0. t \in Task /\ t # "book"
    BY DEF Task, Syncing
  <1>1. /\ gate = t /\ up /\ pc[t] = "swap"
        /\ job[t].book = book /\ Compiles(job[t].doc, book)
        /\ job[t].doc \in Version /\ job[t].book \in AnyBook
    BY <1>0 DEF SyncInv, TypeOK, Job, GateHeld, JobCurrent, DownIsEmpty, Swap, SavePhase
  <1>2. /\ Finish(t) /\ last_raw' = job[t].doc
        /\ serving' = [doc |-> job[t].doc, book |-> job[t].book]
        /\ failures' = 0 /\ UNCHANGED <<world, life, files, book, last_stamp>>
    BY DEF Swap, RecordSuccess
  <1>3. TypeOK'
    BY <1>0, <1>1, <1>2, FinishType, SyncAssumption
       DEF SyncInv, TypeOK, world, life, files
  <1>4. /\ gate' = "free" /\ pc' = [pc EXCEPT ![t] = "idle"]
        /\ job' = [job EXCEPT ![t] = NoJob]
    BY <1>1, <1>2 DEF Finish
  <1>5. GateHeld'
    BY <1>0, <1>1, <1>4 DEF SyncInv, TypeOK, GateHeld, Syncing, Task
  <1>6. \A u \in Syncing : pc'[u] = "idle"
    BY <1>0, <1>1, <1>4 DEF SyncInv, TypeOK, GateHeld, Syncing, Task
  <1>7. pc'["book"] # "replace"
    BY <1>0, <1>1, <1>4 DEF SyncInv, TypeOK, GateHeld, Syncing, Task
  <1>8. JobCurrent'
    BY <1>6, <1>7 DEF JobCurrent, SavePhase
  <1>9. Agree' /\ DownIsEmpty' /\ FailClosed'
    BY <1>1, <1>2, <1>4 DEF Agree, DownIsEmpty, FailClosed, life
  <1>10. QED BY <1>3, <1>5, <1>8, <1>9 DEF SyncInv

LEMMA ReadArtifactInv == SyncInv /\ ReadArtifact => SyncInv'
  <1> SUFFICES ASSUME SyncInv, ReadArtifact PROVE SyncInv'
    OBVIOUS
  <1>0. /\ "book" \in Task /\ pc["book"] = "idle" /\ up
        /\ UNCHANGED <<world, life, files, policy, gate, failures>>
    BY DEF ReadArtifact, Task
  <1>1. CASE disk.book = book
    <2>1. UNCHANGED <<pc, job>> /\ last_stamp' = disk.stamp
      BY <1>1 DEF ReadArtifact
    <2>2. TypeOK'
      BY <1>0, <2>1 DEF SyncInv, TypeOK, world, life, files, policy
    <2>3. QED BY <1>0, <2>1, <2>2, QuietInv DEF life
  <1>2. CASE disk.book # book
    <2>1. /\ job' = [job EXCEPT !["book"].book = disk.book, !["book"].stamp = disk.stamp]
          /\ pc' = [pc EXCEPT !["book"] = "want"] /\ UNCHANGED last_stamp
      BY <1>2 DEF ReadArtifact, GoTo
    <2>2. job' \in [Task -> Job]
      <3>1. disk.book \in AnyBook /\ disk.stamp \in 0 .. MaxStamp
        BY DEF SyncInv, TypeOK
      <3>2. job \in [Task -> Job] /\ job["book"] \in Job
        BY <1>0 DEF SyncInv, TypeOK
      <3>3. job'["book"] = [job["book"] EXCEPT !.book = disk.book, !.stamp = disk.stamp]
        BY <1>0, <2>1, <3>2
      <3>4. job'["book"] \in Job
        BY <3>1, <3>2, <3>3 DEF Job
      <3>5. DOMAIN job' = Task /\ \A t \in Task : t # "book" => job'[t] = job[t]
        BY <2>1, <3>2
      <3>6. job' = [t \in Task |-> job'[t]]
        BY <2>1, <3>2
      <3>7. QED BY <3>2, <3>4, <3>5, <3>6
    <2>3. TypeOK'
      BY <1>0, <2>1, <2>2 DEF SyncInv, TypeOK, world, life, files, policy, Phase
    <2>4. \A t \in Syncing : job'[t] = job[t] /\ pc'[t] = pc[t]
      BY <2>1 DEF SyncInv, TypeOK, Syncing, Task
    <2>5. pc'["book"] = "want"
      BY <1>0, <2>1 DEF SyncInv, TypeOK
    <2>6. GateHeld' /\ JobCurrent'
      BY <1>0, <2>4, <2>5 DEF SyncInv, GateHeld, JobCurrent, policy
    <2>7. Agree' /\ DownIsEmpty' /\ FailClosed'
      BY <1>0 DEF SyncInv, Agree, DownIsEmpty, FailClosed, policy, life
    <2>8. QED BY <2>3, <2>6, <2>7 DEF SyncInv
  <1>3. QED BY <1>1, <1>2

LEMMA InstallInv == SyncInv /\ Install => SyncInv'
  <1> SUFFICES ASSUME SyncInv, Install PROVE SyncInv'
    OBVIOUS
  <1>0. /\ "book" \in Task /\ pc["book"] = "want" /\ gate = "free" /\ gate' = "book"
        /\ last_raw = 0 \/ Compiles(last_raw, job["book"].book)
        /\ book' = job["book"].book
        /\ job' = [job EXCEPT !["book"].doc = last_raw]
        /\ pc' = [pc EXCEPT !["book"] = "replace"]
        /\ UNCHANGED <<world, life, files, serving, last_raw, last_stamp, failures>>
    BY DEF Install, TakeGate, GoTo, Task
  <1>1. job' \in [Task -> Job] /\ book' \in AnyBook
    BY <1>0 DEF SyncInv, TypeOK, Job
  <1>2. TypeOK'
    BY <1>0, <1>1 DEF SyncInv, TypeOK, world, life, files, Phase, Task
  <1>3. \A t \in Syncing : pc'[t] = "idle"
    BY <1>0 DEF SyncInv, TypeOK, GateHeld, Syncing, Task
  <1>4. /\ pc'["book"] = "replace" /\ job'["book"].doc = last_raw
        /\ job'["book"].book = book'
    BY <1>0 DEF SyncInv, TypeOK, Job
  <1>5. GateHeld' /\ JobCurrent'
    BY <1>0, <1>3, <1>4 DEF GateHeld, JobCurrent, SavePhase, Syncing
  <1>6. Agree' /\ DownIsEmpty' /\ FailClosed'
    BY <1>0 DEF SyncInv, Agree, DownIsEmpty, FailClosed, life
  <1>7. QED BY <1>2, <1>5, <1>6 DEF SyncInv

LEMMA RejectInv == SyncInv /\ Reject => SyncInv'
  <1> SUFFICES ASSUME SyncInv, Reject PROVE SyncInv'
    OBVIOUS
  <1>0. /\ "book" \in Task /\ pc["book"] = "want" /\ gate = "free" /\ Finish("book")
        /\ UNCHANGED <<world, life, files, policy, last_stamp, failures>>
    BY DEF Reject, Task
  <1>1. TypeOK'
    BY <1>0, FinishType DEF SyncInv, TypeOK, world, life, files, policy
  <1>2. gate' = "free" /\ \A t \in Syncing : pc'[t] = "idle"
    BY <1>0 DEF SyncInv, TypeOK, GateHeld, Finish, Syncing, Task
  <1>3. pc'["book"] = "idle"
    BY <1>0 DEF SyncInv, TypeOK, Finish
  <1>4. GateHeld' /\ JobCurrent'
    BY <1>2, <1>3 DEF GateHeld, JobCurrent, SavePhase, Syncing
  <1>5. Agree' /\ DownIsEmpty' /\ FailClosed'
    BY <1>0, <1>2, <1>3 DEF SyncInv, Agree, DownIsEmpty, FailClosed, life, policy
  <1>6. QED BY <1>1, <1>4, <1>5 DEF SyncInv

LEMMA ReplaceInv == SyncInv /\ Replace => SyncInv'
  <1> SUFFICES ASSUME SyncInv, Replace PROVE SyncInv'
    OBVIOUS
  <1>0. /\ "book" \in Task /\ pc["book"] = "replace" /\ gate = "book" /\ Finish("book")
        /\ serving' = IF job["book"].doc = 0 THEN serving
                      ELSE [doc |-> job["book"].doc, book |-> job["book"].book]
        /\ last_stamp' = job["book"].stamp
        /\ UNCHANGED <<world, life, files, last_raw, book, failures>>
    BY DEF Replace, SyncInv, GateHeld, Task
  <1>1. /\ job["book"].doc = last_raw /\ job["book"].book = book /\ serving.doc = last_raw
        /\ last_raw # 0 => Compiles(last_raw, book)
        /\ up
    BY <1>0 DEF SyncInv, JobCurrent, Agree, DownIsEmpty
  <1>2. TypeOK'
    BY <1>0, FinishType DEF SyncInv, TypeOK, world, life, files, Job
  <1>3. gate' = "free" /\ \A t \in Syncing : pc'[t] = "idle"
    BY <1>0 DEF SyncInv, TypeOK, GateHeld, Finish, Syncing, Task
  <1>4. pc'["book"] = "idle"
    BY <1>0 DEF SyncInv, TypeOK, Finish
  <1>5. GateHeld' /\ JobCurrent'
    BY <1>3, <1>4 DEF GateHeld, JobCurrent, SavePhase, Syncing
  <1>6. Agree' /\ DownIsEmpty' /\ FailClosed'
    BY <1>0, <1>1, <1>3 DEF Agree, DownIsEmpty, FailClosed, life
  <1>7. QED BY <1>2, <1>5, <1>6 DEF SyncInv

LEMMA StartInv == SyncInv /\ Start => SyncInv'
  <1> SUFFICES ASSUME SyncInv, Start PROVE SyncInv'
    OBVIOUS
  <1>0. /\ ~up /\ up' = TRUE /\ book' = disk.book /\ last_stamp' = disk.stamp
        /\ UNCHANGED <<world, crashes, files, gate, pc, job, failures>>
    BY DEF Start
  <1>1. gate = "free" /\ serving.doc = 0 /\ last_raw = 0 /\ \A t \in Task : pc[t] = "idle"
    BY <1>0 DEF SyncInv, DownIsEmpty
  <1>2. \/ /\ Compiles(cache.doc, disk.book)
           /\ serving' = [doc |-> cache.doc, book |-> disk.book]
           /\ last_raw' = cache.doc
        \/ UNCHANGED <<serving, last_raw>>
    BY DEF Start
  <1>3. TypeOK'
    BY <1>0, <1>2 DEF SyncInv, TypeOK, world, files, CacheFile
  <1>4. GateHeld' /\ JobCurrent'
    BY <1>0, <1>1 DEF GateHeld, JobCurrent, SavePhase, Syncing, Task
  <1>5. Agree' /\ DownIsEmpty' /\ FailClosed'
    BY <1>0, <1>1, <1>2 DEF Agree, DownIsEmpty, FailClosed
  <1>6. QED BY <1>3, <1>4, <1>5 DEF SyncInv

LEMMA ForgetInv ==
    ASSUME SyncInv, Forget, cache' \in CacheFile, durable' \in CacheFile
    PROVE  SyncInv'
  <1>1. NoJob \in Job /\ EmptySnapshot \in [doc : Version, book : AnyBook]
    BY SyncAssumption DEF NoJob, Job, EmptySnapshot, Version, AnyBook
  <1>2. TypeOK'
    <2>1. pc' \in [Task -> Phase] /\ job' \in [Task -> Job]
      BY <1>1 DEF Forget, Phase
    <2>2. /\ last_raw' \in Version /\ last_stamp' \in 0 .. MaxStamp
          /\ failures' \in 0 .. MaxFailures /\ crashes' \in 0 .. MaxCrashes
      BY SyncAssumption DEF Forget, SyncInv, TypeOK, Version
    <2>3. /\ serving' \in [doc : Version, book : AnyBook] /\ book' \in AnyBook
          /\ up' \in BOOLEAN /\ gate' \in Task \cup {"free"}
      BY <1>1 DEF Forget, AnyBook
    <2>4. /\ published' \in Version
          /\ disk' \in [book : AnyBook, stamp : 0 .. MaxStamp]
      BY DEF Forget, SyncInv, TypeOK, world
    <2>5. QED BY <2>1, <2>2, <2>3, <2>4 DEF TypeOK
  <1>3. GateHeld' /\ JobCurrent'
    BY DEF Forget, GateHeld, JobCurrent, SavePhase, Syncing, Task
  <1>4. Agree' /\ DownIsEmpty' /\ FailClosed'
    BY DEF Forget, Agree, DownIsEmpty, FailClosed, EmptySnapshot
  <1>5. QED BY <1>2, <1>3, <1>4 DEF SyncInv

LEMMA NextInv == SyncInv /\ [Next]_vars => SyncInv'
  <1> SUFFICES ASSUME SyncInv, [Next]_vars PROVE SyncInv'
    OBVIOUS
  <1>1. ASSUME NEW t \in Syncing, StartSync(t) \/ FetchEnds(t) \/ SaveStep(t) \/ Swap(t)
        PROVE  SyncInv'
    BY <1>1, StartSyncInv, FetchEndsInv, SaveStepInv, SwapInv
  <1>2. CASE ReadArtifact \/ Install \/ Reject \/ Replace
    BY <1>2, ReadArtifactInv, InstallInv, RejectInv, ReplaceInv
  <1>3. CASE Start
    BY <1>3, StartInv
  <1>4. CASE Crash \/ PowerLoss
    <2>1. Forget /\ cache' \in CacheFile /\ durable' \in CacheFile
      BY <1>4 DEF Crash, PowerLoss, files, SyncInv, TypeOK
    <2>2. QED BY <2>1, ForgetInv
  <1>5. CASE Publish
    <2>1. TypeOK'
      BY <1>5, SyncAssumption DEF Publish, SyncInv, TypeOK, Version, life, files, policy
    <2>2. QED BY <1>5, <2>1, QuietInv DEF Publish, life
  <1>6. ASSUME NEW b \in AnyBook, Release(b) PROVE SyncInv'
    <2>1. TypeOK'
      BY <1>6, SyncAssumption DEF Release, SyncInv, TypeOK, life, files, policy
    <2>2. QED BY <1>6, <2>1, QuietInv DEF Release, life
  <1>7. CASE UNCHANGED vars
    <2>1. TypeOK'
      BY <1>7 DEF vars, SyncInv, TypeOK
    <2>2. QED BY <1>7, <2>1, QuietInv DEF vars, policy
  <1>8. QED BY <1>1, <1>2, <1>3, <1>4, <1>5, <1>6, <1>7 DEF Next

\* The inductive invariant holds in every reachable state.
LEMMA InvHolds == Spec => []SyncInv
  BY InitInv, NextInv, PTL DEF Spec

\* Type correctness of policy synchronisation.
THEOREM SyncTypeCorrect == Spec => []TypeOK
  <1>1. SyncInv => TypeOK
    BY DEF SyncInv
  <1>2. QED BY <1>1, InvHolds, PTL

\* The engine only ever enforces a document that compiled against the book it is
\* paired with, whatever is published and whenever the process crashes.
THEOREM AlwaysFailClosed == Spec => []FailClosed
  <1>1. SyncInv => FailClosed
    BY DEF SyncInv
  <1>2. QED BY <1>1, InvHolds, PTL

\* Whenever the gate is free, the served snapshot, the remembered document and
\* the installed book belong together.
THEOREM AlwaysPairConsistent == Spec => []PairConsistent
  <1>1. SyncInv => PairConsistent
    BY DEF SyncInv, Agree, PairConsistent
  <1>2. QED BY <1>1, InvHolds, PTL

\* The served version never goes back while the process lives.
THEOREM VersionsForward == Spec => VersionNeverGoesBack
  <1>1. SyncInv /\ [Next]_vars => [up /\ up' => serving'.doc >= serving.doc]_vars
    <2> SUFFICES ASSUME SyncInv, Next, up, up' PROVE serving'.doc >= serving.doc
      OBVIOUS
    <2>0. serving.doc \in Nat
      BY SyncAssumption DEF SyncInv, TypeOK, Version
    <2>1. ASSUME NEW t \in Syncing, Swap(t) PROVE serving'.doc >= serving.doc
      <3>1. /\ job[t].doc > serving.doc /\ serving'.doc = job[t].doc
            /\ job[t].doc \in Nat
        BY <2>1, SyncAssumption
           DEF Swap, SyncInv, TypeOK, Job, Version, JobCurrent, SavePhase, Task
      <3>2. QED BY <2>0, <3>1
    <2>2. ASSUME Replace PROVE serving'.doc >= serving.doc
      <3>1. job["book"].doc = serving.doc
        BY <2>2 DEF Replace, SyncInv, JobCurrent, Agree
      <3>2. serving'.doc = serving.doc
        BY <2>2, <3>1 DEF Replace
      <3>3. QED BY <2>0, <3>2
    <2>3. ASSUME NEW t \in Syncing, StartSync(t) \/ FetchEnds(t) \/ SaveStep(t)
          PROVE  serving' = serving
      BY <2>3 DEF StartSync, FetchEnds, FetchFails, FetchNothing, FetchDocument,
                  SaveStep, WriteTemp, SyncTemp, Rename, SyncDir, SaveFails, policy
    <2>4. CASE ReadArtifact \/ Install \/ Reject \/ Publish \/ \E b \in AnyBook : Release(b)
      BY <2>0, <2>4 DEF ReadArtifact, Install, Reject, Publish, Release, policy
    <2>5. CASE Start \/ Crash \/ PowerLoss
      BY <2>5 DEF Start, Crash, PowerLoss, Forget
    <2>6. QED BY <2>0, <2>1, <2>2, <2>3, <2>4, <2>5 DEF Next
  <1>2. QED BY <1>1, InvHolds, PTL DEF Spec, VersionNeverGoesBack
-------------------------------------------------------------------------------
(* The cache file *)

\* CacheIntact needs to know that a temporary file about to be renamed was
\* synced; that its document compiled is JobCurrent.
RenamesSynced == \A t \in Syncing : pc[t] = "rename" => job[t].synced

CacheInv == CacheIntact /\ RenamesSynced

\* Only a step of save_cache or a power loss touches the files, and no other
\* step brings a task to its rename.
LEMMA CacheInvNext == SyncInv /\ CacheInv /\ [Next]_vars => CacheInv'
  <1> SUFFICES ASSUME SyncInv, CacheInv, [Next]_vars PROVE CacheInv'
    OBVIOUS
  <1> DEFINE Moved(t, ph) == pc' = [pc EXCEPT ![t] = ph]
  <1>0. /\ pc \in [Task -> Phase] /\ job \in [Task -> Job]
        /\ Syncing \subseteq Task /\ "book" \in Task
    BY DEF SyncInv, TypeOK, Task
  <1>1. ASSUME NEW t \in Task, NEW ph \in Phase \ {"rename"}, Moved(t, ph),
               \A u \in Task : u # t => job'[u] = job[u]
        PROVE  RenamesSynced'
    BY <1>0, <1>1 DEF CacheInv, RenamesSynced
  <1>2. ASSUME UNCHANGED files PROVE CacheIntact'
    BY <1>2 DEF CacheInv, CacheIntact, files, Compiles
  <1>3. ASSUME UNCHANGED <<pc, job>> PROVE RenamesSynced'
    BY <1>3 DEF CacheInv, RenamesSynced
  <1>4. ASSUME NEW t \in Syncing, StartSync(t) \/ FetchEnds(t) \/ Swap(t) PROVE CacheInv'
    <2>1. UNCHANGED files
      BY <1>4 DEF StartSync, FetchEnds, FetchFails, FetchNothing, FetchDocument, Swap
    <2>2. /\ \E ph \in Phase \ {"rename"} : Moved(t, ph)
          /\ \A u \in Task : u # t => job'[u] = job[u]
      BY <1>0, <1>4 DEF StartSync, FetchEnds, FetchFails, FetchNothing, FetchDocument, Swap,
                        GoTo, Finish, Phase
    <2>3. QED BY <1>0, <1>1, <1>2, <2>1, <2>2 DEF CacheInv
  <1>5. ASSUME NEW t \in Syncing, SaveStep(t) PROVE CacheInv'
    <2>1. CASE WriteTemp(t) \/ SaveFails(t)
      <3>1. UNCHANGED files
        BY <2>1 DEF WriteTemp, SaveFails
      <3>2. /\ \E ph \in Phase \ {"rename"} : Moved(t, ph)
            /\ \A u \in Task : u # t => job'[u] = job[u]
        BY <1>0, <2>1 DEF WriteTemp, SaveFails, GoTo, Phase
      <3>3. QED BY <1>0, <1>1, <1>2, <3>1, <3>2 DEF CacheInv
    <2>2. CASE SyncTemp(t)
      <3>1. UNCHANGED files
        BY <2>2 DEF SyncTemp
      <3>2. job'[t].synced
        BY <1>0, <2>2 DEF SyncTemp, Job
      <3>3. \A u \in Task : u # t => job'[u] = job[u] /\ pc'[u] = pc[u]
        BY <1>0, <2>2 DEF SyncTemp, GoTo
      <3>4. QED BY <1>0, <1>2, <3>1, <3>2, <3>3 DEF CacheInv, RenamesSynced
    <2>3. CASE Rename(t)
      <3>1. /\ pc[t] = "rename" /\ UNCHANGED durable /\ UNCHANGED job
            /\ cache' = [doc |-> job[t].doc, synced |-> job[t].synced]
            /\ Moved(t, "dirsync")
        BY <2>3 DEF Rename, GoTo
      <3>2. job[t].synced /\ Compiles(job[t].doc, book)
        BY <3>1 DEF CacheInv, RenamesSynced, SyncInv, JobCurrent, SavePhase
      <3>3. book \in Book
        BY <3>2, SyncAssumption DEF Compiles
      <3>4. cache'.synced /\ \E b \in Book : Compiles(cache'.doc, b)
        BY <3>1, <3>2, <3>3
      <3>5. durable'.doc # 0 => durable'.synced /\ \E b \in Book : Compiles(durable'.doc, b)
        BY <3>1 DEF CacheInv, CacheIntact
      <3>6. CacheIntact'
        BY <3>4, <3>5 DEF CacheIntact, Compiles
      <3>7. RenamesSynced'
        BY <1>0, <1>1, <3>1 DEF Phase
      <3>8. QED BY <3>6, <3>7 DEF CacheInv
    <2>4. CASE SyncDir(t)
      <3>1. /\ durable' \in {durable, cache} /\ UNCHANGED <<cache, job>>
            /\ Moved(t, "swap")
        BY <2>4 DEF SyncDir, GoTo
      <3>2. CacheIntact'
        BY <3>1 DEF CacheInv, CacheIntact, Compiles
      <3>3. RenamesSynced'
        BY <1>0, <1>1, <3>1 DEF Phase
      <3>4. QED BY <3>2, <3>3 DEF CacheInv
    <2>5. QED BY <1>5, <2>1, <2>2, <2>3, <2>4 DEF SaveStep
  <1>6. CASE ReadArtifact \/ Install \/ Reject \/ Replace
    <2>1. UNCHANGED files
      BY <1>6 DEF ReadArtifact, Install, Reject, Replace
    <2>2. \A u \in Syncing : job'[u] = job[u] /\ pc'[u] = pc[u]
      BY <1>0, <1>6 DEF ReadArtifact, Install, Reject, Replace, GoTo, Finish, Syncing
    <2>3. QED BY <1>2, <2>1, <2>2 DEF CacheInv, RenamesSynced
  <1>7. CASE Crash \/ PowerLoss
    <2>1. \A u \in Task : pc'[u] = "idle"
      BY <1>7 DEF Crash, PowerLoss, Forget
    <2>2. CacheIntact'
      BY <1>7 DEF Crash, PowerLoss, files, CacheInv, CacheIntact, Compiles
    <2>3. QED BY <1>0, <2>1, <2>2 DEF CacheInv, RenamesSynced
  <1>8. CASE Start \/ Publish \/ (\E b \in AnyBook : Release(b)) \/ UNCHANGED vars
    <2>1. UNCHANGED files /\ UNCHANGED <<pc, job>>
      BY <1>8 DEF Start, Publish, Release, vars, files
    <2>2. QED BY <1>2, <1>3, <2>1 DEF CacheInv
  <1>9. QED BY <1>4, <1>5, <1>6, <1>7, <1>8 DEF Next

\* Neither a power loss nor a crash at any step of save_cache leaves a cache file
\* that is not a whole document or that never compiled: the sync comes before the
\* rename, and only what compiled is saved.
THEOREM CacheStaysIntact == Spec => []CacheIntact
  <1>1. Init => CacheInv
    BY DEF Init, CacheInv, CacheIntact, RenamesSynced, NoCache, Syncing, Task
  <1>2. CacheInv => CacheIntact
    BY DEF CacheInv
  <1>3. QED BY <1>1, <1>2, CacheInvNext, InvHolds, PTL DEF Spec

-------------------------------------------------------------------------------
(* The control channel *)

SessionFields == {"task", "user", "host", "types", "expires", "matched", "dropped"}
ProbeFields   == {"task", "user", "host", "expires"}
Count   == [matched : Int, dropped : Int]
History == [end : {None, "purged", "rearmed", "armed", "summary", "sync"},
            seen : Nat, queued : Nat, summaries : Seq(Count)]

\* A command that was not handled yet.
Waiting(k) == tasks[k].pc \in {"idle", "spawned"}

\* A session or a probe is that of a command that was handled, and of one only.
Armed(arms) ==
    /\ arms = [r \in DOMAIN arms |-> arms[r]]
    /\ \A r \in DOMAIN arms : arms[r].task \in Tasks /\ ~Waiting(arms[r].task)
    /\ \A r, q \in DOMAIN arms : arms[r].task = arms[q].task => r = q

\* What a session counts is what happened to the events it wanted.
Counts(s, h) ==
    /\ DOMAIN s = SessionFields /\ s.matched \in Nat /\ s.dropped \in Nat
    /\ h.summaries = <<>> /\ h.queued = s.matched /\ h.seen = s.matched + s.dropped

ChannelTypes ==
    /\ tasks = [k \in Tasks |-> tasks[k]]
    /\ \A k \in Tasks : DOMAIN tasks[k] = {"pc", "cmd"}
    /\ hist \in [Tasks -> History]
    /\ conns \in [Conns -> [at : {"open", "sending", "done"}, probe : Tasks \cup {Free}]]

SessionsCount ==
    /\ Armed(sessions)
    /\ \A r \in DOMAIN sessions : Counts(sessions[r], hist[sessions[r].task])

\* Nothing happened yet to the arm of a command that was not handled.
Untouched ==
    \A k \in Tasks : Waiting(k) =>
        hist[k].summaries = <<>> /\ hist[k].queued = 0 /\ hist[k].seen = 0

\* A probe that a connection took is armed no more.
ProbesTaken ==
    /\ Armed(probes)
    /\ \A c \in Conns : conns[c].probe # Free =>
        /\ ~Waiting(conns[c].probe)
        /\ \A r \in DOMAIN probes : probes[r].task # conns[c].probe

ChannelInv == ChannelTypes /\ SessionsCount /\ Untouched /\ SummaryExact /\ ProbesTaken /\ ProbeOnce

\* Commands are handled once: none waits again.
LEMMA HandledOnce ==
    ASSUME ChannelTypes, NEW k \in Tasks, NEW at, at \notin {"idle", "spawned"}, Goto(k, at)
    PROVE  /\ tasks' = [j \in Tasks |-> tasks'[j]]
           /\ \A j \in Tasks : DOMAIN tasks'[j] = {"pc", "cmd"}
           /\ \A j \in Tasks : Waiting(j)' => Waiting(j) /\ j # k
<1>1. tasks' = [tasks EXCEPT ![k].pc = at]
  BY DEF Goto
<1>2. ASSUME NEW j \in Tasks
      PROVE  tasks'[j] = IF j = k THEN [tasks[k] EXCEPT !.pc = at] ELSE tasks[j]
  BY <1>1, <1>2 DEF ChannelTypes
<1>3. tasks'[k].pc = at
  BY <1>2 DEF ChannelTypes
<1>4. QED
  BY <1>1, <1>2, <1>3 DEF ChannelTypes, Waiting

\* A step that touches neither arms nor counts, and un-handles no command.
LEMMA QuietStep ==
    ASSUME ChannelInv, UNCHANGED <<sessions, probes, conns, hist>>,
           tasks' = [j \in Tasks |-> tasks'[j]],
           \A j \in Tasks : DOMAIN tasks'[j] = {"pc", "cmd"},
           \A j \in Tasks : Waiting(j)' => Waiting(j)
    PROVE  ChannelInv'
<1>1. ChannelTypes'
  BY DEF ChannelInv, ChannelTypes
<1>2. SessionsCount'
  BY DEF ChannelInv, SessionsCount, Armed, Counts
<1>3. Untouched'
  BY DEF ChannelInv, Untouched
<1>4. ProbesTaken'
  BY DEF ChannelInv, ChannelTypes, ProbesTaken, Armed, Free
<1>5. SummaryExact' /\ ProbeOnce'
  BY DEF ChannelInv, SummaryExact, ProbeOnce
<1>6. QED
  BY <1>1, <1>2, <1>3, <1>4, <1>5 DEF ChannelInv

LEMMA QuietTask ==
    ASSUME ChannelInv, NEW k \in Tasks, NEW at, at \notin {"idle", "spawned"}, Goto(k, at),
           UNCHANGED <<sessions, probes, conns, hist>>
    PROVE  ChannelInv'
<1>1. ChannelTypes
  BY DEF ChannelInv
<1>2. QED
  BY <1>1, HandledOnce, QuietStep

LEMMA QuietLoop ==
    ASSUME ChannelInv, UNCHANGED <<sessions, probes, conns, hist, tasks>>
    PROVE  ChannelInv'
<1>1. /\ tasks' = [j \in Tasks |-> tasks'[j]]
      /\ \A j \in Tasks : DOMAIN tasks'[j] = {"pc", "cmd"}
      /\ \A j \in Tasks : Waiting(j)' => Waiting(j)
  BY DEF ChannelInv, ChannelTypes, Waiting
<1>2. QED
  BY <1>1, QuietStep

LEMMA DeliverKeeps ==
    ASSUME ChannelInv, NEW k \in Tasks, LoopDeliver(k)
    PROVE  ChannelInv'
<1>1. PICK cmd \in Commands(k) : tasks' = [tasks EXCEPT ![k] = [pc |-> "spawned", cmd |-> cmd]]
  BY DEF LoopDeliver
<1>2. ASSUME NEW j \in Tasks
      PROVE  tasks'[j] = IF j = k THEN [pc |-> "spawned", cmd |-> cmd] ELSE tasks[j]
  BY <1>1, <1>2 DEF ChannelInv, ChannelTypes
<1>3. tasks[k].pc = "idle"
  BY DEF LoopDeliver
<1>4. /\ tasks' = [j \in Tasks |-> tasks'[j]]
      /\ \A j \in Tasks : DOMAIN tasks'[j] = {"pc", "cmd"}
  BY <1>1, <1>2 DEF ChannelInv, ChannelTypes
<1>5. \A j \in Tasks : Waiting(j)' => Waiting(j)
  BY <1>2, <1>3 DEF Waiting
<1>6. QED
  BY <1>4, <1>5, QuietStep DEF LoopDeliver

-------------------------------------------------------------------------------
(* The sessions of the control channel *)

\* A step on sessions and their histories: probes and connections stay, and the count
\* of every session that is there afterwards is right.
LEMMA SessionStep ==
    ASSUME ChannelInv, UNCHANGED <<probes, conns>>,
           tasks' = [j \in Tasks |-> tasks'[j]],
           \A j \in Tasks : DOMAIN tasks'[j] = {"pc", "cmd"},
           \A j \in Tasks : Waiting(j)' => Waiting(j),
           hist' \in [Tasks -> History], SessionsCount', Untouched', SummaryExact'
    PROVE  ChannelInv'
<1>1. ChannelTypes'
  BY DEF ChannelInv, ChannelTypes
<1>2. ProbesTaken'
  BY DEF ChannelInv, ChannelTypes, ProbesTaken, Armed, Free
<1>3. ProbeOnce'
  BY DEF ChannelInv, ProbeOnce
<1>4. QED
  BY <1>1, <1>2, <1>3 DEF ChannelInv

\* DiagnosticRegistry::start
LEMMA StartKeeps ==
    ASSUME ChannelInv, NEW k \in Tasks, HandleStart(k)
    PROVE  ChannelInv'
<1> DEFINE cmd == tasks[k].cmd
<1>1. ChannelTypes /\ Waiting(k)
  BY DEF ChannelInv, HandleStart, Running, Waiting
<1>2. CASE Goto(k, "done") /\ UNCHANGED <<sessions, hist>>
  BY <1>2, QuietTask DEF HandleStart
<1>3. CASE Goto(k, "reply") /\ UNCHANGED <<sessions, hist>>
  BY <1>3, QuietTask DEF HandleStart
<1>4. CASE Goto(k, "reply") /\ start(k, cmd)
  <2> DEFINE kept == {r \in Live : Rejected(cmd) \/ r # cmd.req}
             new  == IF Rejected(cmd) THEN {} ELSE {cmd.req}
             s2   == [r \in kept \cup new |-> IF r \in kept THEN sessions[r] ELSE NewSession(k, cmd)]
  <2>1. /\ tasks' = [j \in Tasks |-> tasks'[j]]
        /\ \A j \in Tasks : DOMAIN tasks'[j] = {"pc", "cmd"}
        /\ \A j \in Tasks : Waiting(j)' => Waiting(j) /\ j # k
    BY <1>1, <1>4, HandledOnce
  <2>2. sessions' = s2
    BY <1>4 DEF start
  <2>3. kept \subseteq DOMAIN sessions
    BY DEF Live
  <2>4. ASSUME NEW t \in Tasks
        PROVE  /\ hist'[t] \in History
               /\ hist'[t].summaries = hist[t].summaries
               /\ hist'[t].queued = hist[t].queued
               /\ hist'[t].seen = hist[t].seen
    <3>1. hist[t] \in History
      BY <1>1 DEF ChannelTypes
    <3>2. \/ hist'[t] = hist[t]
          \/ \E e \in {"purged", "rearmed", "armed"} : hist'[t] = [hist[t] EXCEPT !.end = e]
      BY <1>4 DEF start
    <3>3. QED
      BY <3>1, <3>2 DEF History
  <2>5. hist' \in [Tasks -> History]
    <3>1. DOMAIN hist' = Tasks /\ hist' = [t \in Tasks |-> hist'[t]]
      BY <1>4 DEF start
    <3>2. QED
      BY <2>4, <3>1
  <2>6. Untouched'
    BY <2>1, <2>4 DEF ChannelInv, Untouched
  <2>7. SummaryExact'
    BY <2>4 DEF ChannelInv, SummaryExact
  <2>8. ASSUME NEW r \in DOMAIN sessions'
        PROVE  /\ sessions'[r].task \in Tasks /\ tasks'[sessions'[r].task].pc \notin {"idle", "spawned"}
               /\ Counts(sessions'[r], hist'[sessions'[r].task])
               /\ r \in kept => sessions'[r].task # k /\ sessions'[r] = sessions[r]
               /\ r \notin kept => sessions'[r].task = k /\ r = cmd.req
    <3>1. CASE r \in kept
      <4>1. sessions'[r] = sessions[r]
        BY <2>2, <3>1
      <4>2. /\ sessions[r].task \in Tasks /\ ~Waiting(sessions[r].task)
            /\ Counts(sessions[r], hist[sessions[r].task])
        BY <2>3, <3>1 DEF ChannelInv, SessionsCount, Armed
      <4>3. Counts(sessions[r], hist'[sessions[r].task])
        BY <2>4, <4>2 DEF Counts
      <4> HIDE DEF kept
      <4>4. QED
        BY <1>1, <2>1, <3>1, <4>1, <4>2, <4>3 DEF Waiting
    <3>2. CASE r \notin kept
      <4>1. sessions'[r] = NewSession(k, cmd) /\ r = cmd.req
        BY <2>2, <2>8, <3>2
      <4>2. /\ sessions'[r].task = k /\ sessions'[r].matched = 0 /\ sessions'[r].dropped = 0
            /\ DOMAIN sessions'[r] = SessionFields
        BY <4>1 DEF NewSession, SessionFields
      <4>3. hist[k].summaries = <<>> /\ hist[k].queued = 0 /\ hist[k].seen = 0
        BY <1>1 DEF ChannelInv, Untouched
      <4>4. hist'[k].summaries = <<>> /\ hist'[k].queued = 0 /\ hist'[k].seen = 0
        BY <2>4, <4>3
      <4>5. Counts(sessions'[r], hist'[k])
        BY <4>2, <4>4 DEF Counts
      <4> HIDE DEF kept, cmd
      <4>6. QED
        BY <2>1, <3>2, <4>1, <4>2, <4>5 DEF Waiting
    <3>3. QED
      BY <3>1, <3>2
  <2>9. ASSUME NEW r \in DOMAIN sessions', NEW q \in DOMAIN sessions',
               sessions'[r].task = sessions'[q].task
        PROVE  r = q
    <3>1. CASE r \in kept /\ q \in kept
      BY <2>3, <2>8, <2>9, <3>1 DEF ChannelInv, SessionsCount, Armed
    <3>2. CASE ~(r \in kept /\ q \in kept)
      BY <2>8, <2>9, <3>2
    <3>3. QED
      BY <3>1, <3>2
  <2>10. SessionsCount'
    <3>1. sessions' = [r \in DOMAIN sessions' |-> sessions'[r]]
      BY <2>2
    <3> HIDE DEF s2, kept
    <3>2. QED
      BY <2>8, <2>9, <3>1 DEF SessionsCount, Armed, Waiting
  <2>11. QED
    BY <2>1, <2>5, <2>6, <2>7, <2>10, SessionStep DEF HandleStart
<1>5. QED
  BY <1>2, <1>3, <1>4 DEF HandleStart

\* DiagnosticRegistry::cancel and sweep_expired
LEMMA CloseKeeps ==
    ASSUME ChannelInv, NEW R \in SUBSET DOMAIN sessions, CloseSessions(R),
           UNCHANGED <<probes, conns>>,
           tasks' = [j \in Tasks |-> tasks'[j]],
           \A j \in Tasks : DOMAIN tasks'[j] = {"pc", "cmd"},
           \A j \in Tasks : Waiting(j)' => Waiting(j)
    PROVE  ChannelInv'
<1> DEFINE Closed(t) == \E r \in R : sessions[r].task = t
<1>1. ChannelTypes /\ SessionsCount /\ Untouched /\ SummaryExact
  BY DEF ChannelInv
<1>2. ASSUME NEW t \in Tasks, ~Closed(t)
      PROVE  hist'[t] = hist[t]
  BY <1>2 DEF CloseSessions
<1>3. ASSUME NEW t \in Tasks, Closed(t)
      PROVE  /\ hist'[t] \in History
             /\ hist'[t].seen = hist[t].seen /\ hist'[t].queued = hist[t].queued
             /\ hist'[t].summaries = <<[matched |-> hist[t].queued,
                                        dropped |-> hist[t].seen - hist[t].queued]>>
  <2> DEFINE x == CHOOSE r \in R : sessions[r].task = t
  <2>1. x \in R /\ sessions[x].task = t
    BY <1>3
  <2>2. Counts(sessions[x], hist[t])
    BY <1>1, <2>1 DEF SessionsCount
  <2>3. hist'[t] = [hist[t] EXCEPT !.end = "summary",
                                   !.summaries = Append(@, [matched |-> sessions[x].matched,
                                                            dropped |-> sessions[x].dropped])]
    BY <1>3 DEF CloseSessions
  <2>4. hist[t] \in History /\ hist[t].queued \in Nat /\ hist[t].seen \in Nat
    BY <1>1 DEF ChannelTypes, History
  <2> HIDE DEF x
  <2> DEFINE sum == [matched |-> sessions[x].matched, dropped |-> sessions[x].dropped]
  <2>5. sum \in Count /\ hist[t].summaries = <<>>
    BY <2>2 DEF Counts, Count
  <2>6. Append(hist[t].summaries, sum) = <<sum>> /\ <<sum>> \in Seq(Count)
    BY <2>5
  <2>7. sum = [matched |-> hist[t].queued, dropped |-> hist[t].seen - hist[t].queued]
    <3>1. sessions[x].dropped = hist[t].seen - hist[t].queued
      BY <2>2, <2>4 DEF Counts
    <3>2. QED
      BY <2>2, <3>1 DEF Counts
  <2> HIDE DEF sum
  <2>8. hist'[t] = [hist[t] EXCEPT !.end = "summary", !.summaries = <<sum>>]
    BY <2>3, <2>6 DEF sum
  <2>9. QED
    BY <2>4, <2>6, <2>7, <2>8 DEF History
<1> HIDE DEF Closed
<1>4. hist' \in [Tasks -> History]
  <2>1. DOMAIN hist' = Tasks /\ hist' = [t \in Tasks |-> hist'[t]]
    BY DEF CloseSessions
  <2>2. ASSUME NEW t \in Tasks PROVE hist'[t] \in History
    BY <1>1, <1>2, <1>3 DEF ChannelTypes
  <2>3. QED
    BY <2>1, <2>2
<1>5. SummaryExact'
  <2>1. ASSUME NEW t \in Tasks
        PROVE  /\ Len(hist'[t].summaries) <= 1
               /\ \A i \in DOMAIN hist'[t].summaries : hist'[t].summaries[i] =
                    [matched |-> hist'[t].queued, dropped |-> hist'[t].seen - hist'[t].queued]
    <3>1. CASE Closed(t)
      <4> DEFINE sum == [matched |-> hist[t].queued, dropped |-> hist[t].seen - hist[t].queued]
      <4>1. hist'[t].summaries = <<sum>> /\ hist'[t].queued = hist[t].queued /\ hist'[t].seen = hist[t].seen
        BY <1>3, <3>1
      <4>2. sum = [matched |-> hist'[t].queued, dropped |-> hist'[t].seen - hist'[t].queued]
        BY <4>1
      <4> HIDE DEF sum
      <4>3. Len(<<sum>>) <= 1 /\ \A i \in DOMAIN <<sum>> : <<sum>>[i] = sum
        OBVIOUS
      <4>4. QED
        BY <4>1, <4>2, <4>3
    <3>2. CASE ~Closed(t)
      BY <1>1, <1>2, <3>2 DEF SummaryExact
    <3>3. QED
      BY <3>1, <3>2
  <2>2. QED
    BY <2>1 DEF SummaryExact
<1>6. ASSUME NEW t \in Tasks, Closed(t) PROVE ~Waiting(t)
  BY <1>1, <1>6 DEF Closed, SessionsCount, Armed
<1>7. Untouched'
  BY <1>1, <1>2, <1>6 DEF Untouched
<1>8. SessionsCount'
  <2>1. sessions' = [r \in DOMAIN sessions \ R |-> sessions[r]]
    BY DEF CloseSessions
  <2>2. ASSUME NEW r \in DOMAIN sessions'
        PROVE  /\ r \in DOMAIN sessions /\ sessions'[r] = sessions[r]
               /\ sessions[r].task \in Tasks /\ ~Closed(sessions[r].task)
    BY <1>1, <2>1 DEF SessionsCount, Armed, Closed
  <2>3. ASSUME NEW r \in DOMAIN sessions'
        PROVE  Counts(sessions'[r], hist'[sessions'[r].task])
    BY <1>1, <1>2, <2>2 DEF SessionsCount
  <2>4. sessions' = [r \in DOMAIN sessions' |-> sessions'[r]]
    BY <2>1
  <2>5. QED
    BY <1>1, <2>2, <2>3, <2>4 DEF SessionsCount, Armed, Waiting
<1>9. QED
  BY <1>4, <1>5, <1>7, <1>8, SessionStep

\* A command has at most one session.
LEMMA OneSession ==
    ASSUME SessionsCount, NEW S \in SUBSET DOMAIN sessions, NEW t
    PROVE  Cardinality({r \in S : sessions[r].task = t}) =
               IF \E r \in S : sessions[r].task = t THEN 1 ELSE 0
<1> DEFINE T == {r \in S : sessions[r].task = t}
<1>1. CASE \E r \in S : sessions[r].task = t
  <2>1. PICK r \in S : sessions[r].task = t
    BY <1>1
  <2>2. T = {r}
    BY <2>1 DEF SessionsCount, Armed
  <2>3. Cardinality({r}) = 1
    BY FS_Singleton
  <2>4. QED
    BY <1>1, <2>2, <2>3
<1>2. CASE ~ \E r \in S : sessions[r].task = t
  <2>1. T = {}
    BY <1>2
  <2>2. QED
    BY <1>2, <2>1, FS_EmptySet
<1>3. QED
  BY <1>1, <1>2

\* DiagnosticRegistry::record
LEMMA RecordCounts ==
    ASSUME ChannelInv, NEW c, record(c), UNCHANGED tasks
    PROVE  hist' \in [Tasks -> History] /\ SessionsCount' /\ Untouched' /\ SummaryExact'
<1> DEFINE wanting == {r \in Live : matches(sessions[r], c) /\ EventType(c) \in sessions[r].types}
           Of(S, t) == Cardinality({r \in S : sessions[r].task = t})
<1>1. ChannelTypes /\ SessionsCount /\ Untouched /\ SummaryExact
  BY DEF ChannelInv
<1>2. wanting \subseteq DOMAIN sessions
  BY DEF Live
<1>3. PICK sent \in SUBSET wanting :
        /\ sessions' = [r \in DOMAIN sessions |->
                            CASE r \in sent -> [sessions[r] EXCEPT !.matched = @ + 1]
                              [] r \in wanting \ sent -> [sessions[r] EXCEPT !.dropped = @ + 1]
                              [] OTHER -> sessions[r]]
        /\ hist' = [t \in Tasks |->
                        [hist[t] EXCEPT
                           !.queued = @ + Of(sent, t),
                           !.seen = @ + Cardinality({r \in Live : sessions[r].task = t
                                                       /\ matches(sessions[r], c)
                                                       /\ EventType(c) \in sessions[r].types})]]
  BY DEF record
<1>4. ASSUME NEW t \in Tasks
      PROVE  hist'[t] = [hist[t] EXCEPT !.queued = @ + Of(sent, t), !.seen = @ + Of(wanting, t)]
  <2>1. {r \in Live : sessions[r].task = t /\ matches(sessions[r], c)
                         /\ EventType(c) \in sessions[r].types}
          = {r \in wanting : sessions[r].task = t}
    OBVIOUS
  <2>2. QED
    BY <1>3, <2>1
<1>5. ASSUME NEW r \in DOMAIN sessions
      PROVE  sessions'[r] = IF r \in sent THEN [sessions[r] EXCEPT !.matched = @ + 1]
                            ELSE IF r \in wanting THEN [sessions[r] EXCEPT !.dropped = @ + 1]
                            ELSE sessions[r]
  BY <1>3
<1>6. DOMAIN sessions' = DOMAIN sessions /\ sessions' = [r \in DOMAIN sessions |-> sessions'[r]]
  BY <1>3
<1>7. DOMAIN hist' = Tasks /\ hist' = [t \in Tasks |-> hist'[t]]
  BY <1>3
<1>8. ASSUME NEW t \in Tasks
      PROVE  /\ Of(sent, t) = IF \E r \in sent : sessions[r].task = t THEN 1 ELSE 0
             /\ Of(wanting, t) = IF \E r \in wanting : sessions[r].task = t THEN 1 ELSE 0
  BY <1>1, <1>2, OneSession
<1> HIDE DEF wanting, Of
<1>9. ASSUME NEW t \in Tasks
      PROVE  /\ hist'[t] \in History /\ hist'[t].summaries = hist[t].summaries
             /\ hist'[t].queued = hist[t].queued + Of(sent, t)
             /\ hist'[t].seen = hist[t].seen + Of(wanting, t)
  <2>1. hist[t] \in History
    BY <1>1 DEF ChannelTypes
  <2>2. Of(sent, t) \in Nat /\ Of(wanting, t) \in Nat
    BY <1>8
  <2> DEFINE Upd(h, a, b) == [h EXCEPT !.queued = h.queued + a, !.seen = h.seen + b]
  <2>3. hist'[t] = Upd(hist[t], Of(sent, t), Of(wanting, t))
    BY <1>4
  <2>4. ASSUME NEW a \in Nat, NEW b \in Nat, NEW h \in History
        PROVE  /\ Upd(h, a, b) \in History /\ Upd(h, a, b).summaries = h.summaries
               /\ Upd(h, a, b).queued = h.queued + a /\ Upd(h, a, b).seen = h.seen + b
    <3> DEFINE qa == h.queued + a
               sb == h.seen + b
    <3>1. qa \in Nat /\ sb \in Nat
      BY DEF History
    <3> HIDE DEF qa, sb
    <3>2. /\ [h EXCEPT !.queued = qa, !.seen = sb] \in History
          /\ [h EXCEPT !.queued = qa, !.seen = sb].summaries = h.summaries
          /\ [h EXCEPT !.queued = qa, !.seen = sb].queued = qa
          /\ [h EXCEPT !.queued = qa, !.seen = sb].seen = sb
      BY <3>1 DEF History
    <3>3. QED
      BY <3>2 DEF qa, sb
  <2> HIDE DEF Upd
  <2>5. QED
    BY <2>1, <2>2, <2>3, <2>4
<1>10. ASSUME NEW t \in Tasks, \A r \in DOMAIN sessions : sessions[r].task # t
       PROVE  /\ hist'[t].summaries = hist[t].summaries
              /\ hist'[t].queued = hist[t].queued /\ hist'[t].seen = hist[t].seen
  <2>1. Of(sent, t) = 0 /\ Of(wanting, t) = 0
    BY <1>2, <1>8, <1>10
  <2>2. hist[t].queued \in Nat /\ hist[t].seen \in Nat
    BY <1>1 DEF ChannelTypes, History
  <2>3. QED
    BY <1>9, <2>1, <2>2
<1>11. ASSUME NEW r \in DOMAIN sessions
       PROVE  sessions'[r].task = sessions[r].task /\ Counts(sessions'[r], hist'[sessions[r].task])
  <2> DEFINE t == sessions[r].task
  <2>1. t \in Tasks /\ Counts(sessions[r], hist[t]) /\ DOMAIN sessions[r] = SessionFields
    BY <1>1 DEF SessionsCount, Armed, Counts
  <2>2. \A q \in DOMAIN sessions : sessions[q].task = t => q = r
    BY <1>1 DEF SessionsCount, Armed
  <2>3. /\ Of(sent, t) = IF r \in sent THEN 1 ELSE 0
        /\ Of(wanting, t) = IF r \in wanting THEN 1 ELSE 0
    BY <1>2, <1>8, <2>1, <2>2
  <2>4. CASE r \in sent
    <3>1. sessions'[r] = [sessions[r] EXCEPT !.matched = @ + 1]
      BY <1>5, <2>4
    <3>2. /\ sessions'[r].task = t /\ sessions'[r].matched = sessions[r].matched + 1
          /\ sessions'[r].dropped = sessions[r].dropped /\ DOMAIN sessions'[r] = SessionFields
      BY <2>1, <3>1 DEF SessionFields
    <3>3. hist'[t].queued = hist[t].queued + 1 /\ hist'[t].seen = hist[t].seen + 1
      BY <1>9, <2>1, <2>3, <2>4, <1>3
    <3>4. /\ sessions'[r].matched \in Nat /\ sessions'[r].dropped \in Nat
          /\ hist'[t].queued = sessions'[r].matched
          /\ hist'[t].seen = sessions'[r].matched + sessions'[r].dropped
      BY <2>1, <3>2, <3>3 DEF Counts
    <3>5. hist'[t].summaries = <<>>
      BY <1>9, <2>1 DEF Counts
    <3> HIDE DEF t
    <3>6. QED
      BY <3>2, <3>4, <3>5 DEF Counts, t
  <2>5. CASE r \in wanting /\ r \notin sent
    <3>1. sessions'[r] = [sessions[r] EXCEPT !.dropped = @ + 1]
      BY <1>5, <2>5
    <3>2. /\ sessions'[r].task = t /\ sessions'[r].matched = sessions[r].matched
          /\ sessions'[r].dropped = sessions[r].dropped + 1 /\ DOMAIN sessions'[r] = SessionFields
      BY <2>1, <3>1 DEF SessionFields
    <3>3. hist'[t].queued = hist[t].queued + 0 /\ hist'[t].seen = hist[t].seen + 1
      BY <1>9, <2>1, <2>3, <2>5
    <3>4. QED
      BY <1>9, <2>1, <3>2, <3>3 DEF Counts
  <2>6. CASE r \notin wanting
    <3>1. sessions'[r] = sessions[r]
      BY <1>5, <2>6
    <3>2. hist'[t].queued = hist[t].queued + 0 /\ hist'[t].seen = hist[t].seen + 0
      BY <1>9, <2>1, <2>3, <2>6
    <3>3. QED
      BY <1>9, <2>1, <3>1, <3>2 DEF Counts
  <2>7. QED
    BY <2>4, <2>5, <2>6
<1>12. hist' \in [Tasks -> History]
  BY <1>7, <1>9
<1>13. SessionsCount'
  <2>1. ASSUME NEW r \in DOMAIN sessions'
        PROVE  sessions'[r].task = sessions[r].task /\ Counts(sessions'[r], hist'[sessions'[r].task])
    BY <1>6, <1>11
  <2>2. QED
    BY <1>1, <1>6, <2>1 DEF SessionsCount, Armed, Waiting
<1>14. Untouched'
  <2>1. ASSUME NEW t \in Tasks, Waiting(t) PROVE \A r \in DOMAIN sessions : sessions[r].task # t
    BY <1>1, <2>1 DEF SessionsCount, Armed
  <2>2. QED
    BY <1>1, <1>10, <2>1 DEF Untouched, Waiting
<1>15. SummaryExact'
  <2>1. ASSUME NEW t \in Tasks
        PROVE  /\ Len(hist'[t].summaries) <= 1
               /\ \A i \in DOMAIN hist'[t].summaries : hist'[t].summaries[i] =
                    [matched |-> hist'[t].queued, dropped |-> hist'[t].seen - hist'[t].queued]
    <3>1. CASE \E r \in DOMAIN sessions : sessions[r].task = t
      <4>1. hist'[t].summaries = <<>>
        BY <1>1, <1>9, <3>1 DEF SessionsCount, Counts
      <4>2. QED
        BY <4>1
    <3>2. CASE \A r \in DOMAIN sessions : sessions[r].task # t
      BY <1>1, <1>10, <3>2 DEF SummaryExact
    <3>3. QED
      BY <3>1, <3>2
  <2>2. QED
    BY <2>1 DEF SummaryExact
<1>16. QED
  BY <1>12, <1>13, <1>14, <1>15

\* ProbeTracer::finish
LEMMA FinishTakes ==
    ASSUME ChannelTypes, ProbesTaken, ProbeOnce, NEW c \in Conns, NEW o, finish(c, o),
           conns[c].at = "open", UNCHANGED tasks
    PROVE  /\ conns' \in [Conns -> [at : {"open", "sending", "done"}, probe : Tasks \cup {Free}]]
           /\ ProbesTaken' /\ ProbeOnce'
<1> DEFINE alive == {r \in DOMAIN probes : probes[r].expires > now}
           hits  == {r \in alive : matches(probes[r], o)}
<1>1. alive \subseteq DOMAIN probes /\ hits \subseteq alive
  OBVIOUS
<1>2. \A k \in Tasks : Waiting(k)' <=> Waiting(k)
  BY DEF Waiting
<1>3. CASE /\ probes' = [r \in alive |-> probes[r]]
           /\ conns' = [conns EXCEPT ![c] = [at |-> "done", probe |-> Free]]
  <2> HIDE DEF alive
  <2>1. conns' \in [Conns -> [at : {"open", "sending", "done"}, probe : Tasks \cup {Free}]]
    BY <1>3 DEF ChannelTypes
  <2>2. \A d \in Conns : conns'[d] = conns[d] \/ conns'[d].probe = Free
    BY <1>3 DEF ChannelTypes
  <2>3. ProbeOnce'
    BY <2>2 DEF ProbeOnce
  <2>4. Armed(probes')
    BY <1>1, <1>3 DEF ProbesTaken, Armed
  <2>5. ProbesTaken'
    BY <1>1, <1>2, <1>3, <2>2, <2>4 DEF ProbesTaken, Armed, Waiting
  <2>6. QED
    BY <2>1, <2>3, <2>5
<1>4. CASE \E r \in hits :
             /\ probes' = [q \in alive \ {r} |-> probes[q]]
             /\ conns' = [conns EXCEPT ![c] = [at |-> "sending", probe |-> probes[r].task]]
  <2>1. PICK r \in hits :
             /\ probes' = [q \in alive \ {r} |-> probes[q]]
             /\ conns' = [conns EXCEPT ![c] = [at |-> "sending", probe |-> probes[r].task]]
    BY <1>4
  <2> HIDE DEF alive, hits
  <2> DEFINE t == probes[r].task
  <2>2. r \in DOMAIN probes /\ t \in Tasks /\ ~Waiting(t)
    BY <1>1, <2>1 DEF ProbesTaken, Armed
  <2>3. conns' \in [Conns -> [at : {"open", "sending", "done"}, probe : Tasks \cup {Free}]]
    BY <2>1, <2>2 DEF ChannelTypes
  <2>4. \A d \in Conns : conns'[d].probe = IF d = c THEN t ELSE conns[d].probe
    BY <2>1 DEF ChannelTypes
  <2>5. \A d \in Conns : conns[d].probe # Free => conns[d].probe # t
    BY <2>2 DEF ProbesTaken
  <2>6. t # Free
    BY <2>2 DEF Tasks, Free
  <2>7. ProbeOnce'
    BY <2>4, <2>5, <2>6 DEF ProbeOnce
  <2>8. \A q \in DOMAIN probes' : q \in DOMAIN probes /\ probes'[q] = probes[q] /\ probes[q].task # t
    BY <1>1, <2>1, <2>2 DEF ProbesTaken, Armed
  <2>9. probes' = [q \in DOMAIN probes' |-> probes'[q]]
    BY <2>1
  <2>10. /\ \A q \in DOMAIN probes' : probes'[q].task \in Tasks /\ ~Waiting(probes[q].task)
         /\ \A q, p \in DOMAIN probes' : probes'[q].task = probes'[p].task => q = p
    BY <2>8 DEF ProbesTaken, Armed
  <2> HIDE DEF t
  <2>11. ASSUME NEW d \in Conns, conns'[d].probe # Free
         PROVE  /\ tasks'[conns'[d].probe].pc \notin {"idle", "spawned"}
                /\ \A q \in DOMAIN probes' : probes'[q].task # conns'[d].probe
    <3>1. CASE d = c
      BY <2>2, <2>4, <2>8, <3>1 DEF Waiting
    <3>2. CASE d # c
      BY <2>4, <2>8, <2>11, <3>2 DEF ProbesTaken, Waiting
    <3>3. QED
      BY <3>1, <3>2
  <2>12. ProbesTaken'
    BY <2>8, <2>9, <2>10, <2>11 DEF ProbesTaken, Armed, Waiting
  <2>13. QED
    BY <2>3, <2>7, <2>12
<1>5. QED
  BY <1>3, <1>4 DEF finish

LEMMA CompleteKeeps ==
    ASSUME ChannelInv, NEW c \in Conns, NEW o, Complete(c, o)
    PROVE  ChannelInv'
<1>1. hist' \in [Tasks -> History] /\ SessionsCount' /\ Untouched' /\ SummaryExact'
  BY RecordCounts DEF Complete
<1>2. /\ conns' \in [Conns -> [at : {"open", "sending", "done"}, probe : Tasks \cup {Free}]]
      /\ ProbesTaken' /\ ProbeOnce'
  BY FinishTakes DEF Complete, ChannelInv
<1>3. ChannelTypes'
  BY <1>1, <1>2 DEF Complete, ChannelInv, ChannelTypes
<1>4. QED
  BY <1>1, <1>2, <1>3 DEF ChannelInv

\* ProbeTracer::arm
LEMMA ProbeKeeps ==
    ASSUME ChannelInv, NEW k \in Tasks, HandleProbe(k)
    PROVE  ChannelInv'
<1> DEFINE cmd == tasks[k].cmd
           arm == [task |-> k, user |-> cmd.user, host |-> cmd.host,
                   expires |-> now + clamp_ttl(cmd.ttl, ProbeDefaultTtl, ProbeMaxTtl)]
<1>1. ChannelTypes /\ Waiting(k)
  BY DEF ChannelInv, HandleProbe, Running, Waiting
<1>2. CASE Goto(k, "done") /\ UNCHANGED <<probes, hist>>
  BY <1>2, QuietTask DEF HandleProbe
<1>3. CASE /\ probes' = [r \in DOMAIN probes \cup {cmd.req} |-> IF r = cmd.req THEN arm ELSE probes[r]]
           /\ hist' = [hist EXCEPT ![k].end = "armed"]
           /\ Goto(k, "reply")
  <2>1. /\ tasks' = [j \in Tasks |-> tasks'[j]]
        /\ \A j \in Tasks : DOMAIN tasks'[j] = {"pc", "cmd"}
        /\ \A j \in Tasks : Waiting(j)' => Waiting(j) /\ j # k
    BY <1>1, <1>3, HandledOnce
  <2>2. hist' \in [Tasks -> History] /\ \A t \in Tasks : /\ hist'[t].summaries = hist[t].summaries
                                                         /\ hist'[t].queued = hist[t].queued
                                                         /\ hist'[t].seen = hist[t].seen
    BY <1>1, <1>3 DEF ChannelTypes, History
  <2>3. ChannelTypes'
    BY <2>1, <2>2 DEF ChannelInv, ChannelTypes, HandleProbe
  <2>4. Untouched'
    BY <2>1, <2>2 DEF ChannelInv, Untouched
  <2>5. SummaryExact'
    BY <2>2 DEF ChannelInv, SummaryExact
  <2>6. ProbeOnce'
    BY DEF ChannelInv, ProbeOnce, HandleProbe
  <2>7. SessionsCount'
    <3>1. UNCHANGED sessions
      BY DEF HandleProbe
    <3>2. ASSUME NEW r \in DOMAIN sessions
          PROVE  Counts(sessions[r], hist'[sessions[r].task])
      BY <2>2 DEF ChannelInv, SessionsCount, Armed, Counts
    <3>3. ASSUME NEW r \in DOMAIN sessions
          PROVE  Counts(sessions'[r], hist'[sessions'[r].task])
      BY <3>1, <3>2
    <3>4. QED
      BY <2>1, <3>1, <3>3 DEF ChannelInv, SessionsCount, Armed
  <2>8. arm.task = k
    OBVIOUS
  <2> HIDE DEF cmd, arm
  <2>9. probes' = [r \in DOMAIN probes' |-> probes'[r]] /\ DOMAIN probes' = DOMAIN probes \cup {cmd.req}
    BY <1>3
  <2>10. ASSUME NEW r \in DOMAIN probes'
         PROVE  IF r = cmd.req THEN probes'[r].task = k
                ELSE r \in DOMAIN probes /\ probes'[r] = probes[r] /\ probes[r].task \in Tasks
                     /\ ~Waiting(probes[r].task) /\ probes[r].task # k
    BY <1>1, <1>3, <2>8, <2>9 DEF ChannelInv, ProbesTaken, Armed
  <2>11. Armed(probes)'
    BY <2>1, <2>9, <2>10 DEF ChannelInv, ProbesTaken, Armed
  <2>12. ASSUME NEW c \in Conns, conns[c].probe # Free
         PROVE  /\ conns[c].probe \in Tasks /\ ~Waiting(conns[c].probe) /\ conns[c].probe # k
                /\ \A r \in DOMAIN probes' : probes'[r].task # conns[c].probe
    BY <1>1, <2>10, <2>12 DEF ChannelInv, ChannelTypes, ProbesTaken
  <2>13. ProbesTaken'
    BY <2>1, <2>11, <2>12 DEF ProbesTaken, HandleProbe
  <2>14. QED
    BY <2>3, <2>4, <2>5, <2>6, <2>7, <2>13 DEF ChannelInv
<1>4. QED
  BY <1>2, <1>3 DEF HandleProbe

LEMMA CancelKeeps ==
    ASSUME ChannelInv, NEW k \in Tasks, HandleCancel(k)
    PROVE  ChannelInv'
<1>1. ChannelTypes
  BY DEF ChannelInv
<1>2. PICK at \in {"reply", "done"} : Goto(k, at)
  BY DEF HandleCancel
<1>3. QED
  BY <1>1, <1>2, HandledOnce, CloseKeeps DEF HandleCancel

LEMMA SyncKeeps ==
    ASSUME ChannelInv, NEW k \in Tasks, NEW polling, HandleSync(k, polling)
    PROVE  ChannelInv'
<1>1. ChannelTypes
  BY DEF ChannelInv
<1>2. CASE Goto(k, "reply") /\ UNCHANGED hist
  BY <1>2, QuietTask DEF HandleSync
<1>3. CASE Goto(k, "syncing") /\ hist' = [hist EXCEPT ![k].end = "sync"]
  <2>1. /\ tasks' = [j \in Tasks |-> tasks'[j]]
        /\ \A j \in Tasks : DOMAIN tasks'[j] = {"pc", "cmd"}
        /\ \A j \in Tasks : Waiting(j)' => Waiting(j)
    BY <1>1, <1>3, HandledOnce
  <2>2. hist' \in [Tasks -> History] /\ \A t \in Tasks : /\ hist'[t].summaries = hist[t].summaries
                                                         /\ hist'[t].queued = hist[t].queued
                                                         /\ hist'[t].seen = hist[t].seen
    BY <1>1, <1>3 DEF ChannelTypes, History
  <2>3. Untouched'
    BY <2>1, <2>2 DEF ChannelInv, Untouched
  <2>4. SummaryExact'
    BY <2>2 DEF ChannelInv, SummaryExact
  <2>5. SessionsCount'
    <3>1. UNCHANGED sessions
      BY DEF HandleSync
    <3>2. ASSUME NEW r \in DOMAIN sessions
          PROVE  Counts(sessions[r], hist'[sessions[r].task])
      BY <2>2 DEF ChannelInv, SessionsCount, Armed, Counts
    <3>3. ASSUME NEW r \in DOMAIN sessions
          PROVE  Counts(sessions'[r], hist'[sessions'[r].task])
      BY <3>1, <3>2
    <3>4. QED
      BY <2>1, <3>1, <3>3 DEF ChannelInv, SessionsCount, Armed
  <2>6. QED
    BY <2>1, <2>2, <2>3, <2>4, <2>5, SessionStep DEF HandleSync
<1>4. QED
  BY <1>2, <1>3 DEF HandleSync

LEMMA SendReportKeeps ==
    ASSUME ChannelInv, NEW c \in Conns, SendReport(c)
    PROVE  ChannelInv'
<1>1. /\ conns' \in [Conns -> [at : {"open", "sending", "done"}, probe : Tasks \cup {Free}]]
      /\ \A d \in Conns : conns'[d].probe = conns[d].probe
  BY DEF ChannelInv, ChannelTypes, SendReport
<1>2. ChannelTypes'
  BY <1>1 DEF ChannelInv, ChannelTypes, SendReport
<1>3. SessionsCount' /\ Untouched'
  BY DEF ChannelInv, SessionsCount, Untouched, Armed, Counts, Waiting, SendReport
<1>4. SummaryExact'
  BY DEF ChannelInv, SummaryExact, SendReport
<1>5. ProbeOnce'
  BY <1>1 DEF ChannelInv, ProbeOnce
<1>6. ProbesTaken'
  BY <1>1 DEF ChannelInv, ProbesTaken, Armed, Waiting, SendReport
<1>7. QED
  BY <1>2, <1>3, <1>4, <1>5, <1>6 DEF ChannelInv

LEMMA HandlerKeeps ==
    ASSUME ChannelInv, NEW k \in Tasks, Handler(k)
    PROVE  ChannelInv'
<1>1. CASE SyncDone(k)
  BY <1>1, QuietTask DEF SyncDone
<1>2. CASE Reply(k)
  BY <1>2, QuietTask DEF Reply
<1>3. CASE HandleQuery(k)
  BY <1>3, QuietTask DEF HandleQuery
<1>4. CASE HandleGarbled(k)
  BY <1>4, QuietTask DEF HandleGarbled
<1>5. QED
  BY <1>1, <1>2, <1>3, <1>4, StartKeeps, CancelKeeps, ProbeKeeps, SyncKeeps DEF Handler

LEMMA EventLoopKeeps ==
    ASSUME ChannelInv, EventLoop
    PROVE  ChannelInv'
<1>1. CASE LoopSweep
  <2>1. DOMAIN sessions \ Live \in SUBSET DOMAIN sessions
    OBVIOUS
  <2>2. /\ tasks' = [j \in Tasks |-> tasks'[j]]
        /\ \A j \in Tasks : DOMAIN tasks'[j] = {"pc", "cmd"}
        /\ \A j \in Tasks : Waiting(j)' => Waiting(j)
    BY <1>1 DEF ChannelInv, ChannelTypes, Waiting, LoopSweep
  <2>3. QED
    BY <1>1, <2>1, <2>2, CloseKeeps DEF LoopSweep
<1>2. CASE LoopConnAck \/ LoopFlush \/ LoopError \/ LoopTrace \/ LoopDiag \/ LoopPublish
  BY <1>2, QuietLoop DEF LoopConnAck, LoopFlush, LoopError, LoopTrace, LoopDiag, LoopPublish
<1>3. QED
  BY <1>1, <1>2, DeliverKeeps DEF EventLoop

LEMMA ChannelInvInit == ChannelInit => ChannelInv
<1> SUFFICES ASSUME ChannelInit PROVE ChannelInv
  OBVIOUS
<1>1. DOMAIN <<>> = {} /\ <<>> \in Seq(Count) /\ Len(<<>>) = 0
  OBVIOUS
<1>2. ChannelTypes
  BY <1>1 DEF ChannelInit, ChannelTypes, History, None
<1>3. SessionsCount /\ Untouched
  BY <1>1 DEF ChannelInit, SessionsCount, Untouched, Armed
<1>4. SummaryExact
  BY <1>1 DEF ChannelInit, SummaryExact
<1>5. ProbesTaken /\ ProbeOnce
  BY <1>1 DEF ChannelInit, ProbesTaken, ProbeOnce, Armed
<1>6. QED
  BY <1>2, <1>3, <1>4, <1>5 DEF ChannelInv

LEMMA ChannelInvNext == ChannelInv /\ [ChannelNext]_channelVars => ChannelInv'
<1> SUFFICES ASSUME ChannelInv, [ChannelNext]_channelVars PROVE ChannelInv'
  OBVIOUS
<1>1. CASE Tick \/ UNCHANGED channelVars
  BY <1>1, QuietLoop DEF Tick, channelVars
<1>2. QED
  BY <1>1, EventLoopKeeps, HandlerKeeps, SendReportKeeps, CompleteKeeps DEF ChannelNext

LEMMA ChannelAlways == ChannelSpec => []ChannelInv
  BY ChannelInvInit, ChannelInvNext, PTL DEF ChannelSpec

\* A diagnostic session closes with at most one summary, and that summary counts every
\* connection that concerned it once, queued or dropped, however starts, cancels, sweeps
\* and ends of connections interleave (DiagnosticRegistry of diagnostics.rs).
THEOREM SummariesExact == ChannelSpec => []SummaryExact
<1>1. ChannelInv => SummaryExact
  BY DEF ChannelInv
<1>2. QED
  BY <1>1, ChannelAlways, PTL

\* No two connections report to the same arm of a probe (ProbeTracer::finish of trace.rs).
THEOREM ProbesReportOnce == ChannelSpec => []ProbeOnce
<1>1. ChannelInv => ProbeOnce
  BY DEF ChannelInv
<1>2. QED
  BY <1>1, ChannelAlways, PTL

===============================================================================
