----------------------------- MODULE SnapshotSync -----------------------------
(***************************************************************************)
(* How a Rove node keeps its policy: the Syncer (src/src/sync/mod.rs), the *)
(* address book service and its file poller (src/src/addrbook/mod.rs), the *)
(* hot-swapped snapshot of the Engine (src/src/engine.rs), the on-disk     *)
(* cache, and crashes between any two of their steps.                      *)
(*                                                                         *)
(* Three tasks run concurrently: the polling loop ("poll"), the MQTT sync  *)
(* command ("mqtt") and the address book poller ("book").  They share the  *)
(* gate, an async mutex that is held across the HTTP request.              *)
(*                                                                         *)
(* A control-plane document is its version.  What compiling it depends on  *)
(* is the relation Compat: version v compiles against book b iff           *)
(* <<v, b>> \in Compat (a book: selector of an unknown category, a schema  *)
(* error or an exceeded budget makes the whole document fail).             *)
(***************************************************************************)
EXTENDS Naturals

CONSTANTS
    MaxVersion,    \* bound on the documents the control plane publishes
    MaxStamp,      \* bound on the releases of the address book artifact
    MaxCrashes,    \* bound on the crashes in a behaviour
    MaxFailures,   \* the saturation point of consecutive_failures
    Book,          \* the address books that may be released
    Corrupt,       \* an artifact that fails validation
    Compat         \* which documents compile against which books

ASSUME SyncAssumption ==
    /\ MaxVersion \in Nat /\ MaxStamp \in Nat
    /\ MaxCrashes \in Nat /\ MaxFailures \in Nat
    /\ Book # {} /\ Corrupt \notin Book
    /\ Compat \subseteq (1 .. MaxVersion) \X Book

VARIABLES
    published,     \* newest document of the control plane
    disk,          \* the artifact file: its content and its identity stamp
    up,            \* the process runs
    crashes,       \* crashes so far
    cache,         \* the snapshot cache file as the file system shows it
    durable,       \* ... and as a power loss would leave it
    serving,       \* Engine.snap: document and the book it was compiled with
    last_raw,      \* Syncer.last_raw: the last document applied, 0 if none
    book,          \* AddrBookService.current
    last_stamp,    \* AddrBookService.last_stamp
    gate,          \* Syncer.gate: the task that holds it, or "free"
    pc,            \* where each task is
    job,           \* what each task carries from one step to the next
    failures       \* SyncHealth.consecutive_failures

vars == <<published, disk, up, crashes, cache, durable, serving, last_raw,
          book, last_stamp, gate, pc, job, failures>>

Syncing == {"poll", "mqtt"}
Task    == Syncing \cup {"book"}
Version == 0 .. MaxVersion

\* Contents of the cache file: no file is version 0; synced says whether the
\* bytes reached the disk before the file got its name.
CacheFile == [doc : Version, synced : BOOLEAN]
NoCache   == [doc |-> 0, synced |-> TRUE]

AnyBook == Book \cup {Corrupt}

\* An idle task carries nothing; Corrupt stands for "no book".
NoJob == [since |-> 0, doc |-> 0, book |-> Corrupt, stamp |-> 0, synced |-> FALSE]
Job   == [since : Version, doc : Version, book : AnyBook, stamp : 0 .. MaxStamp,
          synced : BOOLEAN]

Phase == {"idle", "fetch", "write", "sync", "rename", "dirsync", "swap",
          "want", "replace"}

TypeOK ==
    /\ published \in Version
    /\ disk \in [book : AnyBook, stamp : 0 .. MaxStamp]
    /\ up \in BOOLEAN
    /\ crashes \in 0 .. MaxCrashes
    /\ cache \in CacheFile
    /\ durable \in CacheFile
    /\ serving \in [doc : Version, book : AnyBook]
    /\ last_raw \in Version
    /\ book \in AnyBook
    /\ last_stamp \in 0 .. MaxStamp
    /\ gate \in Task \cup {"free"}
    /\ pc \in [Task -> Phase]
    /\ job \in [Task -> Job]
    /\ failures \in 0 .. MaxFailures

\* Snapshot::empty
EmptySnapshot == [doc |-> 0, book |-> Corrupt]

\* Snapshot::compile_with_book succeeds.
Compiles(doc, b) == <<doc, b>> \in Compat

Init ==
    /\ published = 0
    /\ \E b \in Book : disk = [book |-> b, stamp |-> 0]
    /\ up = FALSE
    /\ crashes = 0
    /\ cache = NoCache /\ durable = NoCache
    /\ serving = EmptySnapshot /\ last_raw = 0
    /\ book = Corrupt /\ last_stamp = 0
    /\ gate = "free"
    /\ pc = [t \in Task |-> "idle"] /\ job = [t \in Task |-> NoJob]
    /\ failures = 0

policy == <<serving, last_raw, book>>
files  == <<cache, durable>>
world  == <<published, disk>>
life   == <<up, crashes>>

-------------------------------------------------------------------------------
(* The gate and the tasks' bookkeeping *)

\* A task moves on, still holding what it holds.
GoTo(t, phase) == pc' = [pc EXCEPT ![t] = phase]

\* A task ends its round; whoever holds the gate lets it go.
Finish(t) ==
    /\ pc' = [pc EXCEPT ![t] = "idle"]
    /\ job' = [job EXCEPT ![t] = NoJob]
    /\ gate' = IF gate = t THEN "free" ELSE gate

\* Faulty variant: the critical section is entered without the lock.
EnterAnyway(t) == gate' = gate

\* gate.lock() and gate.try_lock(): a busy gate makes sync_once wait and makes
\* try_sync_once give up without a state change.
TakeGate(t) == gate = "free" /\ gate' = t

\* record_health
RecordFailure == failures' = IF failures < MaxFailures THEN failures + 1 ELSE failures
RecordSuccess == failures' = 0

-------------------------------------------------------------------------------
(* Syncer::sync_once_locked *)

\* The version asked for is read under the gate, then the request is awaited.
StartSync(t) ==
    /\ up /\ pc[t] = "idle"
    /\ TakeGate(t)
    /\ job' = [job EXCEPT ![t].since = serving.doc]
    /\ GoTo(t, "fetch")
    /\ UNCHANGED <<world, life, files, policy, last_stamp, failures>>

\* fetch: a transport error, a status other than 200 or 304, an oversize or an
\* undecodable body.
FetchFails(t) ==
    /\ pc[t] = "fetch"
    /\ RecordFailure
    /\ Finish(t)
    /\ UNCHANGED <<world, life, files, policy, last_stamp>>

\* Faulty variant: documents that are not newer are applied too.
NotSkipped(since, doc) == TRUE

\* The answer is news only above the version asked for.
IsNewer(since, doc) == doc > since

\* fetch: 304, or a document that is not newer.  A cache or object store in
\* between may answer with any document published before.
FetchNothing(t) ==
    /\ pc[t] = "fetch"
    /\ RecordSuccess
    /\ Finish(t)
    /\ UNCHANGED <<world, life, files, policy, last_stamp>>

\* apply_remote, first part: compile against the current book.  A document that
\* does not compile is refused and nothing changes but the health record.
FetchDocument(t, doc) ==
    /\ pc[t] = "fetch"
    /\ IsNewer(job[t].since, doc)
    /\ \/ /\ Compiles(doc, book)
          /\ job' = [job EXCEPT ![t].doc = doc, ![t].book = book]
          /\ GoTo(t, "write")
          /\ UNCHANGED <<gate, failures>>
       \/ /\ ~Compiles(doc, book)
          /\ RecordFailure
          /\ Finish(t)
    /\ UNCHANGED <<world, life, files, policy, last_stamp>>

\* save_cache fails at some step: the temporary file is removed, a warning is
\* logged and the snapshot is applied all the same.
SaveFails(t) ==
    /\ pc[t] \in {"write", "sync", "rename"}
    /\ GoTo(t, "swap")
    /\ UNCHANGED <<world, life, files, policy, last_stamp, gate, job, failures>>

\* write_cache_temp_then_rename: create_new and write_all of a fresh file.
WriteTemp(t) ==
    /\ pc[t] = "write"
    /\ job' = [job EXCEPT ![t].synced = FALSE]
    /\ GoTo(t, "sync")
    /\ UNCHANGED <<world, life, files, policy, last_stamp, gate, failures>>

\* Faulty variant: the file is closed without sync_all.
SyncTempSkipped(t) ==
    /\ pc[t] = "sync"
    /\ GoTo(t, "rename")
    /\ UNCHANGED <<world, life, files, policy, last_stamp, gate, job, failures>>

\* file.sync_all()
SyncTemp(t) ==
    /\ pc[t] = "sync"
    /\ job' = [job EXCEPT ![t].synced = TRUE]
    /\ GoTo(t, "rename")
    /\ UNCHANGED <<world, life, files, policy, last_stamp, gate, failures>>

\* rename(tmp, path)
Rename(t) ==
    /\ pc[t] = "rename"
    /\ cache' = [doc |-> job[t].doc, synced |-> job[t].synced]
    /\ GoTo(t, "dirsync")
    /\ UNCHANGED <<world, life, durable, policy, last_stamp, gate, job, failures>>

\* sync_parent_dir: makes the rename durable, its own errors are ignored.
SyncDir(t) ==
    /\ pc[t] = "dirsync"
    /\ durable' \in {durable, cache}
    /\ GoTo(t, "swap")
    /\ UNCHANGED <<world, life, cache, policy, last_stamp, gate, job, failures>>

\* apply_remote, last part: remember_raw, then replace_snapshot.
Swap(t) ==
    /\ pc[t] = "swap"
    /\ last_raw' = job[t].doc
    /\ serving' = [doc |-> job[t].doc, book |-> job[t].book]
    /\ RecordSuccess
    /\ Finish(t)
    /\ UNCHANGED <<world, life, files, book, last_stamp>>

-------------------------------------------------------------------------------
(* The address book poller *)

\* poll_file_changes: the file identity changed and a stable, valid artifact was
\* read.  The same content as the serving book is only acknowledged.
ReadArtifact ==
    /\ up /\ pc["book"] = "idle"
    /\ disk.stamp # last_stamp
    /\ disk.book # Corrupt
    /\ \/ /\ disk.book = book
          /\ last_stamp' = disk.stamp
          /\ UNCHANGED <<pc, job>>
       \/ /\ disk.book # book
          /\ job' = [job EXCEPT !["book"].book = disk.book,
                                !["book"].stamp = disk.stamp]
          /\ GoTo("book", "want")
          /\ UNCHANGED last_stamp
    /\ UNCHANGED <<world, life, files, policy, gate, failures>>

\* Faulty variant: the candidate is installed without the trial.
InstallUntried ==
    /\ pc["book"] = "want"
    /\ TakeGate("book")
    /\ book' = job["book"].book
    /\ job' = [job EXCEPT !["book"].doc = last_raw]
    /\ GoTo("book", "replace")
    /\ UNCHANGED <<world, life, files, serving, last_raw, last_stamp, failures>>

\* adopt_addrbook up to service.install: under the gate, the last document is
\* trial-compiled against the candidate (no document yet needs no trial).
Install ==
    /\ pc["book"] = "want"
    /\ TakeGate("book")
    /\ last_raw = 0 \/ Compiles(last_raw, job["book"].book)
    /\ book' = job["book"].book
    /\ job' = [job EXCEPT !["book"].doc = last_raw]
    /\ GoTo("book", "replace")
    /\ UNCHANGED <<world, life, files, serving, last_raw, last_stamp, failures>>

\* Faulty variant: a rejected candidate is acknowledged.
RejectAcknowledged ==
    /\ pc["book"] = "want"
    /\ gate = "free"
    /\ last_raw # 0 /\ ~Compiles(last_raw, job["book"].book)
    /\ last_stamp' = job["book"].stamp
    /\ Finish("book")
    /\ UNCHANGED <<world, life, files, policy, failures>>

\* adopt_addrbook, the trial fails: the candidate is dropped and its stamp stays
\* unacknowledged, so the poller reads it again.
Reject ==
    /\ pc["book"] = "want"
    /\ gate = "free"
    /\ last_raw # 0 /\ ~Compiles(last_raw, job["book"].book)
    /\ Finish("book")
    /\ UNCHANGED <<world, life, files, policy, last_stamp, failures>>

\* engine.replace with the recompiled snapshot, then acknowledge_stamp.
Replace ==
    /\ pc["book"] = "replace"
    /\ serving' = IF job["book"].doc = 0 THEN serving
                  ELSE [doc |-> job["book"].doc, book |-> job["book"].book]
    /\ last_stamp' = job["book"].stamp
    /\ Finish("book")
    /\ UNCHANGED <<world, life, files, last_raw, book, failures>>

-------------------------------------------------------------------------------
(* Process start, crashes, and the world outside *)

\* main: AddrBookService::load (an invalid artifact aborts the start), then
\* Syncer::load_cache.  A missing or undecodable cache, or one that no longer
\* compiles, leaves the engine empty.
Start ==
    /\ ~up
    /\ disk.book # Corrupt
    /\ up' = TRUE
    /\ book' = disk.book
    /\ last_stamp' = disk.stamp
    /\ IF Compiles(cache.doc, disk.book) /\ cache.synced
       THEN /\ serving' = [doc |-> cache.doc, book |-> disk.book]
            /\ last_raw' = cache.doc
       ELSE UNCHANGED <<serving, last_raw>>
    /\ UNCHANGED <<world, crashes, files, gate, pc, job, failures>>

\* Everything in memory is lost.
Forget ==
    /\ up /\ crashes < MaxCrashes
    /\ up' = FALSE
    /\ crashes' = crashes + 1
    /\ serving' = EmptySnapshot /\ last_raw' = 0
    /\ book' = Corrupt /\ last_stamp' = 0
    /\ gate' = "free"
    /\ pc' = [t \in Task |-> "idle"] /\ job' = [t \in Task |-> NoJob]
    /\ failures' = 0
    /\ UNCHANGED world

\* The process dies; the file system survives.
Crash == Forget /\ UNCHANGED files

\* The machine dies: a rename the directory was not synced for may be undone.
PowerLoss ==
    /\ Forget
    /\ \E f \in {durable, cache} : cache' = f /\ durable' = f

\* The control plane publishes its next document.
Publish ==
    /\ published < MaxVersion
    /\ published' = published + 1
    /\ UNCHANGED <<disk, life, files, policy, last_stamp, gate, pc, job, failures>>

\* An artifact, good or bad, is renamed into place.
Release(b) ==
    /\ disk.stamp < MaxStamp
    /\ disk' = [book |-> b, stamp |-> disk.stamp + 1]
    /\ UNCHANGED <<published, life, files, policy, last_stamp, gate, pc, job, failures>>

-------------------------------------------------------------------------------

FetchEnds(t) == FetchFails(t) \/ FetchNothing(t)
                  \/ \E doc \in 1 .. published : FetchDocument(t, doc)

SaveStep(t) == WriteTemp(t) \/ SyncTemp(t) \/ Rename(t) \/ SyncDir(t) \/ SaveFails(t)

Next ==
    \/ \E t \in Syncing : StartSync(t) \/ FetchEnds(t) \/ SaveStep(t) \/ Swap(t)
    \/ ReadArtifact \/ Install \/ Reject \/ Replace
    \/ Start \/ Crash \/ PowerLoss
    \/ Publish \/ \E b \in AnyBook : Release(b)

Spec == Init /\ [][Next]_vars

\* Fairness.  A supervisor restarts the process; every fetch ends within the
\* client's 15 s timeout; straight-line code runs on.  The gate is a FIFO mutex,
\* so a task that keeps asking for it gets it (SF), and a control plane that is
\* asked again and again answers with its newest document at some point (SF).
FairSpec ==
    /\ Spec
    /\ WF_vars(Start) /\ WF_vars(ReadArtifact) /\ WF_vars(Replace)
    /\ SF_vars(Install \/ Reject)
    /\ SF_vars(StartSync("poll"))
    /\ SF_vars(FetchDocument("poll", published))
    /\ \A t \in Syncing : WF_vars(FetchEnds(t)) /\ WF_vars(SaveStep(t)) /\ WF_vars(Swap(t))

-------------------------------------------------------------------------------
(* Properties *)

\* The engine never enforces a document that did not compile against the very
\* book it is paired with: every failure of fetch, compile, reload or restart
\* leaves the previous pair or the empty snapshot (docs/addrbook-format.md:
\* rules and book are pinned as a pair).
FailClosed ==
    serving.doc # 0 => Compiles(serving.doc, serving.book)

\* Outside the critical section the three copies of the policy agree: the engine
\* serves the last raw document, compiled with the installed book.  A book
\* reload and a policy update that overlap would break it.
PairConsistent ==
    up /\ gate = "free" =>
        /\ serving.doc = last_raw
        /\ serving.doc # 0 => serving.book = book

\* While the process lives the served version never goes back, whatever order
\* the answers of polling and MQTT arrive in and whatever stale copies of the
\* document are delivered.
VersionNeverGoesBack ==
    [][up /\ up' => serving'.doc >= serving.doc]_vars

\* No power loss at any step of save_cache leaves a cache file whose content is
\* not a whole document, and the cache holds only documents that once compiled.
CacheIntact ==
    \A f \in {cache, durable} :
        f.doc # 0 => f.synced /\ \E b \in Book : Compiles(f.doc, b)

\* Once a release stays in place, the node adopts it unless the document it
\* serves cannot be compiled against it: a rejected candidate stays pending and
\* is tried again after a policy change, and a candidate that was replaced on
\* disk while it waited for the gate is not acknowledged in its place.  Likewise
\* the newest document is served in the end unless it cannot be compiled against
\* the installed book, even when saving the cache fails and crashes intervene.
Adopted ==
    /\ []<>(\/ disk.book \in {Corrupt, book}
            \/ last_raw # 0 /\ ~Compiles(last_raw, disk.book))
    /\ []<>(\/ serving.doc = published
            \/ ~up
            \/ ~Compiles(published, book))
===============================================================================
