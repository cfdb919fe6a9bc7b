------------------------------ MODULE CodeIndex ------------------------------
(***************************************************************************)
(* The code index of mnemo/mnemo/code_index.py for one worktree scope.     *)
(*                                                                         *)
(* Agents (server processes) run CodeIndex.index_repo in a background      *)
(* thread.  A run compares the files with the manifest on disk, upserts    *)
(* the chunks of changed files into the vector store and records them.     *)
(* An agent is killed routinely, so the store and the manifest are only    *)
(* related by the order of the operations, each of which is one action.    *)
(*                                                                         *)
(* A file's contents stand for their hash.  The vector store answers in    *)
(* one step; a point is what a search returns of it.                       *)
(***************************************************************************)
EXTENDS Integers, FiniteSets, Functions

CONSTANTS
    Agents,
    Model,          \* Model[a]: the embedding model agent a is configured with
    Files,
    Contents,
    ChunkCount,     \* ChunkCount[c]: chunks of a file with contents c, 0 if blank
    Gone,           \* the file is not there, or not eligible
    NoManifest,     \* no manifest, or one that cannot be decoded
    Free,           \* nobody holds the index lock
    FlushEvery,     \* records between two flushes of the manifest (50 in the code)
    Locking,        \* FALSE: the file lock is unavailable, runs go on without
    Returning,      \* may a file get contents back that it had before?
    MaxEdits,       \* bound: edits of the files
    MaxKills,       \* bound: killed agents
    MaxFaults       \* bound: failed operations and removed manifests

Models == {Model[a] : a \in Agents}

ASSUME IndexAssumption ==
    /\ ChunkCount \in [Contents -> Nat]
    /\ Gone \notin Contents
    /\ Free \notin Agents
    /\ IsFiniteSet(Files)
    /\ FlushEvery \in Nat \ {0}
    /\ Locking \in BOOLEAN /\ Returning \in BOOLEAN
    /\ MaxEdits \in Nat /\ MaxKills \in Nat /\ MaxFaults \in Nat

VARIABLES
    disk,       \* the worktree
    points,     \* the points of the scope in the vector store
    manifest,   \* manifest.json
    lock,       \* holder of index.lock
    job,        \* the indexer thread of each agent
    recent,     \* agents whose last run was done less than min_interval ago
    used,       \* history: contents each file has had
    edits, kills, faults

vars == <<disk, points, manifest, lock, job, recent, used, edits, kills, faults>>
bounds == <<edits, kills, faults>>
world == <<disk, used, bounds>>

-----------------------------------------------------------------------------
(* Points have the deterministic id (file, index).                         *)

Indices == UNION {1..ChunkCount[c] : c \in Contents}
Points == [file : Files, index : Indices, hash : Contents, text : Contents,
           model : Models]

\* The points of a file hashed to sha whose text was read as text.
ChunksOf(f, sha, text, model) ==
    {[file |-> f, index |-> i, hash |-> sha, text |-> text, model |-> model] :
        i \in 1..ChunkCount[text]}

Upserted(new) ==
    new \cup {pt \in points : \A n \in new : pt.file # n.file \/ pt.index # n.index}

WithoutFile(f) == {pt \in points : pt.file # f}

\* The shrink sweep: stragglers of f do not carry the new hash.
Swept(f, sha) == {pt \in points : pt.file = f => pt.hash = sha}

-----------------------------------------------------------------------------
(* The manifest.  Its model stands for everything Manifest.matches         *)
(* compares (schema, identity, root, embedding model, collection).         *)

Entries == [sha : Contents, chunks : {ChunkCount[c] : c \in Contents}]
EntryMaps == UNION {[S -> Entries] : S \in SUBSET Files}
Manifests == [model : Models, files : EntryMaps, indexing : BOOLEAN, last : BOOLEAN]

ASSUME NoManifestAssumption == NoManifest \notin Manifests

Empty(model) == [model |-> model, files |-> <<>>, indexing |-> FALSE, last |-> FALSE]

Matches(m, model) == m # NoManifest /\ m.model = model

\* The chunks of the recorded files; the count is their number.
Recorded(m) == UNION {{f} \X (1..m.files[f].chunks) : f \in DOMAIN m.files}

Total(m) == Cardinality(Recorded(m))

\* Faulty variant: a manifest that matches is trusted without counting.
CountAgreesAlways(m) == TRUE

\* Faulty variant: too many points are not taken for a reason to start over.
CountSuffices(m) == Cardinality(points) >= Total(m)

CountAgrees(m) == Cardinality(points) = Total(m)

Known(m, f, sha) == f \in DOMAIN m.files /\ m.files[f].sha = sha

-----------------------------------------------------------------------------

Phases == {"idle", "acquire", "load", "count", "reset", "bind", "mark", "discover",
           "files", "read", "erase", "upsert", "sweep", "record"}
NoFile == Gone

Idle == [pc |-> "idle", force |-> FALSE, mem |-> NoManifest, gone |-> {}, todo |-> {},
         file |-> NoFile, sha |-> Gone, text |-> Gone, failed |-> FALSE, pending |-> 0]

Jobs == [pc : Phases, force : BOOLEAN, mem : Manifests \cup {NoManifest},
         gone : SUBSET Files, todo : SUBSET Files, file : Files \cup {NoFile},
         sha : Contents \cup {Gone}, text : Contents \cup {Gone},
         failed : BOOLEAN, pending : Nat]

TypeOK ==
    /\ disk \in [Files -> Contents \cup {Gone}]
    /\ points \subseteq Points
    /\ manifest \in Manifests \cup {NoManifest}
    /\ lock \in Agents \cup {Free}
    /\ job \in [Agents -> Jobs]
    /\ recent \subseteq Agents
    /\ used \in [Files -> SUBSET Contents]
    /\ edits \in 0..MaxEdits /\ kills \in 0..MaxKills /\ faults \in 0..MaxFaults

Init ==
    /\ disk \in [Files -> Contents \cup {Gone}]
    /\ used = [f \in Files |-> {disk[f]} \ {Gone}]
    /\ points = {} /\ manifest = NoManifest /\ lock = Free
    /\ job = [a \in Agents |-> Idle]
    /\ recent = {}
    /\ edits = 0 /\ kills = 0 /\ faults = 0

-----------------------------------------------------------------------------
(* BackgroundIndexer.kick.  The preflight tools and code_search kick with  *)
(* the debounce, code_reindex without it and perhaps from scratch.         *)

Kick(a, force) ==
    /\ job[a].pc = "idle"
    /\ job' = [job EXCEPT ![a] = [Idle EXCEPT !.pc = "acquire", !.force = force]]
    /\ UNCHANGED <<points, manifest, lock, recent, world>>

AutoKick(a) == a \notin recent /\ Kick(a, FALSE)

Reindex(a, full) == Kick(a, full)

\* min_interval has passed since the last run that was done.
Elapse(a) ==
    /\ a \in recent /\ recent' = recent \ {a}
    /\ UNCHANGED <<points, manifest, lock, job, world>>

-----------------------------------------------------------------------------
(* CodeIndex.index_repo.                                                   *)

At(a, pc) == job[a].pc = pc

\* Faulty variant: the lock outlives its holder.
LeakedLock(a) == lock

Unlocked(a) == IF lock = a THEN Free ELSE lock

\* A second run is skipped, never queued.  Without a file lock nobody is.
Acquire(a) ==
    /\ At(a, "acquire")
    /\ \/ Locking /\ lock = Free /\ lock' = a
          /\ job' = [job EXCEPT ![a].pc = "load"]
       \/ Locking /\ lock # Free /\ lock' = lock
          /\ job' = [job EXCEPT ![a] = Idle]
       \/ ~Locking /\ lock' = lock
          /\ job' = [job EXCEPT ![a].pc = "load"]
    /\ UNCHANGED <<points, manifest, recent, world>>

Load(a) ==
    /\ At(a, "load")
    /\ job' = [job EXCEPT ![a].mem = manifest,
                          ![a].pc = IF Matches(manifest, Model[a]) THEN "count" ELSE "reset"]
    /\ UNCHANGED <<points, manifest, lock, recent, world>>

Count(a) ==
    /\ At(a, "count")
    /\ job' = [job EXCEPT ![a].pc =
           IF ~job[a].force /\ CountAgrees(job[a].mem) THEN "mark" ELSE "reset"]
    /\ UNCHANGED <<points, manifest, lock, recent, world>>

\* Faulty variant: the points of the scope stay where they are.
KeepScope == points

DeleteScope == {}

Reset(a) ==
    /\ At(a, "reset")
    /\ points' = DeleteScope
    /\ job' = [job EXCEPT ![a].pc = "bind"]
    /\ UNCHANGED <<manifest, lock, recent, world>>

Bind(a) ==
    LET bound == Empty(Model[a]) IN
    /\ At(a, "bind")
    /\ manifest' = bound
    /\ job' = [job EXCEPT ![a].mem = bound, ![a].pc = "mark", ![a].pending = 0]
    /\ UNCHANGED <<points, lock, recent, world>>

Mark(a) ==
    LET marked == [job[a].mem EXCEPT !.indexing = TRUE] IN
    /\ At(a, "mark")
    /\ manifest' = marked
    /\ job' = [job EXCEPT ![a].mem = marked, ![a].pc = "discover", ![a].pending = 0]
    /\ UNCHANGED <<points, lock, recent, world>>

Discover(a) ==
    LET live == {f \in Files : disk[f] # Gone} IN
    /\ At(a, "discover")
    /\ job' = [job EXCEPT ![a].pc = "files", ![a].todo = live,
                          ![a].gone = DOMAIN job[a].mem.files \ live]
    /\ UNCHANGED <<points, manifest, lock, recent, world>>

DropGone(a, f) ==
    /\ At(a, "files") /\ f \in job[a].gone
    /\ points' = WithoutFile(f)
    /\ job' = [job EXCEPT
           ![a].gone = @ \ {f}, ![a].pending = @ + 1,
           ![a].mem.files = Restrict(@, DOMAIN @ \ {f})]
    /\ UNCHANGED <<manifest, lock, recent, world>>

\* file_sha, and the decision whether the file has to be indexed.
Inspect(a, f) ==
    /\ At(a, "files") /\ job[a].gone = {} /\ f \in job[a].todo
    /\ \/ /\ disk[f] = Gone
          /\ job' = [job EXCEPT ![a].todo = @ \ {f}, ![a].failed = TRUE]
       \/ /\ disk[f] # Gone /\ ~job[a].force /\ Known(job[a].mem, f, disk[f])
          /\ job' = [job EXCEPT ![a].todo = @ \ {f}]
       \/ /\ disk[f] # Gone /\ (job[a].force \/ ~Known(job[a].mem, f, disk[f]))
          /\ job' = [job EXCEPT ![a].todo = @ \ {f}, ![a].file = f,
                                ![a].sha = disk[f], ![a].pc = "read"]
    /\ UNCHANGED <<points, manifest, lock, recent, world>>

\* The file is read again for its text: it may have changed or gone.
Read(a) ==
    LET f == job[a].file IN
    /\ At(a, "read")
    /\ job' = IF disk[f] = Gone
              THEN [job EXCEPT ![a].pc = "files", ![a].failed = TRUE]
              ELSE [job EXCEPT ![a].text = disk[f],
                       ![a].pc = IF ChunkCount[disk[f]] = 0 THEN "erase" ELSE "upsert"]
    /\ UNCHANGED <<points, manifest, lock, recent, world>>

Erase(a) ==
    /\ At(a, "erase")
    /\ points' = WithoutFile(job[a].file)
    /\ job' = [job EXCEPT ![a].pc = "record"]
    /\ UNCHANGED <<manifest, lock, recent, world>>

Upsert(a) ==
    /\ At(a, "upsert")
    /\ points' = Upserted(ChunksOf(job[a].file, job[a].sha, job[a].text, Model[a]))
    /\ job' = [job EXCEPT ![a].pc = "sweep"]
    /\ UNCHANGED <<manifest, lock, recent, world>>

Sweep(a) ==
    /\ At(a, "sweep")
    /\ points' = Swept(job[a].file, job[a].sha)
    /\ job' = [job EXCEPT ![a].pc = "record"]
    /\ UNCHANGED <<manifest, lock, recent, world>>

Entered(a) ==
    LET entry == [sha |-> job[a].sha, chunks |-> ChunkCount[job[a].text]]
        mem == job[a].mem
    IN  [mem EXCEPT !.files = [f \in DOMAIN @ \cup {job[a].file} |->
            IF f = job[a].file THEN entry ELSE @[f]]]

FlushDue(a) == job[a].pending + 1 >= FlushEvery

Record(a) ==
    /\ At(a, "record")
    /\ manifest' = IF FlushDue(a) THEN Entered(a) ELSE manifest
    /\ job' = [job EXCEPT ![a].pc = "files", ![a].mem = Entered(a),
                          ![a].pending = IF FlushDue(a) THEN 0 ELSE @ + 1]
    /\ UNCHANGED <<points, lock, recent, world>>

FilesDone(a) == At(a, "files") /\ job[a].gone = {} /\ job[a].todo = {}

\* Done: the manifest is flushed and the lock released.
Close(a) ==
    /\ FilesDone(a) /\ ~job[a].failed
    /\ manifest' = [job[a].mem EXCEPT !.last = TRUE, !.indexing = FALSE]
    /\ lock' = Unlocked(a)
    /\ job' = [job EXCEPT ![a] = Idle]
    /\ recent' = recent \cup {a}
    /\ UNCHANGED <<points, world>>

\* Error: what was recorded since the last flush is forgotten.
GiveUp(a) ==
    /\ FilesDone(a) /\ job[a].failed
    /\ lock' = Unlocked(a)
    /\ job' = [job EXCEPT ![a] = Idle]
    /\ UNCHANGED <<points, manifest, recent, world>>

-----------------------------------------------------------------------------
(* Failures.                                                               *)

Fault == faults < MaxFaults /\ faults' = faults + 1

\* The embedder, the store or a read fails while a file is indexed: the run
\* goes on with the next file.  An upsert may have taken effect all the same.
FileFails(a) ==
    /\ Fault
    /\ job[a].pc \in {"read", "erase", "upsert", "sweep"}
    /\ points' \in {points} \cup
           (IF At(a, "upsert")
            THEN {Upserted(ChunksOf(job[a].file, job[a].sha, job[a].text, Model[a]))}
            ELSE {})
    /\ job' = [job EXCEPT ![a].pc = "files", ![a].failed = TRUE]
    /\ UNCHANGED <<disk, manifest, lock, recent, used, edits, kills>>

\* The flush inside record fails: the entry stays in memory.
FlushFails(a) ==
    /\ Fault
    /\ At(a, "record") /\ FlushDue(a)
    /\ job' = [job EXCEPT ![a].pc = "files", ![a].failed = TRUE,
                          ![a].mem = Entered(a), ![a].pending = 0]
    /\ UNCHANGED <<disk, points, manifest, lock, recent, used, edits, kills>>

\* A failure outside the loop over the files ends the run.
RunFails(a) ==
    /\ Fault
    /\ \/ job[a].pc \in {"count", "reset", "bind", "mark", "discover"}
       \/ At(a, "files") /\ job[a].gone # {}
       \/ FilesDone(a) /\ ~job[a].failed
    /\ lock' = Unlocked(a)
    /\ job' = [job EXCEPT ![a] = Idle]
    /\ UNCHANGED <<disk, points, manifest, recent, used, edits, kills>>

\* The host terminates the server: the kernel frees the lock.
Kill(a) ==
    /\ kills < MaxKills /\ kills' = kills + 1
    /\ ~At(a, "idle")
    /\ lock' = Unlocked(a)
    /\ job' = [job EXCEPT ![a] = Idle]
    /\ recent' = recent \ {a}
    /\ UNCHANGED <<disk, points, manifest, used, edits, faults>>

\* "Safe to delete; index rebuilds."
RemoveManifest ==
    /\ Fault
    /\ manifest # NoManifest /\ manifest' = NoManifest
    /\ UNCHANGED <<disk, points, lock, job, recent, used, edits, kills>>

Edit(f, c) ==
    /\ edits < MaxEdits /\ edits' = edits + 1
    /\ disk[f] # c
    /\ Returning \/ c \notin used[f]
    /\ disk' = [disk EXCEPT ![f] = c]
    /\ used' = [used EXCEPT ![f] = @ \cup ({c} \ {Gone})]
    /\ UNCHANGED <<points, manifest, lock, job, recent, kills, faults>>

-----------------------------------------------------------------------------

Index(a) ==
    \/ Acquire(a) \/ Load(a) \/ Count(a) \/ Reset(a) \/ Bind(a) \/ Mark(a)
    \/ Discover(a) \/ (\E f \in Files : DropGone(a, f) \/ Inspect(a, f))
    \/ Read(a) \/ Erase(a) \/ Upsert(a) \/ Sweep(a) \/ Record(a)
    \/ Close(a) \/ GiveUp(a)

Disturb(a) == FileFails(a) \/ FlushFails(a) \/ RunFails(a) \/ Kill(a)

Next ==
    \/ \E a \in Agents :
          \/ AutoKick(a) \/ Elapse(a) \/ Index(a) \/ Disturb(a)
          \/ \E full \in BOOLEAN : Reindex(a, full)
    \/ RemoveManifest
    \/ \E f \in Files, c \in Contents \cup {Gone} : Edit(f, c)

Spec == Init /\ [][Next]_vars

\* Threads get to run, the interval passes, and agents keep calling tools
\* that kick the indexer.
FairSpec ==
    /\ Spec
    /\ \A a \in Agents : WF_vars(Index(a)) /\ WF_vars(Elapse(a)) /\ WF_vars(AutoKick(a))

-----------------------------------------------------------------------------
(* Properties.                                                             *)

\* What a run may find already: the manifest matches and the count agrees.
Resumable == manifest # NoManifest /\ CountAgrees(manifest)

PointsOf(f) == {pt \in points : pt.file = f}

\* Whatever the next run will skip as unchanged is in the store, chunk by
\* chunk, as it stands in the worktree ("must never OVER-approximate").
SkippedIsStored ==
    Resumable =>
        \A f \in DOMAIN manifest.files :
            Known(manifest, f, disk[f]) =>
                PointsOf(f) = ChunksOf(f, disk[f], disk[f], manifest.model)

Ready == Resumable /\ ~manifest.indexing /\ manifest.last

\* A scope reported as ready holds the recorded version of every recorded
\* file and not a point beside: no straggler, no orphan of a removed file.
ReadyIsExact ==
    Ready =>
        /\ \A pt \in points : Known(manifest, pt.file, pt.hash)
        /\ \A f \in DOMAIN manifest.files :
              {pt.index : pt \in PointsOf(f)} = 1..manifest.files[f].chunks

\* The store holds points of the model the manifest is bound to and no other.
StoreIsOfOneModel ==
    manifest # NoManifest => \A pt \in points : pt.model = manifest.model

Exact ==
    /\ Ready
    /\ DOMAIN manifest.files = {f \in Files : disk[f] # Gone}
    /\ points = UNION {ChunksOf(f, disk[f], disk[f], manifest.model) :
                          f \in DOMAIN manifest.files}

\* However runs are killed, fail or are overtaken by edits, the index comes
\* back to the worktree once they stop.
Heals == []<>Exact
=============================================================================
