-------------------------- MODULE CodeIndexProofs --------------------------
(***************************************************************************)
(* Theorems about CodeIndex and the searches of CodeSearch: types, for any *)
(* agents; that a search finds points of the searcher's model as long as   *)
(* nobody rebinds the manifest after its check, and that what is skipped   *)
(* is stored and what is ready is exact, for runs that exclude each other. *)
(***************************************************************************)
EXTENDS CodeSearch, FiniteSetTheorems, TLAPS

\* Runs exclude each other: the lock is there, or there is one agent only.
OneAtATime == Locking \/ \A a, b \in Agents : a = b

Inside(a) == job[a].pc \notin {"idle", "acquire"}

\* A run has a file in hand, is past its marking of the manifest, is past its
\* binding to a manifest.
Busy(a) == job[a].pc \in {"read", "erase", "upsert", "sweep", "record"}
Marked(a) == job[a].pc \in {"discover", "files"} \/ Busy(a)
Bound(a) == job[a].pc = "mark" \/ Marked(a)

Excluded ==
    /\ \A a, b \in Agents : Inside(a) /\ Inside(b) => a = b
    /\ Locking => \A a \in Agents : Inside(a) => lock = a

\* What the places of a run say of the types of its variables.
Holding(a) ==
    /\ Bound(a) \/ At(a, "count") => job[a].mem \in Manifests /\ job[a].mem.model = Model[a]
    /\ Busy(a) => job[a].file \in Files /\ job[a].sha \in Contents
    /\ Busy(a) /\ ~At(a, "read") => job[a].text \in Contents
    /\ At(a, "erase") => ChunkCount[job[a].text] = 0

Typed == TypeOK /\ \A a \in Agents : Holding(a)

-----------------------------------------------------------------------------
(* What has been is past: contents a file had and has no longer.           *)

Past(f, c) == c \in used[f] /\ disk[f] # c

\* A hash that was taken with a text: of the same contents, or past by now.
Taken(f, sha, text) == sha \in used[f] /\ (text = sha \/ Past(f, sha))

HistoryOK == \A f \in Files : disk[f] # Gone => disk[f] \in used[f]

PointsOK ==
    /\ IsFiniteSet(points)
    /\ \A p, q \in points : p.file = q.file /\ p.index = q.index => p = q
    /\ \A p \in points : p.index <= ChunkCount[p.text] /\ Taken(p.file, p.hash, p.text)

\* A recorded file counts the chunks of the text that was read of it.
Counted(f, entry) ==
    \E text \in Contents : entry.chunks = ChunkCount[text] /\ Taken(f, entry.sha, text)

AllCounted(m) == \A f \in DOMAIN m.files : Counted(f, m.files[f])

\* The points of a recorded file are there, and none with another hash.
Stored(f, entry, model) ==
    /\ \E text \in Contents :
          /\ entry.chunks = ChunkCount[text] /\ Taken(f, entry.sha, text)
          /\ ChunksOf(f, entry.sha, text, model) \subseteq points
    /\ \A pt \in PointsOf(f) : pt.hash = entry.sha

Complete(m) == \A f \in DOMAIN m.files : Stored(f, m.files[f], m.model)

\* A manifest that does not over-approximate.
Sound(m) ==
    \A f \in DOMAIN m.files : Stored(f, m.files[f], m.model) \/ Past(f, m.files[f].sha)

\* A manifest on disk is an earlier state of the one in memory.
Earlier(m, mem) ==
    \A f \in DOMAIN m.files :
        \/ Past(f, m.files[f].sha)
        \/ f \in DOMAIN mem.files /\ mem.files[f] = m.files[f]

Settled(m) == ~m.indexing /\ m.last

-----------------------------------------------------------------------------
(* The inductive invariant of runs that exclude each other.                *)

\* The file in hand: no point of it is relied on until it is recorded.
InHand(a) == LET j == job[a] IN
    /\ j.gone = {} /\ j.file \notin j.todo
    /\ j.sha \in used[j.file]
    /\ j.file \in DOMAIN j.mem.files => Past(j.file, j.mem.files[j.file].sha)
    /\ j.pc # "read" => Taken(j.file, j.sha, j.text)
    /\ j.pc \in {"sweep", "record"} => ChunksOf(j.file, j.sha, j.text, Model[a]) \subseteq points
    /\ j.pc = "record" => \A pt \in PointsOf(j.file) : pt.hash = j.sha

\* The files that were looked at, as long as none failed.
LookedAt(a) == LET j == job[a] IN
    /\ \A f \in j.gone : f \in DOMAIN j.mem.files => Past(f, j.mem.files[f].sha)
    /\ j.force => DOMAIN j.mem.files \cap j.todo = {}
    /\ ~j.failed => \A f \in DOMAIN j.mem.files \ (j.gone \cup j.todo) :
           (Busy(a) /\ f = j.file) \/ Stored(f, j.mem.files[f], j.mem.model)

RunOK(a) == LET j == job[a] IN
    /\ j.pc = "count" => AllCounted(j.mem) /\ (points = {} \/ Sound(j.mem))
    /\ j.pc = "bind" => points = {}
    /\ j.pc \in {"count", "mark"} => manifest \in {j.mem, NoManifest}
    /\ Bound(a) =>
          /\ AllCounted(j.mem) /\ Sound(j.mem)
          /\ manifest # NoManifest => manifest.model = Model[a] /\ Earlier(manifest, j.mem)
    /\ Marked(a) => j.mem.indexing /\ (manifest # NoManifest => manifest.indexing)
    /\ j.pc \in {"mark", "discover"} /\ j.force => DOMAIN j.mem.files = {}
    /\ j.pc = "files" \/ Busy(a) => LookedAt(a)
    /\ Busy(a) => InHand(a)

\* What the next run finds.
ManifestOK == manifest # NoManifest =>
    /\ AllCounted(manifest)
    /\ (\A a \in Agents : ~Marked(a)) =>
          /\ points = {} \/ Sound(manifest)
          /\ Settled(manifest) => points = {} \/ Complete(manifest)

IInv == Excluded /\ HistoryOK /\ PointsOK /\ ManifestOK /\ \A a \in Agents : RunOK(a)

-----------------------------------------------------------------------------
(* Types.                                                                  *)

LEMMA EntryMapsAre ==
    \A m : m \in EntryMaps <=> DOMAIN m \in SUBSET Files /\ m \in [DOMAIN m -> Entries]
BY DEF EntryMaps

LEMMA EmptyType ==
    ASSUME NEW model \in Models
    PROVE  Empty(model) \in Manifests
<1>1. <<>> \in [{} -> Entries]
  OBVIOUS
<1>2. <<>> \in EntryMaps
  BY <1>1 DEF EntryMaps
<1>3. QED  BY <1>2 DEF Empty, Manifests

LEMMA IdleType == Idle \in Jobs
BY DEF Idle, Jobs, Phases, NoFile

\* The steps of a run change the job of their agent only.
LEMMA JobMoves ==
    ASSUME job \in [Agents -> Jobs], NEW a \in Agents, NEW new \in Jobs,
           job' = [job EXCEPT ![a] = new]
    PROVE  /\ job' \in [Agents -> Jobs] /\ job'[a] = new
           /\ \A b \in Agents \ {a} : job'[b] = job[b]
OBVIOUS

LEMMA Moved ==
    ASSUME Typed, NEW a \in Agents, NEW new \in Jobs, job' = [job EXCEPT ![a] = new],
           Holding(a)', points' \in SUBSET Points, manifest' \in Manifests \cup {NoManifest},
           lock' \in Agents \cup {Free}, recent' \in SUBSET Agents,
           faults' \in 0..MaxFaults, kills' \in 0..MaxKills,
           UNCHANGED <<disk, used, edits>>
    PROVE  Typed'
<1>1. job' \in [Agents -> Jobs] /\ \A b \in Agents \ {a} : job'[b] = job[b]
  BY JobMoves DEF Typed, TypeOK
<1>2. \A b \in Agents \ {a} : Holding(b)'
  BY <1>1 DEF Typed, Holding, Bound, Marked, Busy, At
<1>3. QED  BY <1>1, <1>2 DEF Typed, TypeOK

LEMMA FaultType == ASSUME Typed, Fault PROVE faults' \in 0..MaxFaults
BY IndexAssumption DEF Fault, Typed, TypeOK

LEMMA IndexRange ==
    /\ Indices \subseteq Nat \ {0}
    /\ \A c \in Contents : 1..ChunkCount[c] \subseteq Indices
<1>1. \A c \in Contents : ChunkCount[c] \in Nat
  BY IndexAssumption
<1>2. \A c \in Contents : 1..ChunkCount[c] \subseteq Nat \ {0}
  BY <1>1
<1>3. QED  BY <1>2 DEF Indices

LEMMA ChunksType ==
    ASSUME NEW f \in Files, NEW sha \in Contents, NEW text \in Contents, NEW model \in Models
    PROVE  ChunksOf(f, sha, text, model) \in SUBSET Points
<1>1. \A i \in 1..ChunkCount[text] : i \in Indices
  BY IndexRange
<1>2. QED  BY <1>1 DEF ChunksOf, Points

LEMMA PointSteps ==
    ASSUME points \in SUBSET Points, NEW f, NEW sha, NEW new \in SUBSET Points
    PROVE  /\ Upserted(new) \in SUBSET Points
           /\ WithoutFile(f) \in SUBSET points
           /\ Swept(f, sha) \in SUBSET points
BY DEF Upserted, WithoutFile, Swept

LEMMA EnteredType ==
    ASSUME Typed, NEW a \in Agents, At(a, "record")
    PROVE  Entered(a) \in Manifests /\ Entered(a).model = Model[a]
<1> DEFINE entry == [sha |-> job[a].sha, chunks |-> ChunkCount[job[a].text]]
           mem == job[a].mem
           files == [f \in DOMAIN mem.files \cup {job[a].file} |->
                        IF f = job[a].file THEN entry ELSE mem.files[f]]
<1>1. /\ mem \in Manifests /\ mem.model = Model[a]
      /\ job[a].file \in Files /\ job[a].sha \in Contents /\ job[a].text \in Contents
  BY DEF Typed, Holding, Bound, Marked, Busy, At
<1>2. entry \in Entries
  BY <1>1 DEF Entries
<1>3. mem.files \in EntryMaps
  BY <1>1 DEF Manifests
<1> HIDE DEF entry, mem
<1>4. DOMAIN mem.files \in SUBSET Files /\ mem.files \in [DOMAIN mem.files -> Entries]
  BY <1>3, EntryMapsAre
<1>5. files \in EntryMaps
  BY <1>1, <1>2, <1>4, EntryMapsAre
<1>6. Entered(a) = [mem EXCEPT !.files = files]
  BY <1>1 DEF Entered, entry, mem, Manifests
<1> HIDE DEF files
<1>7. QED  BY <1>1, <1>5, <1>6 DEF Manifests

LEMMA RestrictType ==
    ASSUME NEW m \in Manifests, NEW f
    PROVE  [m EXCEPT !.files = Restrict(@, DOMAIN @ \ {f})] \in Manifests
<1>1. m.files \in EntryMaps
  BY DEF Manifests
<1>2. DOMAIN m.files \in SUBSET Files /\ m.files \in [DOMAIN m.files -> Entries]
  BY <1>1, EntryMapsAre
<1>3. Restrict(m.files, DOMAIN m.files \ {f}) \in EntryMaps
  BY <1>2, EntryMapsAre DEF Restrict
<1> HIDE DEF Restrict
<1>4. QED  BY <1>3 DEF Manifests

-----------------------------------------------------------------------------
(* Each step keeps the types.                                              *)

LEMMA JobHas ==
    ASSUME Typed, NEW a \in Agents
    PROVE  /\ job[a] \in Jobs /\ job \in [Agents -> Jobs]
           /\ points \in SUBSET Points /\ manifest \in Manifests \cup {NoManifest}
           /\ lock \in Agents \cup {Free} /\ recent \in SUBSET Agents
           /\ faults \in 0..MaxFaults /\ kills \in 0..MaxKills
           /\ Model[a] \in Models /\ Unlocked(a) \in Agents \cup {Free}
BY DEF Typed, TypeOK, Models, Unlocked

\* A run ends, or begins: nothing is held.
LEMMA RestedType ==
    ASSUME Typed, NEW a \in Agents, NEW new \in Jobs, new.pc \in {"idle", "acquire"},
           job' = [job EXCEPT ![a] = new], points' \in SUBSET Points,
           manifest' \in Manifests \cup {NoManifest}, lock' \in Agents \cup {Free},
           recent' \in SUBSET Agents, faults' \in 0..MaxFaults, kills' \in 0..MaxKills,
           UNCHANGED <<disk, used, edits>>
    PROVE  Typed'
<1>1. job'[a] = new
  BY JobMoves DEF Typed, TypeOK
<1>2. Holding(a)'
  BY <1>1 DEF Holding, Bound, Marked, Busy, At
<1>3. QED  BY <1>2, Moved

LEMMA BeginTypes ==
    ASSUME Typed, NEW a \in Agents,
           \/ AutoKick(a) \/ \E full \in BOOLEAN : Reindex(a, full)
           \/ Elapse(a) \/ Acquire(a)
    PROVE  Typed'
<1>1. CASE \E force \in BOOLEAN : Kick(a, force)
  <2>1. PICK force \in BOOLEAN : Kick(a, force)
    BY <1>1
  <2> DEFINE new == [Idle EXCEPT !.pc = "acquire", !.force = force]
  <2>2. new \in Jobs /\ new.pc = "acquire"
    BY IdleType DEF Jobs, Phases, Idle
  <2>3. job' = [job EXCEPT ![a] = new]
    BY <2>1 DEF Kick
  <2> HIDE DEF new
  <2>4. QED  BY <2>1, <2>2, <2>3, JobHas, RestedType DEF Kick, world, bounds
<1>2. CASE Elapse(a)
  BY <1>2 DEF Elapse, world, bounds, Typed, TypeOK, Holding, Bound, Marked, Busy, At
<1>3. CASE Acquire(a)
  <2>1. CASE job' = [job EXCEPT ![a] = Idle]
    BY <1>3, <2>1, JobHas, IdleType, RestedType DEF Acquire, Idle, world, bounds
  <2>2. CASE job' = [job EXCEPT ![a].pc = "load"]
    <3> DEFINE new == [job[a] EXCEPT !.pc = "load"]
    <3>1. new \in Jobs /\ new.pc = "load"
      BY JobHas DEF Jobs, Phases
    <3>2. job' = [job EXCEPT ![a] = new]
      BY <2>2, JobHas
    <3> HIDE DEF new
    <3>3. job'[a] = new
      BY <3>1, <3>2, JobMoves, JobHas
    <3>4. Holding(a)'
      BY <3>1, <3>3 DEF Holding, Bound, Marked, Busy, At
    <3>5. QED  BY <1>3, <3>1, <3>2, <3>4, JobHas, Moved DEF Acquire, world, bounds
  <2>3. QED  BY <1>3, <2>1, <2>2 DEF Acquire
<1>4. QED  BY <1>1, <1>2, <1>3 DEF AutoKick, Reindex

LEMMA OpenTypes ==
    ASSUME Typed, NEW a \in Agents,
           Load(a) \/ Count(a) \/ Reset(a) \/ Bind(a) \/ Mark(a) \/ Discover(a)
    PROVE  Typed'
<1> USE DEF At
<1>1. CASE Load(a)
  <2> DEFINE pc == IF Matches(manifest, Model[a]) THEN "count" ELSE "reset"
             new == [job[a] EXCEPT !.mem = manifest, !.pc = pc]
  <2>1. new \in Jobs /\ new.pc = pc /\ new.mem = manifest
    BY ZenonT(60), JobHas DEF Jobs, Phases
  <2>2. job' = [job EXCEPT ![a] = new]
    BY <1>1, JobHas DEF Load, Jobs
  <2> HIDE DEF new
  <2>3. job'[a] = new
    BY <2>1, <2>2, JobMoves, JobHas
  <2>4. Holding(a)'
    BY <2>1, <2>3, JobHas DEF Holding, Bound, Marked, Busy, Matches
  <2>5. QED  BY <1>1, <2>1, <2>2, <2>4, JobHas, Moved DEF Load, world, bounds
<1>2. CASE Count(a)
  <2> DEFINE pc == IF ~job[a].force /\ CountAgrees(job[a].mem) THEN "mark" ELSE "reset"
             new == [job[a] EXCEPT !.pc = pc]
  <2>1. new \in Jobs /\ new.pc = pc /\ new.mem = job[a].mem
    BY JobHas DEF Jobs, Phases
  <2>2. job' = [job EXCEPT ![a] = new]
    BY <1>2, JobHas DEF Count
  <2> HIDE DEF new
  <2>3. job'[a] = new
    BY <2>1, <2>2, JobMoves, JobHas
  <2>4. Holding(a)'
    BY <1>2, <2>1, <2>3 DEF Typed, Count, Holding, Bound, Marked, Busy
  <2>5. QED  BY <1>2, <2>1, <2>2, <2>4, JobHas, Moved DEF Count, world, bounds
<1>3. CASE Reset(a)
  <2> DEFINE new == [job[a] EXCEPT !.pc = "bind"]
  <2>1. new \in Jobs /\ new.pc = "bind"
    BY JobHas DEF Jobs, Phases
  <2>2. job' = [job EXCEPT ![a] = new]
    BY <1>3, JobHas DEF Reset
  <2> HIDE DEF new
  <2>3. job'[a] = new
    BY <2>1, <2>2, JobMoves, JobHas
  <2>4. Holding(a)'
    BY <2>1, <2>3 DEF Holding, Bound, Marked, Busy
  <2>5. QED
    BY <1>3, <2>1, <2>2, <2>4, JobHas, Moved DEF Reset, DeleteScope, world, bounds
<1>4. CASE Bind(a)
  <2> DEFINE bound == Empty(Model[a])
             new == [job[a] EXCEPT !.mem = bound, !.pc = "mark", !.pending = 0]
  <2>1. bound \in Manifests /\ bound.model = Model[a]
    BY JobHas, EmptyType DEF Empty
  <2> HIDE DEF bound
  <2>2. new \in Jobs /\ new.pc = "mark" /\ new.mem = bound
    BY ZenonT(60), <2>1, JobHas DEF Jobs, Phases
  <2>3. job' = [job EXCEPT ![a] = new]
    BY <1>4, JobHas DEF Bind, Jobs, bound
  <2> HIDE DEF new
  <2>4. job'[a] = new
    BY <2>2, <2>3, JobMoves, JobHas
  <2>5. Holding(a)'
    BY <2>1, <2>2, <2>4 DEF Holding, Bound, Marked, Busy
  <2>6. QED
    BY <1>4, <2>1, <2>2, <2>3, <2>5, JobHas, Moved DEF Bind, bound, world, bounds
<1>5. CASE Mark(a)
  <2> DEFINE marked == [job[a].mem EXCEPT !.indexing = TRUE]
             new == [job[a] EXCEPT !.mem = marked, !.pc = "discover", !.pending = 0]
  <2>1. marked \in Manifests /\ marked.model = Model[a]
    <3>1. job[a].mem \in Manifests /\ job[a].mem.model = Model[a]
      BY <1>5 DEF Typed, Holding, Bound, Mark
    <3>2. QED  BY <3>1 DEF Manifests
  <2> HIDE DEF marked
  <2>2. new \in Jobs /\ new.pc = "discover" /\ new.mem = marked
    BY ZenonT(60), <2>1, JobHas DEF Jobs, Phases
  <2>3. job' = [job EXCEPT ![a] = new]
    BY <1>5, JobHas DEF Mark, Jobs, marked
  <2> HIDE DEF new
  <2>4. job'[a] = new
    BY <2>2, <2>3, JobMoves, JobHas
  <2>5. Holding(a)'
    BY <2>1, <2>2, <2>4 DEF Holding, Bound, Marked, Busy
  <2>6. QED
    BY <1>5, <2>1, <2>2, <2>3, <2>5, JobHas, Moved DEF Mark, marked, world, bounds
<1>6. CASE Discover(a)
  <2> DEFINE live == {f \in Files : disk[f] # Gone}
             gone == DOMAIN job[a].mem.files \ live
             new == [job[a] EXCEPT !.pc = "files", !.todo = live, !.gone = gone]
  <2>1. job[a].mem \in Manifests /\ job[a].mem.model = Model[a]
    BY <1>6 DEF Typed, Holding, Bound, Marked, Discover
  <2>2. gone \in SUBSET Files
    <3>1. job[a].mem.files \in EntryMaps
      BY <2>1 DEF Manifests
    <3>2. QED  BY <3>1, EntryMapsAre
  <2> HIDE DEF gone
  <2>3. new \in Jobs /\ new.pc = "files" /\ new.mem = job[a].mem
    BY ZenonT(60), <2>2, JobHas DEF Jobs, Phases
  <2>4. job' = [job EXCEPT ![a] = new]
    BY <1>6, JobHas DEF Discover, Jobs, gone
  <2> HIDE DEF new
  <2>5. job'[a] = new
    BY <2>3, <2>4, JobMoves, JobHas
  <2>6. Holding(a)'
    BY <2>1, <2>3, <2>5 DEF Holding, Bound, Marked, Busy
  <2>7. QED  BY <1>6, <2>3, <2>4, <2>6, JobHas, Moved DEF Discover, world, bounds
<1>7. QED  BY <1>1, <1>2, <1>3, <1>4, <1>5, <1>6

LEMMA LookTypes ==
    ASSUME Typed, NEW a \in Agents, NEW f \in Files, DropGone(a, f) \/ Inspect(a, f)
    PROVE  Typed'
<1> USE DEF At
<1>1. job[a].mem \in Manifests /\ job[a].mem.model = Model[a] /\ job[a].pc = "files"
  BY DEF Typed, Holding, Bound, Marked, DropGone, Inspect
<1>2. CASE DropGone(a, f)
  <2> DEFINE mem == [job[a].mem EXCEPT !.files = Restrict(@, DOMAIN @ \ {f})]
             new == [job[a] EXCEPT !.gone = @ \ {f}, !.pending = @ + 1, !.mem = mem]
  <2>1. mem \in Manifests
    BY <1>1, RestrictType
  <2>2. mem.model = Model[a]
    BY <1>1 DEF Manifests
  <2>3. job' = [job EXCEPT ![a] = new]
    BY <1>2, JobHas DEF DropGone, Jobs
  <2> HIDE DEF mem
  <2>4. new \in Jobs /\ new.pc = "files" /\ new.mem = mem
    <3>1. job[a].pending + 1 \in Nat
      BY JobHas DEF Jobs
    <3>2. QED  BY <1>1, <2>1, <3>1, JobHas DEF Jobs
  <2> HIDE DEF new
  <2>5. job'[a] = new
    BY <2>3, <2>4, JobMoves, JobHas
  <2>6. Holding(a)'
    BY <2>1, <2>2, <2>4, <2>5 DEF Holding, Bound, Marked, Busy
  <2>7. points' \in SUBSET Points
    BY <1>2, JobHas DEF DropGone, WithoutFile
  <2>8. QED  BY <1>2, <2>3, <2>4, <2>6, <2>7, JobHas, Moved DEF DropGone, world, bounds
<1>3. CASE Inspect(a, f)
  <2>1. /\ disk[f] \in Contents \cup {Gone} /\ job[a] \in Jobs /\ job \in [Agents -> Jobs]
        /\ UNCHANGED <<points, manifest, lock, recent, faults, kills, disk, used, edits>>
    BY <1>3, JobHas DEF Typed, TypeOK, Inspect, world, bounds
  <2>2. PICK new \in Jobs :
           /\ job' = [job EXCEPT ![a] = new] /\ new.mem = job[a].mem
           /\ \/ new.pc = "files"
              \/ new.pc = "read" /\ new.file \in Files /\ new.sha \in Contents
    <3> DEFINE failed == [job[a] EXCEPT !.todo = @ \ {f}, !.failed = TRUE]
               skipped == [job[a] EXCEPT !.todo = @ \ {f}]
               taken == [job[a] EXCEPT !.todo = @ \ {f}, !.file = f, !.sha = disk[f],
                                       !.pc = "read"]
    <3>1. CASE disk[f] = Gone /\ job' = [job EXCEPT ![a] = failed]
      <4>1. failed \in Jobs /\ failed.mem = job[a].mem /\ failed.pc = "files"
        BY <1>1, <2>1 DEF Jobs
      <4>2. QED  BY <3>1, <4>1
    <3>2. CASE job' = [job EXCEPT ![a] = skipped]
      <4>1. skipped \in Jobs /\ skipped.mem = job[a].mem /\ skipped.pc = "files"
        BY <1>1, <2>1 DEF Jobs
      <4>2. QED  BY <3>2, <4>1
    <3>3. CASE disk[f] # Gone /\ job' = [job EXCEPT ![a] = taken]
      <4>1. /\ taken \in Jobs /\ taken.mem = job[a].mem /\ taken.pc = "read"
            /\ taken.file = f /\ taken.sha = disk[f]
        BY <2>1, <3>3 DEF Jobs, Phases
      <4> HIDE DEF taken
      <4>2. QED  BY <2>1, <3>3, <4>1
    <3>4. \/ disk[f] = Gone /\ job' = [job EXCEPT ![a] = failed]
          \/ job' = [job EXCEPT ![a] = skipped]
          \/ disk[f] # Gone /\ job' = [job EXCEPT ![a] = taken]
      BY <1>3, <2>1 DEF Inspect, Jobs
    <3>5. QED  BY <3>1, <3>2, <3>3, <3>4
  <2>3. job'[a] = new
    BY <2>2, JobMoves, JobHas
  <2>4. Holding(a)'
    BY <1>1, <2>2, <2>3 DEF Holding, Bound, Marked, Busy
  <2>5. QED  BY <2>1, <2>2, <2>4, JobHas, Moved
<1>4. QED  BY <1>2, <1>3

\* The places at which a file is in hand, and where a step leads from them.
LEMMA HandTypes ==
    ASSUME Typed, NEW a \in Agents, Busy(a), NEW new \in Jobs, job' = [job EXCEPT ![a] = new],
           \/ new.pc = "files"
           \/ /\ new.pc \in {"erase", "upsert", "sweep", "record"}
              /\ new.text \in Contents /\ (new.pc = "erase" => ChunkCount[new.text] = 0)
              /\ new.file = job[a].file /\ new.sha = job[a].sha,
           new.mem \in Manifests, new.mem.model = Model[a],
           points' \in SUBSET Points, manifest' \in Manifests \cup {NoManifest},
           lock' = lock, recent' = recent, disk' = disk, used' = used, edits' = edits,
           kills' = kills, faults' \in 0..MaxFaults
    PROVE  Typed'
<1>1. job'[a] = new
  BY JobMoves DEF Typed, TypeOK
<1>2. Holding(a)'
  BY <1>1 DEF Typed, Holding, Bound, Marked, Busy, At
<1>3. QED  BY <1>2, JobHas, Moved

LEMMA StoreTypes ==
    ASSUME Typed, NEW a \in Agents,
           Read(a) \/ Erase(a) \/ Upsert(a) \/ Sweep(a) \/ Record(a)
    PROVE  Typed'
<1> USE DEF At
<1>1. /\ Busy(a) /\ job[a].mem \in Manifests /\ job[a].mem.model = Model[a]
      /\ job[a].file \in Files /\ job[a].sha \in Contents
      /\ job[a].pc # "read" => job[a].text \in Contents
  BY DEF Typed, Holding, Bound, Marked, Busy, Read, Erase, Upsert, Sweep, Record
<1>2. CASE Read(a)
  <2> DEFINE text == disk[job[a].file]
             lost == [job[a] EXCEPT !.pc = "files", !.failed = TRUE]
             pc == IF ChunkCount[text] = 0 THEN "erase" ELSE "upsert"
             found == [job[a] EXCEPT !.text = text, !.pc = pc]
  <2>1. text \in Contents \cup {Gone}
    BY <1>1 DEF Typed, TypeOK
  <2>2. CASE text = Gone
    <3>1. lost \in Jobs /\ lost.pc = "files" /\ lost.mem = job[a].mem
      BY ZenonT(60), JobHas DEF Jobs, Phases
    <3>2. job' = [job EXCEPT ![a] = lost]
      BY <1>2, <2>2, JobHas DEF Read
    <3> HIDE DEF lost
    <3>3. QED  BY <1>1, <1>2, <3>1, <3>2, HandTypes, JobHas DEF Read, world, bounds
  <2>3. CASE text # Gone
    <3>1. /\ found \in Jobs /\ found.pc = pc /\ found.text = text /\ found.mem = job[a].mem
          /\ found.file = job[a].file /\ found.sha = job[a].sha
      BY ZenonT(60), <2>1, <2>3, JobHas DEF Jobs, Phases
    <3>2. job' = [job EXCEPT ![a] = found]
      BY <1>2, <2>3, JobHas DEF Read, Jobs
    <3> HIDE DEF found
    <3>3. pc = "erase" => ChunkCount[found.text] = 0
      BY <3>1
    <3> HIDE DEF pc
    <3>4. found.text \in Contents /\ pc \in {"erase", "upsert"}
      BY <2>1, <2>3, <3>1 DEF pc
    <3>5. /\ lock' = lock /\ recent' = recent /\ disk' = disk /\ used' = used
          /\ edits' = edits /\ kills' = kills /\ faults' \in 0..MaxFaults
          /\ points' \in SUBSET Points /\ manifest' \in Manifests \cup {NoManifest}
      BY <1>2, JobHas DEF Read, world, bounds
    <3>6. QED  BY <1>1, <3>1, <3>2, <3>3, <3>4, <3>5, HandTypes
  <2>4. QED  BY <2>2, <2>3
<1>3. CASE Erase(a)
  <2> DEFINE new == [job[a] EXCEPT !.pc = "record"]
  <2>1. /\ new \in Jobs /\ new.pc = "record" /\ new.mem = job[a].mem
        /\ new.file = job[a].file /\ new.sha = job[a].sha /\ new.text = job[a].text
    BY JobHas DEF Jobs, Phases
  <2>2. job' = [job EXCEPT ![a] = new]
    BY <1>3, JobHas DEF Erase
  <2> HIDE DEF new
  <2>3. points' \in SUBSET Points
    BY <1>3, JobHas DEF Erase, WithoutFile
  <2>4. /\ lock' = lock /\ recent' = recent /\ disk' = disk /\ used' = used
        /\ edits' = edits /\ kills' = kills /\ faults' \in 0..MaxFaults
        /\ manifest' \in Manifests \cup {NoManifest}
    BY <1>3, JobHas DEF Erase, world, bounds
  <2>5. job[a].text \in Contents
    BY <1>1, <1>3 DEF Erase
  <2>6. QED  BY <1>1, <2>1, <2>2, <2>3, <2>4, <2>5, HandTypes
<1>4. CASE Upsert(a)
  <2> DEFINE new == [job[a] EXCEPT !.pc = "sweep"]
  <2>1. /\ new \in Jobs /\ new.pc = "sweep" /\ new.mem = job[a].mem
        /\ new.file = job[a].file /\ new.sha = job[a].sha /\ new.text = job[a].text
    BY JobHas DEF Jobs, Phases
  <2>2. job' = [job EXCEPT ![a] = new]
    BY <1>4, JobHas DEF Upsert
  <2> HIDE DEF new
  <2>3. points' \in SUBSET Points
    BY <1>1, <1>4, JobHas, ChunksType, PointSteps DEF Upsert
  <2>4. /\ lock' = lock /\ recent' = recent /\ disk' = disk /\ used' = used
        /\ edits' = edits /\ kills' = kills /\ faults' \in 0..MaxFaults
        /\ manifest' \in Manifests \cup {NoManifest}
    BY <1>4, JobHas DEF Upsert, world, bounds
  <2>5. job[a].text \in Contents
    BY <1>1, <1>4 DEF Upsert
  <2>6. QED  BY <1>1, <2>1, <2>2, <2>3, <2>4, <2>5, HandTypes
<1>5. CASE Sweep(a)
  <2> DEFINE new == [job[a] EXCEPT !.pc = "record"]
  <2>1. /\ new \in Jobs /\ new.pc = "record" /\ new.mem = job[a].mem
        /\ new.file = job[a].file /\ new.sha = job[a].sha /\ new.text = job[a].text
    BY JobHas DEF Jobs, Phases
  <2>2. job' = [job EXCEPT ![a] = new]
    BY <1>5, JobHas DEF Sweep
  <2> HIDE DEF new
  <2>3. points' \in SUBSET Points
    BY <1>5, JobHas DEF Sweep, Swept
  <2>4. /\ lock' = lock /\ recent' = recent /\ disk' = disk /\ used' = used
        /\ edits' = edits /\ kills' = kills /\ faults' \in 0..MaxFaults
        /\ manifest' \in Manifests \cup {NoManifest}
    BY <1>5, JobHas DEF Sweep, world, bounds
  <2>5. job[a].text \in Contents
    BY <1>1, <1>5 DEF Sweep
  <2>6. QED  BY <1>1, <2>1, <2>2, <2>3, <2>4, <2>5, HandTypes
<1>6. CASE Record(a)
  <2> DEFINE pending == IF FlushDue(a) THEN 0 ELSE job[a].pending + 1
             new == [job[a] EXCEPT !.pc = "files", !.mem = Entered(a), !.pending = pending]
  <2>1. Entered(a) \in Manifests /\ Entered(a).model = Model[a]
    BY <1>6, EnteredType DEF Record
  <2>2. pending \in Nat
    BY JobHas DEF Jobs
  <2>3. job' = [job EXCEPT ![a] = new]
    BY <1>6, JobHas DEF Record, Jobs
  <2> HIDE DEF pending
  <2>4. new \in Jobs /\ new.pc = "files" /\ new.mem = Entered(a)
    BY ZenonT(60), <2>1, <2>2, JobHas DEF Jobs, Phases
  <2> HIDE DEF new
  <2>5. manifest' \in Manifests \cup {NoManifest}
    BY <1>6, <2>1, JobHas DEF Record
  <2>6. /\ lock' = lock /\ recent' = recent /\ disk' = disk /\ used' = used
        /\ edits' = edits /\ kills' = kills /\ faults' \in 0..MaxFaults
        /\ points' \in SUBSET Points
    BY <1>6, JobHas DEF Record, world, bounds
  <2>7. QED  BY <1>1, <2>1, <2>3, <2>4, <2>5, <2>6, HandTypes
<1>7. QED  BY <1>2, <1>3, <1>4, <1>5, <1>6

LEMMA EndTypes ==
    ASSUME Typed, NEW a \in Agents,
           Close(a) \/ GiveUp(a) \/ RunFails(a) \/ Kill(a)
    PROVE  Typed'
<1>1. Idle \in Jobs /\ Idle.pc = "idle" /\ job' = [job EXCEPT ![a] = Idle]
  BY IdleType DEF Close, GiveUp, RunFails, Kill, Idle
<1>2. faults' \in 0..MaxFaults /\ kills' \in 0..MaxKills /\ recent' \in SUBSET Agents
  BY FaultType, IndexAssumption DEF Close, GiveUp, RunFails, Kill, world, bounds, Typed, TypeOK
<1>3. manifest' \in Manifests \cup {NoManifest}
  <2>1. CASE Close(a)
    <3>1. job[a].mem \in Manifests
      BY <2>1 DEF Typed, Holding, Bound, Marked, Close, FilesDone, At
    <3>2. QED  BY <2>1, <3>1 DEF Close, Manifests
  <2>2. QED  BY <2>1, JobHas DEF GiveUp, RunFails, Kill
<1>4. QED
  BY <1>1, <1>2, <1>3, JobHas, RestedType DEF Close, GiveUp, RunFails, Kill, world, bounds

LEMMA FileFaultTypes ==
    ASSUME Typed, NEW a \in Agents, FileFails(a) \/ FlushFails(a)
    PROVE  Typed'
<1> USE DEF At
<1>1. /\ Busy(a) /\ job[a].mem \in Manifests /\ job[a].mem.model = Model[a]
      /\ job[a].file \in Files /\ job[a].sha \in Contents
      /\ job[a].pc # "read" => job[a].text \in Contents
  BY DEF Typed, Holding, Bound, Marked, Busy, FileFails, FlushFails
<1>2. faults' \in 0..MaxFaults
  BY FaultType DEF FileFails, FlushFails
<1>3. CASE FileFails(a)
  <2> DEFINE new == [job[a] EXCEPT !.pc = "files", !.failed = TRUE]
  <2>1. new \in Jobs /\ new.pc = "files" /\ new.mem = job[a].mem
    BY ZenonT(60), JobHas DEF Jobs, Phases
  <2>2. job' = [job EXCEPT ![a] = new]
    BY <1>3, JobHas DEF FileFails
  <2> HIDE DEF new
  <2>3. points' \in SUBSET Points
    BY <1>1, <1>3, JobHas, ChunksType, PointSteps DEF FileFails
  <2>4. /\ lock' = lock /\ recent' = recent /\ disk' = disk /\ used' = used
        /\ edits' = edits /\ kills' = kills /\ faults' \in 0..MaxFaults
        /\ manifest' \in Manifests \cup {NoManifest}
    BY <1>2, <1>3, JobHas DEF FileFails
  <2>5. QED  BY <1>1, <2>1, <2>2, <2>3, <2>4, HandTypes
<1>4. CASE FlushFails(a)
  <2> DEFINE new == [job[a] EXCEPT !.pc = "files", !.failed = TRUE, !.mem = Entered(a),
                                   !.pending = 0]
  <2>1. Entered(a) \in Manifests /\ Entered(a).model = Model[a]
    BY <1>4, EnteredType DEF FlushFails
  <2>2. new \in Jobs /\ new.pc = "files" /\ new.mem = Entered(a)
    BY ZenonT(60), <2>1, JobHas DEF Jobs, Phases
  <2>3. job' = [job EXCEPT ![a] = new]
    BY <1>4, JobHas DEF FlushFails, Jobs
  <2> HIDE DEF new
  <2>4. /\ lock' = lock /\ recent' = recent /\ disk' = disk /\ used' = used
        /\ edits' = edits /\ kills' = kills /\ faults' \in 0..MaxFaults
        /\ manifest' \in Manifests \cup {NoManifest} /\ points' \in SUBSET Points
    BY <1>2, <1>4, JobHas DEF FlushFails
  <2>5. QED  BY <1>1, <2>1, <2>2, <2>3, <2>4, HandTypes
<1>5. QED  BY <1>3, <1>4

LEMMA OutsideTypes ==
    ASSUME Typed,
           RemoveManifest \/ \E f \in Files, c \in Contents \cup {Gone} : Edit(f, c)
    PROVE  Typed'
<1>1. /\ TypeOK /\ job' = job /\ \A a \in Agents : Holding(a)
  BY DEF Typed, RemoveManifest, Edit
<1>2. \A a \in Agents : Holding(a)'
  BY <1>1 DEF Holding, Bound, Marked, Busy, At
<1>3. CASE RemoveManifest
  BY <1>1, <1>2, <1>3, FaultType DEF Typed, TypeOK, RemoveManifest
<1>4. ASSUME NEW f \in Files, NEW c \in Contents \cup {Gone}, Edit(f, c)  PROVE Typed'
  <2>1. disk' \in [Files -> Contents \cup {Gone}]
    BY <1>1, <1>4 DEF TypeOK, Edit
  <2>2. used' \in [Files -> SUBSET Contents]
    BY <1>1, <1>4 DEF TypeOK, Edit
  <2>3. edits' \in 0..MaxEdits
    BY <1>1, <1>4, IndexAssumption DEF TypeOK, Edit
  <2>4. QED  BY <1>1, <1>2, <1>4, <2>1, <2>2, <2>3 DEF Typed, TypeOK, Edit
<1>5. QED  BY <1>3, <1>4

LEMMA InitTypes == Init => Typed
<1> SUFFICES ASSUME Init PROVE Typed
  OBVIOUS
<1>1. used \in [Files -> SUBSET Contents]
  BY IndexAssumption DEF Init
<1>2. job \in [Agents -> Jobs] /\ \A a \in Agents : job[a].pc = "idle"
  BY IdleType DEF Init, Idle
<1>3. QED  BY <1>1, <1>2, IndexAssumption
           DEF Init, Typed, TypeOK, Holding, Bound, Marked, Busy, At

LEMMA TypesKept == Typed /\ [Next]_vars => Typed'
<1> SUFFICES ASSUME Typed, [Next]_vars PROVE Typed'
  OBVIOUS
<1>1. CASE UNCHANGED vars
  BY <1>1 DEF vars, Typed, TypeOK, Holding, Bound, Marked, Busy, At
<1>2. ASSUME NEW a \in Agents, Index(a)  PROVE Typed'
  BY <1>2, BeginTypes, OpenTypes, LookTypes, StoreTypes, EndTypes DEF Index
<1>3. ASSUME NEW a \in Agents, Disturb(a)  PROVE Typed'
  BY <1>3, EndTypes, FileFaultTypes DEF Disturb
<1>4. QED  BY <1>1, <1>2, <1>3, BeginTypes, OutsideTypes DEF Next

\* Whatever agents do, and however runs, files and the manifest are disturbed,
\* points, manifest and the state of every run have the shape the code gives
\* them: a run that writes has a manifest of its own model and a file in hand.
THEOREM IndexTypes == Spec => []TypeOK
<1>1. Typed => TypeOK
  BY DEF Typed
<1>2. QED  BY <1>1, InitTypes, TypesKept, PTL DEF Spec

-----------------------------------------------------------------------------
(* What the steps of a run do to its own variables, and to no other run.   *)

Step(a) ==
    \/ AutoKick(a) \/ Elapse(a) \/ Index(a) \/ Disturb(a)
    \/ \E full \in BOOLEAN : Reindex(a, full)

Outside == RemoveManifest \/ \E f \in Files, c \in Contents \cup {Gone} : Edit(f, c)

LEMMA OthersRest ==
    ASSUME Typed, NEW a \in Agents, Step(a)
    PROVE  \A b \in Agents \ {a} : job'[b] = job[b]
<1>1. job \in [Agents -> Jobs]
  BY JobHas DEF Typed, TypeOK
<1>2. CASE AutoKick(a) \/ Elapse(a) \/ \E full \in BOOLEAN : Reindex(a, full)
  BY <1>1, <1>2 DEF AutoKick, Reindex, Kick, Elapse
<1>3. CASE Acquire(a) \/ Load(a) \/ Count(a) \/ Reset(a) \/ Bind(a) \/ Mark(a) \/ Discover(a)
  BY <1>1, <1>3 DEF Acquire, Load, Count, Reset, Bind, Mark, Discover
<1>4. CASE \E f \in Files : DropGone(a, f) \/ Inspect(a, f)
  BY <1>1, <1>4 DEF DropGone, Inspect
<1>5. CASE Read(a) \/ Erase(a) \/ Upsert(a) \/ Sweep(a) \/ Record(a)
  BY <1>1, <1>5 DEF Read, Erase, Upsert, Sweep, Record
<1>6. CASE Close(a) \/ GiveUp(a) \/ Disturb(a)
  BY <1>1, <1>6 DEF Close, GiveUp, Disturb, FileFails, FlushFails, RunFails, Kill
<1>7. QED  BY <1>2, <1>3, <1>4, <1>5, <1>6 DEF Step, Index

LEMMA BeginDoes ==
    ASSUME Typed, NEW a \in Agents,
           \/ AutoKick(a) \/ Elapse(a) \/ \E full \in BOOLEAN : Reindex(a, full)
           \/ Acquire(a)
    PROVE  /\ UNCHANGED <<points, manifest, disk, used>>
           /\ \/ job' = job
              \/ ~Inside(a) /\ job'[a].pc \in {"idle", "acquire", "load"}
           /\ \/ lock' = lock /\ (job' = job \/ ~Inside(a)')
              \/ Locking /\ lock = Free /\ lock' = a
              \/ ~Locking
<1>1. CASE \E force \in BOOLEAN : Kick(a, force)
  BY <1>1, JobHas DEF Kick, Idle, Inside, world
<1>2. CASE Elapse(a)
  BY <1>2 DEF Elapse, world
<1>3. CASE Acquire(a)
  <2>1. UNCHANGED <<points, manifest, disk, used>> /\ ~Inside(a)
    BY <1>3 DEF Acquire, Inside, At, world
  <2>2. CASE job' = [job EXCEPT ![a] = Idle] /\ lock' = lock
    <3>1. job'[a].pc = "idle"
      BY <2>2, JobHas DEF Idle
    <3>2. QED  BY <2>1, <2>2, <3>1 DEF Inside
  <2>3. CASE job' = [job EXCEPT ![a].pc = "load"] 
           /\ (~Locking \/ (Locking /\ lock = Free /\ lock' = a))
    <3>1. job'[a].pc = "load"
      BY <2>3, JobHas DEF Jobs
    <3>2. QED  BY <2>1, <2>3, <3>1
  <2>4. QED  BY <1>3, <2>2, <2>3 DEF Acquire
<1>4. QED  BY <1>1, <1>2, <1>3 DEF AutoKick, Reindex

LEMMA LoadDoes ==
    ASSUME Typed, NEW a \in Agents, Load(a)
    PROVE  /\ At(a, "load") /\ Inside(a) /\ UNCHANGED <<points, manifest, disk, used, lock>>
           /\ job'[a].mem = manifest
           /\ job'[a].pc = IF Matches(manifest, Model[a]) THEN "count" ELSE "reset"
BY JobHas DEF Load, Inside, At, world, Jobs

LEMMA CountDoes ==
    ASSUME Typed, NEW a \in Agents, Count(a)
    PROVE  /\ At(a, "count") /\ Inside(a) /\ UNCHANGED <<points, manifest, disk, used, lock>>
           /\ job'[a].mem = job[a].mem /\ job'[a].force = job[a].force
           /\ job'[a].pc =
                  IF ~job[a].force /\ CountAgrees(job[a].mem) THEN "mark" ELSE "reset"
BY JobHas DEF Count, Inside, At, world, Jobs

LEMMA ResetDoes ==
    ASSUME Typed, NEW a \in Agents, Reset(a)
    PROVE  /\ At(a, "reset") /\ Inside(a) /\ UNCHANGED <<manifest, disk, used, lock>>
           /\ points' = {} /\ job'[a].pc = "bind"
BY JobHas DEF Reset, DeleteScope, Inside, At, world, Jobs

LEMMA BindDoes ==
    ASSUME Typed, NEW a \in Agents, Bind(a)
    PROVE  /\ At(a, "bind") /\ Inside(a) /\ UNCHANGED <<points, disk, used, lock>>
           /\ manifest' = Empty(Model[a])
           /\ job'[a].mem = Empty(Model[a]) /\ job'[a].pc = "mark"
BY JobHas DEF Bind, Inside, At, world, Jobs

LEMMA MarkDoes ==
    ASSUME Typed, NEW a \in Agents, Mark(a)
    PROVE  /\ At(a, "mark") /\ Inside(a) /\ UNCHANGED <<points, disk, used, lock>>
           /\ manifest' = [job[a].mem EXCEPT !.indexing = TRUE]
           /\ job'[a].mem = manifest' /\ job'[a].pc = "discover"
           /\ job'[a].force = job[a].force
BY JobHas DEF Mark, Inside, At, world, Jobs

LEMMA DiscoverDoes ==
    ASSUME Typed, NEW a \in Agents, Discover(a)
    PROVE  /\ At(a, "discover") /\ Inside(a)
           /\ UNCHANGED <<points, manifest, disk, used, lock>>
           /\ job'[a].mem = job[a].mem /\ job'[a].pc = "files"
           /\ job'[a].force = job[a].force
           /\ job'[a].todo = {f \in Files : disk[f] # Gone}
           /\ job'[a].gone = DOMAIN job[a].mem.files \ job'[a].todo
BY JobHas DEF Discover, Inside, At, world, Jobs

LEMMA DropGoneDoes ==
    ASSUME Typed, NEW a \in Agents, NEW f \in Files, DropGone(a, f)
    PROVE  /\ At(a, "files") /\ Inside(a) /\ UNCHANGED <<manifest, disk, used, lock>>
           /\ f \in job[a].gone /\ points' = WithoutFile(f)
           /\ job'[a].pc = "files" /\ job'[a].gone = job[a].gone \ {f}
           /\ job'[a].mem = [job[a].mem EXCEPT !.files = Restrict(@, DOMAIN @ \ {f})]
           /\ job'[a].force = job[a].force /\ job'[a].todo = job[a].todo
           /\ job'[a].failed = job[a].failed
<1>1. /\ At(a, "files") /\ Inside(a) /\ UNCHANGED <<manifest, disk, used, lock>>
      /\ f \in job[a].gone /\ points' = WithoutFile(f)
  BY DEF DropGone, Inside, At, world
<1> DEFINE files == Restrict(job[a].mem.files, DOMAIN job[a].mem.files \ {f})
<1>2. job' = [job EXCEPT ![a].gone = @ \ {f}, ![a].pending = @ + 1, ![a].mem.files = files]
  BY DEF DropGone
<1> HIDE DEF files
<1>3. QED  BY <1>1, <1>2, JobHas DEF Jobs, At, files

LEMMA InspectDoes ==
    ASSUME Typed, NEW a \in Agents, NEW f \in Files, Inspect(a, f)
    PROVE  /\ At(a, "files") /\ Inside(a) /\ job[a].gone = {} /\ f \in job[a].todo
           /\ UNCHANGED <<points, manifest, disk, used, lock>>
           /\ job'[a].gone = {} /\ job'[a].todo = job[a].todo \ {f}
           /\ job'[a].mem = job[a].mem /\ job'[a].force = job[a].force
           /\ \/ job'[a].pc = "files" /\ job'[a].failed
              \/ /\ job'[a].pc = "files" /\ job'[a].failed = job[a].failed
                 /\ disk[f] # Gone /\ ~job[a].force /\ Known(job[a].mem, f, disk[f])
              \/ /\ job'[a].pc = "read" /\ job'[a].failed = job[a].failed
                 /\ disk[f] # Gone /\ (job[a].force \/ ~Known(job[a].mem, f, disk[f]))
                 /\ job'[a].file = f /\ job'[a].sha = disk[f]
<1>1. /\ At(a, "files") /\ Inside(a) /\ job[a].gone = {} /\ f \in job[a].todo
      /\ UNCHANGED <<points, manifest, disk, used, lock>>
  BY DEF Inspect, Inside, At, world
<1>2. CASE /\ disk[f] = Gone
           /\ job' = [job EXCEPT ![a].todo = @ \ {f}, ![a].failed = TRUE]
  BY <1>1, <1>2, JobHas DEF Jobs, At
<1>3. CASE /\ disk[f] # Gone /\ ~job[a].force /\ Known(job[a].mem, f, disk[f])
           /\ job' = [job EXCEPT ![a].todo = @ \ {f}]
  BY <1>1, <1>3, JobHas DEF Jobs, At
<1>4. CASE /\ disk[f] # Gone /\ (job[a].force \/ ~Known(job[a].mem, f, disk[f]))
           /\ job' = [job EXCEPT ![a].todo = @ \ {f}, ![a].file = f,
                                 ![a].sha = disk[f], ![a].pc = "read"]
  BY <1>1, <1>4, JobHas DEF Jobs, At
<1>5. QED  BY <1>2, <1>3, <1>4 DEF Inspect

\* What a run knows of the file in hand and of the others, kept.
SameWork(a) ==
    /\ job'[a].gone = job[a].gone /\ job'[a].todo = job[a].todo
    /\ job'[a].force = job[a].force
    /\ job'[a].file = job[a].file /\ job'[a].sha = job[a].sha

LEMMA ReadDoes ==
    ASSUME Typed, NEW a \in Agents, Read(a)
    PROVE  /\ At(a, "read") /\ Inside(a) /\ UNCHANGED <<points, manifest, disk, used, lock>>
           /\ SameWork(a) /\ job'[a].mem = job[a].mem
           /\ \/ job'[a].pc = "files" /\ job'[a].failed
              \/ /\ job'[a].pc \in {"erase", "upsert"} /\ job'[a].failed = job[a].failed
                 /\ disk[job[a].file] # Gone /\ job'[a].text = disk[job[a].file]
<1>1. At(a, "read") /\ Inside(a) /\ UNCHANGED <<points, manifest, disk, used, lock>>
  BY DEF Read, Inside, At, world
<1>2. CASE disk[job[a].file] = Gone
  BY <1>1, <1>2, JobHas DEF Read, Jobs, At, SameWork
<1>3. CASE disk[job[a].file] # Gone
  BY <1>1, <1>3, JobHas DEF Read, Jobs, At, SameWork
<1>4. QED  BY <1>2, <1>3

LEMMA StoreDoes ==
    ASSUME Typed, NEW a \in Agents, Erase(a) \/ Upsert(a) \/ Sweep(a)
    PROVE  /\ Inside(a) /\ Busy(a) /\ ~At(a, "read") /\ UNCHANGED <<manifest, disk, used, lock>>
           /\ SameWork(a) /\ job'[a].mem = job[a].mem /\ job'[a].text = job[a].text
           /\ job'[a].failed = job[a].failed
           /\ \/ /\ At(a, "erase") /\ job'[a].pc = "record"
                 /\ points' = WithoutFile(job[a].file)
              \/ /\ At(a, "upsert") /\ job'[a].pc = "sweep"
                 /\ points' =
                        Upserted(ChunksOf(job[a].file, job[a].sha, job[a].text, Model[a]))
              \/ /\ At(a, "sweep") /\ job'[a].pc = "record"
                 /\ points' = Swept(job[a].file, job[a].sha)
BY JobHas DEF Erase, Upsert, Sweep, Inside, Busy, At, world, Jobs, SameWork

\* Record, with or without a flush that fails.
LEMMA RecordDoes ==
    ASSUME Typed, NEW a \in Agents, Record(a) \/ FlushFails(a)
    PROVE  /\ At(a, "record") /\ Inside(a) /\ UNCHANGED <<points, disk, used, lock>>
           /\ SameWork(a) /\ job'[a].mem = Entered(a) /\ job'[a].pc = "files"
           /\ job'[a].failed = job[a].failed \/ job'[a].failed
           /\ manifest' \in {manifest, Entered(a)}
<1>1. CASE Record(a)
  <2> DEFINE mem == Entered(a)
             pending == IF FlushDue(a) THEN 0 ELSE job[a].pending + 1
  <2>1. job' = [job EXCEPT ![a].pc = "files", ![a].mem = mem, ![a].pending = pending]
    BY <1>1 DEF Record
  <2>2. /\ At(a, "record") /\ Inside(a) /\ UNCHANGED <<points, disk, used, lock>>
        /\ manifest' \in {manifest, mem}
    BY <1>1 DEF Record, Inside, At, world
  <2> HIDE DEF mem, pending
  <2>3. QED  BY <2>1, <2>2, JobHas DEF Jobs, SameWork, mem
<1>2. CASE FlushFails(a)
  <2> DEFINE mem == Entered(a)
  <2>1. job' = [job EXCEPT ![a].pc = "files", ![a].failed = TRUE, ![a].mem = mem,
                           ![a].pending = 0]
    BY <1>2 DEF FlushFails
  <2>2. /\ At(a, "record") /\ Inside(a) /\ UNCHANGED <<points, disk, used, lock, manifest>>
    BY <1>2 DEF FlushFails, Inside, At
  <2> HIDE DEF mem
  <2>3. QED  BY <2>1, <2>2, JobHas DEF Jobs, SameWork, mem
<1>3. QED  BY <1>1, <1>2

LEMMA FileFailsDoes ==
    ASSUME Typed, NEW a \in Agents, FileFails(a)
    PROVE  /\ Busy(a) /\ Inside(a) /\ UNCHANGED <<manifest, disk, used, lock>>
           /\ SameWork(a) /\ job'[a].mem = job[a].mem /\ job'[a].pc = "files"
           /\ job'[a].failed
           /\ \/ points' = points
              \/ /\ At(a, "upsert")
                 /\ points' =
                        Upserted(ChunksOf(job[a].file, job[a].sha, job[a].text, Model[a]))
BY JobHas DEF FileFails, Busy, Inside, At, Jobs, SameWork

LEMMA EndDoes ==
    ASSUME Typed, NEW a \in Agents,
           Close(a) \/ GiveUp(a) \/ RunFails(a) \/ Kill(a)
    PROVE  /\ job'[a].pc = "idle" /\ lock' = Unlocked(a) /\ UNCHANGED <<points, disk, used>>
           /\ ~Close(a) => manifest' = manifest
           /\ Close(a) =>
                 /\ At(a, "files") /\ job[a].gone = {} /\ job[a].todo = {} /\ ~job[a].failed
                 /\ manifest' = [job[a].mem EXCEPT !.last = TRUE, !.indexing = FALSE]
BY JobHas DEF Close, GiveUp, RunFails, Kill, FilesDone, Idle, At, world

LEMMA OutsideDoes ==
    ASSUME Outside
    PROVE  /\ UNCHANGED <<points, lock, job>> /\ manifest' \in {manifest, NoManifest}
BY DEF Outside, RemoveManifest, Edit

-----------------------------------------------------------------------------
(* Runs that exclude each other.                                           *)

LEMMA ExcludedKept ==
    ASSUME Typed, OneAtATime, Excluded, [Next]_vars
    PROVE  Excluded'
<1>1. CASE UNCHANGED vars \/ Outside
  <2>1. UNCHANGED <<job, lock>>
    BY <1>1, OutsideDoes DEF vars
  <2>2. QED  BY <2>1 DEF Excluded, Inside
<1>2. ASSUME NEW a \in Agents, Step(a)  PROVE Excluded'
  <2>1. \A b \in Agents \ {a} : Inside(b)' <=> Inside(b)
    BY <1>2, OthersRest DEF Inside
  <2>2. CASE AutoKick(a) \/ Elapse(a) \/ (\E full \in BOOLEAN : Reindex(a, full)) \/ Acquire(a)
    <3>1. \/ lock' = lock /\ (job' = job \/ ~Inside(a)')
          \/ Locking /\ lock = Free /\ lock' = a
          \/ ~Locking
      BY <2>2, BeginDoes
    <3>2. job' = job => (Inside(a)' <=> Inside(a))
      BY DEF Inside
    <3>3. Locking /\ lock = Free => \A b \in Agents : ~Inside(b)
      BY IndexAssumption DEF Excluded
    <3>4. QED  BY <2>1, <3>1, <3>2, <3>3 DEF Excluded, OneAtATime
  <2>3. CASE Close(a) \/ GiveUp(a) \/ RunFails(a) \/ Kill(a)
    <3>1. ~Inside(a)' /\ lock' = Unlocked(a)
      BY <2>3, EndDoes DEF Inside
    <3>2. QED  BY <2>1, <3>1 DEF Excluded, Unlocked
  <2>4. CASE Inside(a) /\ lock' = lock
    BY <2>1, <2>4 DEF Excluded
  <2>5. Load(a) \/ Count(a) \/ Reset(a) \/ Bind(a) \/ Mark(a) \/ Discover(a)
            => Inside(a) /\ lock' = lock
    BY LoadDoes, CountDoes, ResetDoes, BindDoes, MarkDoes, DiscoverDoes
  <2>6. (\E f \in Files : DropGone(a, f) \/ Inspect(a, f)) \/ Read(a) \/ FileFails(a)
            \/ Erase(a) \/ Upsert(a) \/ Sweep(a) \/ Record(a) \/ FlushFails(a)
            => Inside(a) /\ lock' = lock
    BY DropGoneDoes, InspectDoes, ReadDoes, StoreDoes, RecordDoes, FileFailsDoes
  <2>7. QED  BY <1>2, <2>2, <2>3, <2>4, <2>5, <2>6 DEF Step, Index, Disturb
<1>3. QED  BY <1>1, <1>2 DEF Next, Step, Outside

-----------------------------------------------------------------------------
(* The store is of the manifest's model, and a search finds its own.       *)

OfModel(model) == \A pt \in points : pt.model = model

\* A run that has taken over or bound a manifest finds its own model only.
OwnModel(a) ==
    /\ Bound(a) \/ At(a, "count") => OfModel(Model[a]) /\
           (manifest # NoManifest => manifest.model = Model[a])
    /\ At(a, "bind") => points = {}

OwnInv == Excluded /\ StoreIsOfOneModel /\ \A a \in Agents : OwnModel(a)

\* Nobody else is inside while a run is, and outside nothing is claimed.
LEMMA OthersOwn ==
    ASSUME Typed, Excluded, NEW a \in Agents, Step(a), Inside(a)
    PROVE  \A b \in Agents \ {a} : OwnModel(b)'
<1>1. \A b \in Agents \ {a} : ~Inside(b) /\ job'[b] = job[b]
  BY OthersRest DEF Excluded
<1>2. QED  BY <1>1 DEF OwnModel, Bound, Marked, Busy, At, Inside

LEMMA ModelSteps ==
    ASSUME points \in SUBSET Points, NEW model, OfModel(model), NEW f, NEW sha, NEW text
    PROVE  /\ \A pt \in Upserted(ChunksOf(f, sha, text, model)) : pt.model = model
           /\ \A pt \in WithoutFile(f) : pt.model = model
           /\ \A pt \in Swept(f, sha) : pt.model = model
BY DEF OfModel, Upserted, WithoutFile, Swept, ChunksOf

LEMMA OwnModelStep ==
    ASSUME Typed, Typed', OwnInv, OneAtATime, NEW a \in Agents, Step(a)
    PROVE  StoreIsOfOneModel' /\ \A b \in Agents : OwnModel(b)'
<1> USE DEF At
<1>1. StoreIsOfOneModel /\ \A b \in Agents : OwnModel(b)
  BY DEF OwnInv
<1>2. Inside(a) => \A b \in Agents \ {a} : OwnModel(b)'
  BY OthersOwn DEF OwnInv
<1>3. CASE AutoKick(a) \/ Elapse(a) \/ (\E full \in BOOLEAN : Reindex(a, full)) \/ Acquire(a)
  <2>1. /\ UNCHANGED <<points, manifest>>
        /\ job' = job \/ job'[a].pc \in {"idle", "acquire", "load"}
        /\ \A b \in Agents \ {a} : job'[b] = job[b]
    BY <1>3, BeginDoes, OthersRest
  <2>2. QED  BY <1>1, <2>1 DEF StoreIsOfOneModel, OwnModel, OfModel, Bound, Marked, Busy
<1>4. CASE Load(a)
  <2>1. /\ Inside(a) /\ UNCHANGED <<points, manifest>>
        /\ job'[a].pc \in {"count", "reset"}
        /\ job'[a].pc = "count" => manifest # NoManifest /\ manifest.model = Model[a]
    BY <1>4, LoadDoes DEF Matches
  <2>2. StoreIsOfOneModel' /\ OwnModel(a)'
    BY <1>1, <2>1 DEF StoreIsOfOneModel, OwnModel, OfModel, Bound, Marked, Busy
  <2>3. QED  BY <1>2, <2>1, <2>2
<1>5. CASE Count(a)
  <2>1. /\ Inside(a) /\ UNCHANGED <<points, manifest>>
        /\ job[a].pc = "count" /\ job'[a].pc \in {"mark", "reset"}
    BY <1>5, CountDoes
  <2>2. StoreIsOfOneModel' /\ OwnModel(a)'
    BY <1>1, <2>1 DEF StoreIsOfOneModel, OwnModel, OfModel, Bound, Marked, Busy
  <2>3. QED  BY <1>2, <2>1, <2>2
<1>6. CASE Reset(a)
  <2>1. Inside(a) /\ points' = {} /\ manifest' = manifest /\ job'[a].pc = "bind"
    BY <1>6, ResetDoes
  <2>2. StoreIsOfOneModel' /\ OwnModel(a)'
    BY <1>1, <2>1 DEF StoreIsOfOneModel, OwnModel, OfModel, Bound, Marked, Busy
  <2>3. QED  BY <1>2, <2>1, <2>2
<1>7. CASE Bind(a)
  <2>1. /\ Inside(a) /\ points' = points /\ job[a].pc = "bind"
        /\ manifest' = Empty(Model[a]) /\ job'[a].pc = "mark"
    BY <1>7, BindDoes
  <2>2. points = {} /\ manifest'.model = Model[a]
    BY <1>1, <2>1 DEF OwnModel, Empty
  <2>3. StoreIsOfOneModel' /\ OwnModel(a)'
    BY <2>1, <2>2 DEF StoreIsOfOneModel, OwnModel, OfModel, Bound, Marked, Busy
  <2>4. QED  BY <1>2, <2>1, <2>3
<1>8. CASE Mark(a)
  <2>1. /\ Inside(a) /\ points' = points /\ job[a].pc = "mark" /\ job'[a].pc = "discover"
        /\ manifest' = job'[a].mem
    BY <1>8, MarkDoes
  <2>2. manifest'.model = Model[a]
    BY <2>1 DEF Typed, Holding, Bound, Marked
  <2>3. StoreIsOfOneModel' /\ OwnModel(a)'
    BY <1>1, <2>1, <2>2 DEF StoreIsOfOneModel, OwnModel, OfModel, Bound, Marked, Busy
  <2>4. QED  BY <1>2, <2>1, <2>3
<1>9. CASE Close(a) \/ GiveUp(a) \/ RunFails(a) \/ Kill(a)
  <2>1. /\ points' = points /\ job'[a].pc = "idle"
        /\ \A b \in Agents \ {a} : job'[b] = job[b]
        /\ ~Close(a) => manifest' = manifest
        /\ Close(a) => Inside(a) /\ Bound(a) /\
               manifest' = [job[a].mem EXCEPT !.last = TRUE, !.indexing = FALSE]
    BY <1>9, EndDoes, OthersRest DEF Inside, Bound, Marked
  <2>2. CASE ~Close(a)
    BY <1>1, <2>1, <2>2 DEF StoreIsOfOneModel, OwnModel, OfModel, Bound, Marked, Busy
  <2>3. CASE Close(a)
    <3>1. job[a].mem \in Manifests /\ job[a].mem.model = Model[a]
      BY <2>1, <2>3 DEF Typed, Holding
    <3>2. manifest'.model = Model[a]
      BY <2>1, <2>3, <3>1 DEF Manifests
    <3>3. StoreIsOfOneModel' /\ OwnModel(a)'
      BY <1>1, <2>1, <2>3, <3>2 DEF StoreIsOfOneModel, OwnModel, OfModel, Bound, Marked, Busy
    <3>4. QED  BY <1>2, <2>1, <2>3, <3>3
  <2>4. QED  BY <2>2, <2>3
<1>10. CASE /\ Inside(a) /\ Bound(a)
            /\ \A pt \in points' : pt.model = Model[a]
            /\ manifest' = manifest \/ manifest'.model = Model[a]
            /\ job'[a].pc # "bind"
  <2>1. StoreIsOfOneModel' /\ OwnModel(a)'
    BY <1>1, <1>10 DEF StoreIsOfOneModel, OwnModel, OfModel
  <2>2. QED  BY <1>2, <1>10, <2>1
<1>11. Bound(a) =>
           /\ points \in SUBSET Points /\ OfModel(Model[a])
           /\ \A pt \in points : pt.model = Model[a]
  BY <1>1, JobHas DEF OwnModel, OfModel
<1>12. CASE Discover(a) \/ (\E f \in Files : DropGone(a, f) \/ Inspect(a, f)) \/ Read(a)
  <2>1. /\ Inside(a) /\ Bound(a) /\ job'[a].pc # "bind" /\ manifest' = manifest
        /\ points' = points \/ \E f \in Files : points' = WithoutFile(f)
    BY <1>12, DiscoverDoes, DropGoneDoes, InspectDoes, ReadDoes DEF Bound, Marked, Busy
  <2>2. QED  BY <1>10, <1>11, <2>1, ModelSteps
<1>13. CASE Erase(a) \/ Upsert(a) \/ Sweep(a) \/ FileFails(a)
  <2>1. /\ Inside(a) /\ Bound(a) /\ job'[a].pc # "bind" /\ manifest' = manifest
        /\ \/ points' = points
           \/ \E f : points' = WithoutFile(f)
           \/ \E f, sha : points' = Swept(f, sha)
           \/ \E f, sha, text : points' = Upserted(ChunksOf(f, sha, text, Model[a]))
    BY <1>13, StoreDoes, FileFailsDoes DEF Bound, Marked
  <2>2. points \in SUBSET Points /\ OfModel(Model[a])
    BY <1>11, <2>1
  <2>3. ASSUME NEW f, NEW sha, NEW text
        PROVE  /\ \A pt \in Upserted(ChunksOf(f, sha, text, Model[a])) : pt.model = Model[a]
               /\ \A pt \in WithoutFile(f) : pt.model = Model[a]
               /\ \A pt \in Swept(f, sha) : pt.model = Model[a]
    BY <2>2, ModelSteps
  <2>4. \A pt \in points' : pt.model = Model[a]
    BY <1>11, <2>1, <2>3
  <2>5. QED  BY <1>10, <2>1, <2>4
<1>14. CASE Record(a) \/ FlushFails(a)
  <2>1. /\ Inside(a) /\ Bound(a) /\ job'[a].pc # "bind" /\ points' = points
        /\ manifest' \in {manifest, Entered(a)} /\ Entered(a).model = Model[a]
    BY <1>14, RecordDoes, EnteredType DEF Bound, Marked, Busy
  <2>2. QED  BY <1>10, <1>11, <2>1
<1>15. CASE Index(a)
  <2>1. CASE \/ Acquire(a) \/ Load(a) \/ Count(a) \/ Reset(a) \/ Bind(a) \/ Mark(a)
             \/ Close(a) \/ GiveUp(a)
    BY <1>3, <1>4, <1>5, <1>6, <1>7, <1>8, <1>9, <2>1
  <2>2. CASE \/ Discover(a) \/ (\E f \in Files : DropGone(a, f) \/ Inspect(a, f))
             \/ Read(a) \/ Erase(a) \/ Upsert(a) \/ Sweep(a) \/ Record(a)
    BY <1>12, <1>13, <1>14, <2>2
  <2>3. QED  BY <1>15, <2>1, <2>2 DEF Index
<1>16. CASE Disturb(a)
  BY <1>9, <1>13, <1>14, <1>16 DEF Disturb
<1>17. QED  BY <1>3, <1>15, <1>16 DEF Step

LEMMA OwnKept ==
    ASSUME Typed, Typed', OwnInv, OneAtATime, [Next]_vars
    PROVE  OwnInv'
<1>1. Excluded'
  BY ExcludedKept DEF OwnInv
<1>2. CASE UNCHANGED vars \/ Outside
  <2>1. UNCHANGED <<points, job>> /\ manifest' \in {manifest, NoManifest}
    BY <1>2, OutsideDoes DEF vars
  <2>2. QED
    BY <1>1, <2>1 DEF OwnInv, StoreIsOfOneModel, OwnModel, OfModel, Bound, Marked, Busy, At
<1>3. ASSUME NEW a \in Agents, Step(a)  PROVE OwnInv'
  BY <1>1, <1>3, OwnModelStep DEF OwnInv
<1>4. QED  BY <1>2, <1>3 DEF Next, Step, Outside

LEMMA InitExcluded == Init => Excluded /\ \A a \in Agents : job[a].pc = "idle"
BY DEF Init, Excluded, Inside, Idle

-----------------------------------------------------------------------------
(* Searches: the check, a wait without a lock, the query.                  *)

\* A run that has found a manifest of its model or bound one.
Claims(a) == Bound(a) \/ At(a, "count")

\* As long as no other model's run has bound the manifest since the check of
\* a, all that is stored and recorded is of a's model, and so is every run
\* that would store more.
StillOwn(a) ==
    /\ OfModel(Model[a])
    /\ ~OfAnother(manifest, Model[a])
    /\ \A b \in Agents : Claims(b) => Model[b] = Model[a]

AskingInv == asking \subseteq Agents /\ \A a \in asking \ rebound : StillOwn(a)

\* What a step adds to the store comes from a run that claims the scope, and
\* a run begins to claim it with a manifest of its own model on disk.
LEMMA StepClaims ==
    ASSUME Typed, NEW a \in Agents, Step(a)
    PROVE  /\ \A pt \in points' : pt \in points \/ (Claims(a) /\ pt.model = Model[a])
           /\ Claims(a)' => Claims(a) \/ Matches(manifest', Model[a])
<1> USE DEF At, Claims, Bound, Marked, Busy
<1>1. CASE AutoKick(a) \/ Elapse(a) \/ (\E full \in BOOLEAN : Reindex(a, full)) \/ Acquire(a)
  <2>1. points' = points /\ (job' = job \/ job'[a].pc \in {"idle", "acquire", "load"})
    BY <1>1, BeginDoes
  <2>2. QED  BY <2>1
<1>2. CASE Load(a) \/ Count(a) \/ Reset(a)
  <2>1. points' \subseteq points /\ manifest' = manifest
    BY <1>2, LoadDoes, CountDoes, ResetDoes
  <2>2. Claims(a)' => Claims(a) \/ Matches(manifest, Model[a])
    BY <1>2, LoadDoes, CountDoes, ResetDoes
  <2>3. QED  BY <2>1, <2>2 DEF Matches
<1>3. CASE Bind(a)
  <2>1. points' = points /\ manifest' = Empty(Model[a])
    BY <1>3, BindDoes
  <2>2. Empty(Model[a]) \in Manifests /\ Empty(Model[a]).model = Model[a]
    <3>1. Model[a] \in Models
      BY DEF Models
    <3>2. Empty(Model[a]) \in Manifests
      BY <3>1, EmptyType
    <3>3. QED  BY <3>2 DEF Empty
  <2>3. QED  BY <2>1, <2>2, NoManifestAssumption DEF Matches
<1>4. CASE Mark(a) \/ Record(a) \/ FlushFails(a)
  <2>1. points' = points /\ Claims(a)
    BY <1>4, MarkDoes, RecordDoes
  <2>2. QED  BY <2>1
<1>5. CASE Close(a) \/ GiveUp(a) \/ RunFails(a) \/ Kill(a)
  <2>1. points' = points /\ job'[a].pc = "idle"
    BY <1>5, EndDoes
  <2>2. QED  BY <2>1
<1>6. CASE Discover(a) \/ (\E f \in Files : DropGone(a, f) \/ Inspect(a, f)) \/ Read(a)
  <2>1. Claims(a) /\ (points' = points \/ \E f \in Files : points' = WithoutFile(f))
    BY <1>6, DiscoverDoes, DropGoneDoes, InspectDoes, ReadDoes
  <2>2. QED  BY <2>1 DEF WithoutFile
<1>7. CASE Erase(a) \/ Upsert(a) \/ Sweep(a) \/ FileFails(a)
  <2>1. /\ Claims(a)
        /\ \/ points' = points
           \/ \E f : points' = WithoutFile(f)
           \/ \E f, sha : points' = Swept(f, sha)
           \/ \E f, sha, text : points' = Upserted(ChunksOf(f, sha, text, Model[a]))
    BY <1>7, StoreDoes, FileFailsDoes
  <2>2. ASSUME NEW f, NEW sha, NEW text,
               NEW pt \in Upserted(ChunksOf(f, sha, text, Model[a]))
        PROVE  pt \in points \/ pt.model = Model[a]
    BY DEF Upserted, ChunksOf
  <2>3. QED  BY <2>1, <2>2 DEF WithoutFile, Swept
<1>8. QED  BY <1>1, <1>2, <1>3, <1>4, <1>5, <1>6, <1>7 DEF Step, Index, Disturb

LEMMA StillOwnKept ==
    ASSUME Typed, NEW a \in Agents, StillOwn(a), [Next]_vars,
           ~OfAnother(manifest', Model[a])
    PROVE  StillOwn(a)'
<1>1. CASE UNCHANGED vars \/ Outside
  <2>1. UNCHANGED <<points, job>>
    BY <1>1, OutsideDoes DEF vars
  <2>2. \A b \in Agents : Claims(b)' <=> Claims(b)
    BY <2>1 DEF Claims, Bound, Marked, Busy, At
  <2>3. QED  BY <2>1, <2>2 DEF StillOwn, OfModel, OfAnother
<1>2. ASSUME NEW b \in Agents, Step(b)  PROVE StillOwn(a)'
  <2>1. Claims(b)' => Model[b] = Model[a]
    BY <1>2, StepClaims DEF StillOwn, OfAnother, Matches
  <2>2. \A c \in Agents \ {b} : Claims(c)' <=> Claims(c)
    BY <1>2, OthersRest DEF Claims, Bound, Marked, Busy, At
  <2>3. \A pt \in points' : pt.model = Model[a]
    BY <1>2, StepClaims DEF StillOwn, OfModel
  <2>4. QED  BY <2>1, <2>2, <2>3 DEF StillOwn, OfModel, OfAnother
<1>3. QED  BY <1>1, <1>2 DEF Next, Step, Outside

\* A search begins where all is of its model: the manifest it has found is.
LEMMA AskStarts ==
    ASSUME OwnInv, NEW a \in Agents, Matches(manifest, Model[a])
    PROVE  StillOwn(a)
<1>1. manifest # NoManifest /\ manifest.model = Model[a]
  BY DEF Matches
<1>2. OfModel(Model[a])
  BY <1>1 DEF OwnInv, StoreIsOfOneModel, OfModel
<1>3. ASSUME NEW b \in Agents, Claims(b)  PROVE Model[b] = Model[a]
  BY <1>1, <1>3 DEF OwnInv, OwnModel, Claims
<1>4. QED  BY <1>1, <1>2, <1>3 DEF StillOwn, OfAnother

LEMMA AskingKept ==
    ASSUME Typed, OwnInv, AskingInv, [SearchNext]_searchVars
    PROVE  AskingInv'
<1>1. CASE Indexing \/ UNCHANGED searchVars
  <2>1. /\ [Next]_vars /\ asking' \subseteq asking
        /\ \A a \in asking' \ rebound' : a \notin rebound
    BY <1>1 DEF Indexing, searchVars
  <2>2. ASSUME NEW a \in asking' \ rebound'  PROVE ~OfAnother(manifest', Model[a])
    <3>1. CASE Indexing
      BY <2>2, <3>1 DEF Indexing
    <3>2. CASE UNCHANGED searchVars
      BY <2>2, <3>2 DEF AskingInv, StillOwn, OfAnother, searchVars, vars
    <3>3. QED  BY <1>1, <3>1, <3>2
  <2>3. ASSUME NEW a \in asking' \ rebound'  PROVE StillOwn(a)'
    BY <2>1, <2>2, <2>3, StillOwnKept DEF AskingInv
  <2>4. QED  BY <2>1, <2>3 DEF AskingInv
<1>2. ASSUME NEW a \in Agents, Ask(a) \/ Query(a)  PROVE AskingInv'
  <2>1. /\ UNCHANGED vars /\ asking' \subseteq Agents
        /\ \A b \in asking' \ rebound' :
              b \in asking \ rebound \/ (b = a /\ Matches(manifest, Model[a]))
    BY <1>2 DEF Ask, Query, AskingInv
  <2>2. \A b \in asking' \ rebound' : StillOwn(b)
    BY <2>1, AskStarts DEF AskingInv
  <2>3. \A b \in asking' \ rebound' : StillOwn(b)'
    BY <2>1, <2>2
       DEF vars, StillOwn, OfModel, OfAnother, Claims, Bound, Marked, Busy, At
  <2>4. QED  BY <2>1, <2>3 DEF AskingInv
<1>3. QED  BY <1>1, <1>2 DEF SearchNext

\* A search, whose check and query other agents' runs come between, finds
\* points of the searcher's model as long as nobody has bound the manifest to
\* another model since its check: for any agents and models, wherever runs are
\* killed or fail.  Points go before a manifest is bound, and a run of another
\* model stores none before.
THEOREM SearchTheorem ==
    ASSUME OneAtATime
    PROVE  SearchSpec => []SearchFindsOwn
<1>1. SearchInit => Typed /\ OwnInv /\ AskingInv
  BY InitTypes, InitExcluded
     DEF SearchInit, OwnInv, Init, StoreIsOfOneModel, OwnModel, Bound, Marked, Busy, At,
         AskingInv
<1>2. Typed /\ OwnInv /\ AskingInv => SearchFindsOwn
  BY DEF AskingInv, StillOwn, OfModel, SearchFindsOwn, Answer
<1>3. [SearchNext]_searchVars => [Next]_vars
  BY DEF SearchNext, Indexing, Ask, Query, searchVars
<1>4. Typed /\ OwnInv /\ AskingInv /\ [SearchNext]_searchVars
          => Typed' /\ OwnInv' /\ AskingInv'
  BY <1>3, OwnKept, TypesKept, AskingKept
<1>5. QED  BY <1>1, <1>2, <1>4, PTL DEF SearchSpec

-----------------------------------------------------------------------------
(* Counting points and recorded chunks.                                    *)

LEMMA ImageFinite ==
    ASSUME NEW S, IsFiniteSet(S), NEW g, g = [x \in S |-> g[x]]
    PROVE  /\ IsFiniteSet({g[x] : x \in S})
           /\ Cardinality({g[x] : x \in S}) <= Cardinality(S)
<1> DEFINE T == {g[x] : x \in S}
<1>1. g \in Surjection(S, T)
  BY DEF Surjection
<1>2. QED  BY <1>1, FS_Surjection

LEMMA ChunksFinite ==
    ASSUME NEW f, NEW sha, NEW text \in Contents, NEW model
    PROVE  IsFiniteSet(ChunksOf(f, sha, text, model))
<1>1. ChunkCount[text] \in Nat
  BY IndexAssumption
<1> DEFINE S == 1..ChunkCount[text]
           g == [i \in S |-> [file |-> f, index |-> i, hash |-> sha, text |-> text,
                              model |-> model]]
<1>2. IsFiniteSet(S)
  BY <1>1, FS_Interval
<1>3. ChunksOf(f, sha, text, model) = {g[i] : i \in S}
  BY DEF ChunksOf
<1> HIDE DEF S
<1>4. IsFiniteSet({g[i] : i \in S})
  BY <1>2, ImageFinite
<1>5. QED  BY <1>3, <1>4

LEMMA ChunkAt ==
    ASSUME NEW f, NEW sha, NEW text, NEW model, NEW i \in 1..ChunkCount[text]
    PROVE  \E pt \in ChunksOf(f, sha, text, model) : pt.file = f /\ pt.index = i
<1> DEFINE q == [file |-> f, index |-> i, hash |-> sha, text |-> text, model |-> model]
<1>1. q \in ChunksOf(f, sha, text, model)
  BY DEF ChunksOf
<1>2. q.file = f /\ q.index = i
  OBVIOUS
<1>3. QED  BY <1>1, <1>2

LEMMA FilesOf ==
    ASSUME NEW m \in Manifests
    PROVE  /\ m.files \in EntryMaps /\ DOMAIN m.files \in SUBSET Files
           /\ m.model \in Models
           /\ \A f \in DOMAIN m.files : m.files[f].sha \in Contents /\ m.files[f].chunks \in Nat
<1>1. m.files \in EntryMaps /\ m.model \in Models
  BY DEF Manifests
<1>2. DOMAIN m.files \in SUBSET Files /\ m.files \in [DOMAIN m.files -> Entries]
  BY <1>1, EntryMapsAre
<1>3. \A e \in Entries : e.sha \in Contents /\ e.chunks \in Nat
  BY IndexAssumption DEF Entries
<1>4. QED  BY <1>1, <1>2, <1>3

LEMMA RecordedAre ==
    ASSUME NEW m \in Manifests
    PROVE  /\ IsFiniteSet(Recorded(m))
           /\ \A r : r \in Recorded(m) <=>
                  \E f \in DOMAIN m.files : \E i \in 1..m.files[f].chunks : r = <<f, i>>
<1> DEFINE S == DOMAIN m.files
           g == [f \in S |-> {f} \X (1..m.files[f].chunks)]
<1>1. IsFiniteSet(S)
  BY FilesOf, IndexAssumption, FS_Subset
<1>2. Recorded(m) = UNION {g[f] : f \in S}
  BY DEF Recorded
<1>3. \A f \in S : IsFiniteSet(g[f])
  <2> SUFFICES ASSUME NEW f \in S PROVE IsFiniteSet(g[f])
    OBVIOUS
  <2> DEFINE n == m.files[f].chunks
             h == [i \in 1..n |-> <<f, i>>]
  <2>1. n \in Nat
    BY FilesOf
  <2> HIDE DEF n
  <2>2. IsFiniteSet(1..n)
    BY <2>1, FS_Interval
  <2>3. {h[i] : i \in 1..n} = {f} \X (1..n)
    OBVIOUS
  <2>4. IsFiniteSet({h[i] : i \in 1..n})
    BY <2>2, ImageFinite
  <2>5. g[f] = {f} \X (1..n)
    BY DEF n
  <2>6. QED  BY <2>3, <2>4, <2>5
<1>4. \A r : r \in Recorded(m) <=>
          \E f \in DOMAIN m.files : \E i \in 1..m.files[f].chunks : r = <<f, i>>
  BY DEF Recorded
<1>5. g = [f \in S |-> g[f]]
  OBVIOUS
<1> HIDE DEF S, g
<1>6. IsFiniteSet({g[f] : f \in S})
  BY <1>1, <1>5, ImageFinite
<1>7. IsFiniteSet(UNION {g[f] : f \in S})
  BY <1>3, <1>6, FS_UNION
<1>8. QED  BY <1>2, <1>4, <1>7

\* With nothing in the store a count that agrees finds blank files only.
LEMMA NothingCounted ==
    ASSUME NEW m \in Manifests, points = {}, CountAgrees(m)
    PROVE  \A f \in DOMAIN m.files : m.files[f].chunks = 0
<1>1. Recorded(m) = {}
  BY RecordedAre, FS_EmptySet DEF CountAgrees, Total
<1>2. ASSUME NEW f \in DOMAIN m.files, m.files[f].chunks # 0  PROVE FALSE
  <2>1. m.files[f].chunks \in Nat
    BY FilesOf
  <2>2. 1 \in 1..m.files[f].chunks
    BY <1>2, <2>1
  <2>3. <<f, 1>> \in Recorded(m)
    BY <2>2, RecordedAre
  <2>4. QED  BY <1>1, <2>3
<1>3. QED  BY <1>2

\* When every recorded chunk has a point and the count agrees, every point
\* is that of a recorded chunk.
LEMMA NothingBeside ==
    ASSUME NEW m \in Manifests, IsFiniteSet(points), CountAgrees(m),
           \A f \in DOMAIN m.files : \A i \in 1..m.files[f].chunks :
               \E pt \in points : pt.file = f /\ pt.index = i
    PROVE  \A pt \in points : /\ pt.file \in DOMAIN m.files
                              /\ pt.index \in 1..m.files[pt.file].chunks
<1> DEFINE g == [pt \in points |-> <<pt.file, pt.index>>]
           ids == {g[pt] : pt \in points}
<1>1. IsFiniteSet(ids) /\ Cardinality(ids) <= Cardinality(points)
  BY ImageFinite
<1>2. Recorded(m) \in SUBSET ids
  BY RecordedAre
<1> HIDE DEF ids
<1>3. Cardinality(Recorded(m)) <= Cardinality(ids)
  BY <1>1, <1>2, FS_Subset
<1>4. Cardinality(points) = Cardinality(Recorded(m))
  BY DEF CountAgrees, Total
<1>5. /\ Cardinality(points) \in Nat /\ Cardinality(ids) \in Nat
      /\ Cardinality(Recorded(m)) \in Nat
  BY <1>1, RecordedAre, FS_CardinalityType
<1>6. Cardinality(ids) = Cardinality(Recorded(m))
  BY <1>1, <1>3, <1>4, <1>5
<1>7. ids = Recorded(m)
  BY <1>1, <1>2, <1>6, FS_Subset
<1>8. \A pt \in points : <<pt.file, pt.index>> \in Recorded(m)
  BY <1>7 DEF ids
<1>9. ASSUME NEW pt \in points
      PROVE  pt.file \in DOMAIN m.files /\ pt.index \in 1..m.files[pt.file].chunks
  <2> DEFINE r == <<pt.file, pt.index>>
  <2>1. r \in Recorded(m)
    BY <1>8
  <2> HIDE DEF r
  <2>2. PICK f \in DOMAIN m.files : \E i \in 1..m.files[f].chunks : r = <<f, i>>
    BY <2>1, RecordedAre
  <2>3. PICK i \in 1..m.files[f].chunks : <<pt.file, pt.index>> = <<f, i>>
    BY <2>2 DEF r
  <2>4. QED  BY <2>3
<1>10. QED  BY <1>9

-----------------------------------------------------------------------------
(* What the invariant says of a scope a run or a reader comes upon.        *)

LEMMA SoundWhenEmpty ==
    ASSUME NEW m \in Manifests, points = {}, CountAgrees(m), AllCounted(m)
    PROVE  Sound(m) /\ Complete(m)
<1> SUFFICES ASSUME NEW f \in DOMAIN m.files PROVE Stored(f, m.files[f], m.model)
  BY DEF Sound, Complete
<1>1. PICK text \in Contents :
         m.files[f].chunks = ChunkCount[text] /\ Taken(f, m.files[f].sha, text)
  BY DEF AllCounted, Counted
<1>2. ChunkCount[text] = 0
  BY <1>1, NothingCounted
<1>3. ChunksOf(f, m.files[f].sha, text, m.model) = {}
  BY <1>2 DEF ChunksOf
<1>4. QED  BY <1>1, <1>3 DEF Stored, PointsOf

LEMMA EarlierIsSound ==
    ASSUME NEW m, NEW mem, Earlier(m, mem), Sound(mem), m.model = mem.model
    PROVE  Sound(m)
BY DEF Earlier, Sound

LEMMA ManifestIsSound ==
    ASSUME Typed, IInv, Resumable
    PROVE  Sound(manifest)
<1>1. manifest \in Manifests /\ CountAgrees(manifest) /\ AllCounted(manifest)
  BY DEF Typed, TypeOK, Resumable, IInv, ManifestOK
<1>2. ASSUME NEW a \in Agents, Marked(a)  PROVE Sound(manifest)
  <2>1. Earlier(manifest, job[a].mem) /\ Sound(job[a].mem) /\ manifest.model = Model[a]
    BY <1>2 DEF Resumable, IInv, RunOK, Bound
  <2>2. job[a].mem.model = Model[a]
    BY <1>2 DEF Typed, Holding, Bound
  <2>3. QED  BY <2>1, <2>2, EarlierIsSound
<1>3. CASE \A a \in Agents : ~Marked(a)
  <2>1. points = {} \/ Sound(manifest)
    BY <1>3 DEF IInv, ManifestOK, Resumable
  <2>2. QED  BY <1>1, <2>1, SoundWhenEmpty
<1>4. QED  BY <1>2, <1>3

LEMMA SkippedFollows ==
    ASSUME Typed, IInv
    PROVE  SkippedIsStored
<1> SUFFICES ASSUME Resumable, NEW f \in DOMAIN manifest.files, Known(manifest, f, disk[f])
             PROVE  PointsOf(f) = ChunksOf(f, disk[f], disk[f], manifest.model)
  BY DEF SkippedIsStored
<1> DEFINE sha == disk[f]
<1>1. manifest \in Manifests /\ manifest.files[f].sha = sha
  BY DEF Typed, TypeOK, Resumable, Known
<1>2. ~Past(f, sha)
  BY DEF Past
<1>3. Stored(f, manifest.files[f], manifest.model)
  BY <1>1, <1>2, ManifestIsSound DEF Sound
<1>4. PICK text \in Contents :
         /\ Taken(f, sha, text) /\ ChunksOf(f, sha, text, manifest.model) \subseteq points
  BY <1>1, <1>3 DEF Stored
<1>5. text = sha
  BY <1>2, <1>4 DEF Taken
<1>6. ChunksOf(f, sha, sha, manifest.model) \subseteq PointsOf(f)
  BY <1>4, <1>5 DEF ChunksOf, PointsOf
<1>7. ASSUME NEW pt \in PointsOf(f)
      PROVE  pt \in ChunksOf(f, sha, sha, manifest.model)
  <2>1. pt \in points /\ pt \in Points /\ pt.file = f /\ pt.hash = sha
    BY <1>1, <1>3 DEF PointsOf, Stored, Typed, TypeOK
  <2>2. pt.index \in Nat \ {0} /\ pt.index <= ChunkCount[pt.text] /\ Taken(f, sha, pt.text)
    BY <2>1, IndexRange DEF Points, IInv, PointsOK
  <2>3. pt.text = sha
    BY <1>2, <2>2 DEF Taken
  <2>4. ChunkCount[sha] \in Nat
    BY <1>4, <1>5, IndexAssumption
  <2>5. pt.index \in 1..ChunkCount[sha]
    BY <2>2, <2>3, <2>4
  <2>6. PICK q \in ChunksOf(f, sha, sha, manifest.model) : q.file = f /\ q.index = pt.index
    BY <2>5, ChunkAt
  <2>7. q = pt
    BY <1>4, <1>5, <2>1, <2>6 DEF IInv, PointsOK
  <2>8. QED  BY <2>6, <2>7
<1>8. QED  BY <1>6, <1>7

LEMMA ReadyFollows ==
    ASSUME Typed, IInv
    PROVE  ReadyIsExact
<1> SUFFICES ASSUME Ready
             PROVE  /\ \A pt \in points : Known(manifest, pt.file, pt.hash)
                    /\ \A f \in DOMAIN manifest.files :
                          {pt.index : pt \in PointsOf(f)} = 1..manifest.files[f].chunks
  BY DEF ReadyIsExact
<1>1. manifest \in Manifests /\ manifest # NoManifest /\ CountAgrees(manifest)
  BY DEF Typed, TypeOK, Ready, Resumable
<1>2. \A a \in Agents : ~Marked(a)
  BY <1>1 DEF Ready, IInv, RunOK
<1>3. AllCounted(manifest) /\ (points = {} \/ Complete(manifest))
  BY <1>1, <1>2 DEF Ready, IInv, ManifestOK, Settled
<1>4. Complete(manifest)
  BY <1>1, <1>3, SoundWhenEmpty
<1>5. ASSUME NEW f \in DOMAIN manifest.files, NEW i \in 1..manifest.files[f].chunks
      PROVE  \E pt \in points : pt.file = f /\ pt.index = i
  <2>1. PICK text \in Contents :
           /\ manifest.files[f].chunks = ChunkCount[text]
           /\ ChunksOf(f, manifest.files[f].sha, text, manifest.model) \subseteq points
    BY <1>4 DEF Complete, Stored
  <2>2. i \in 1..ChunkCount[text]
    BY <2>1
  <2>3. QED  BY <2>1, <2>2, ChunkAt
<1>6. \A pt \in points : /\ pt.file \in DOMAIN manifest.files
                         /\ pt.index \in 1..manifest.files[pt.file].chunks
  BY <1>1, <1>5, NothingBeside DEF IInv, PointsOK
<1>7. \A pt \in points : Known(manifest, pt.file, pt.hash)
  BY <1>4, <1>6 DEF Complete, Stored, PointsOf, Known
<1>8. ASSUME NEW f \in DOMAIN manifest.files
      PROVE  {pt.index : pt \in PointsOf(f)} = 1..manifest.files[f].chunks
  BY <1>5, <1>6 DEF PointsOf
<1>9. QED  BY <1>7, <1>8

-----------------------------------------------------------------------------
(* What a step leaves of the past, the manifests and the points of a file. *)

LEMMA PastStays ==
    ASSUME UNCHANGED <<disk, used>>
    PROVE  /\ \A f, c : Past(f, c)' <=> Past(f, c)
           /\ \A f, sha, text : Taken(f, sha, text)' <=> Taken(f, sha, text)
           /\ \A m : AllCounted(m)' <=> AllCounted(m)
           /\ \A m, mem : Earlier(m, mem)' <=> Earlier(m, mem)
           /\ HistoryOK' <=> HistoryOK
<1>1. \A f, c : Past(f, c)' <=> Past(f, c)
  BY DEF Past
<1>2. \A f, sha, text : Taken(f, sha, text)' <=> Taken(f, sha, text)
  BY <1>1 DEF Taken
<1>3. \A m : AllCounted(m)' <=> AllCounted(m)
  BY <1>2 DEF AllCounted, Counted
<1>4. \A m, mem : Earlier(m, mem)' <=> Earlier(m, mem)
  BY <1>1 DEF Earlier
<1>5. HistoryOK' <=> HistoryOK
  BY DEF HistoryOK
<1>6. QED  BY <1>1, <1>2, <1>3, <1>4, <1>5

LEMMA PointsStay ==
    ASSUME UNCHANGED <<disk, used, points>>
    PROVE  /\ \A f, entry, model : Stored(f, entry, model)' <=> Stored(f, entry, model)
           /\ \A m : Sound(m)' <=> Sound(m)
           /\ \A m : Complete(m)' <=> Complete(m)
           /\ PointsOK' <=> PointsOK
<1>1. /\ \A f, c : Past(f, c)' <=> Past(f, c)
      /\ \A f, sha, text : Taken(f, sha, text)' <=> Taken(f, sha, text)
  BY PastStays
<1>2. \A f, entry, model : Stored(f, entry, model)' <=> Stored(f, entry, model)
  BY <1>1 DEF Stored, PointsOf
<1>3. \A m : Sound(m)' <=> Sound(m)
  BY <1>1, <1>2 DEF Sound
<1>4. \A m : Complete(m)' <=> Complete(m)
  BY <1>2 DEF Complete
<1>5. PointsOK' <=> PointsOK
  BY <1>1 DEF PointsOK
<1>6. QED  BY <1>2, <1>3, <1>4, <1>5

\* Only points of one file come or go.
Elsewhere(g) == \A pt : pt.file # g => (pt \in points <=> pt \in points')

LEMMA StoredElsewhere ==
    ASSUME UNCHANGED <<disk, used>>, NEW g, Elsewhere(g)
    PROVE  /\ \A f, entry, model : f # g /\ Stored(f, entry, model) => Stored(f, entry, model)'
           /\ \A m : Sound(m) /\ (g \in DOMAIN m.files => Past(g, m.files[g].sha)) => Sound(m)'
<1>1. /\ \A f, c : Past(f, c)' <=> Past(f, c)
      /\ \A f, sha, text : Taken(f, sha, text)' <=> Taken(f, sha, text)
  BY PastStays
<1>2. ASSUME NEW f, NEW entry, NEW model, f # g, Stored(f, entry, model)
      PROVE  Stored(f, entry, model)'
  <2>1. \A sha, text : ChunksOf(f, sha, text, model) \subseteq points
                           => ChunksOf(f, sha, text, model) \subseteq points'
    BY <1>2 DEF Elsewhere, ChunksOf
  <2>2. \A pt \in PointsOf(f)' : pt \in PointsOf(f)
    BY <1>2 DEF Elsewhere, PointsOf
  <2>3. QED  BY <1>1, <1>2, <2>1, <2>2 DEF Stored
<1>3. ASSUME NEW m, Sound(m), g \in DOMAIN m.files => Past(g, m.files[g].sha)
      PROVE  Sound(m)'
  BY <1>1, <1>2, <1>3 DEF Sound
<1>4. QED  BY <1>2, <1>3

\* Chunks of a file that was read, erased, upserted or swept.
LEMMA PointsKept ==
    ASSUME Typed, PointsOK, UNCHANGED <<disk, used>>, NEW g, NEW sha, NEW text \in Contents,
           NEW model, Taken(g, sha, text),
           \/ points' = WithoutFile(g)
           \/ points' = Swept(g, sha)
           \/ points' = Upserted(ChunksOf(g, sha, text, model))
    PROVE  PointsOK' /\ Elsewhere(g)
<1> DEFINE new == ChunksOf(g, sha, text, model)
<1>1. \A f, s, t : Taken(f, s, t)' <=> Taken(f, s, t)
  BY PastStays
<1>2. CASE points' = WithoutFile(g) \/ points' = Swept(g, sha)
  <2>1. points' \in SUBSET points
    BY <1>2 DEF WithoutFile, Swept
  <2>2. IsFiniteSet(points')
    BY <2>1, FS_Subset DEF PointsOK
  <2>3. PointsOK'
    BY <1>1, <2>1, <2>2 DEF PointsOK
  <2>4. Elsewhere(g)
    BY <1>2 DEF Elsewhere, WithoutFile, Swept
  <2>5. QED  BY <2>3, <2>4
<1>3. CASE points' = Upserted(new)
  <2> DEFINE old == {pt \in points : \A n \in new : pt.file # n.file \/ pt.index # n.index}
  <2>1. points' = new \cup old
    BY <1>3 DEF Upserted
  <2>2. IsFiniteSet(new) /\ IsFiniteSet(old)
    BY ChunksFinite, FS_Subset DEF PointsOK
  <2>3. \A n \in new : /\ n.file = g /\ n.hash = sha /\ n.text = text
                       /\ n.index <= ChunkCount[text]
    BY IndexAssumption DEF ChunksOf
  <2>4. \A n, q \in new : n.index = q.index => n = q
    BY DEF ChunksOf
  <2> HIDE DEF new
  <2>5. IsFiniteSet(points')
    BY <2>1, <2>2, FS_Union
  <2>6. \A p, q \in points' : p.file = q.file /\ p.index = q.index => p = q
    BY <2>1, <2>3, <2>4 DEF PointsOK
  <2>7. \A p \in points' : p.index <= ChunkCount[p.text] /\ Taken(p.file, p.hash, p.text)
    BY <2>1, <2>3 DEF PointsOK
  <2>8. PointsOK'
    BY <1>1, <2>5, <2>6, <2>7 DEF PointsOK
  <2>9. Elsewhere(g)
    BY <2>1, <2>3 DEF Elsewhere
  <2>10. QED  BY <2>8, <2>9
<1>4. QED  BY <1>2, <1>3

-----------------------------------------------------------------------------
(* Each step of a run keeps what is known of it and of the manifest.       *)

\* A run past its marking: its own manifest is sound, the one on disk is an
\* earlier one and marked.
Tracked(a) ==
    /\ AllCounted(job[a].mem) /\ Sound(job[a].mem) /\ job[a].mem.indexing
    /\ manifest # NoManifest =>
          /\ manifest.model = Model[a] /\ Earlier(manifest, job[a].mem)
          /\ manifest.indexing /\ AllCounted(manifest)

LEMMA MarkedRun ==
    ASSUME Typed, IInv, NEW a \in Agents, Marked(a)
    PROVE  /\ Tracked(a) /\ job[a].mem \in Manifests /\ job[a].mem.model = Model[a]
           /\ ~At(a, "discover") => LookedAt(a)
           /\ Busy(a) => InHand(a)
BY DEF IInv, ManifestOK, RunOK, Tracked, Bound, Marked, Busy, At, Typed, Holding

LEMMA MarkedNext ==
    ASSUME NEW a \in Agents, job'[a].pc = "files" \/ Busy(a)',
           Tracked(a)', LookedAt(a)', Busy(a)' => InHand(a)'
    PROVE  RunOK(a)' /\ ManifestOK'
<1>1. Marked(a)' /\ job'[a].pc \notin {"count", "bind", "mark", "discover"}
  BY DEF Marked, Busy
<1>2. ManifestOK'
  BY <1>1 DEF ManifestOK, Tracked
<1>3. RunOK(a)'
  BY <1>1 DEF RunOK, Tracked
<1>4. QED  BY <1>2, <1>3

\* Nobody else is inside while a run is.
LEMMA OthersRun ==
    ASSUME Typed, Excluded, NEW a \in Agents, Step(a), Inside(a)
    PROVE  \A b \in Agents \ {a} : RunOK(b)' /\ ~Marked(b) /\ ~Marked(b)'
<1>1. \A b \in Agents \ {a} : ~Inside(b) /\ job'[b] = job[b]
  BY OthersRest DEF Excluded
<1>2. QED  BY <1>1 DEF RunOK, Bound, Marked, Busy, Inside

LEMMA RunStays ==
    ASSUME NEW b \in Agents, RunOK(b), UNCHANGED <<points, manifest, disk, used>>,
           job'[b] = job[b]
    PROVE  RunOK(b)'
<1>1. /\ \A f, c : Past(f, c)' <=> Past(f, c)
      /\ \A f, sha, text : Taken(f, sha, text)' <=> Taken(f, sha, text)
      /\ \A m : AllCounted(m)' <=> AllCounted(m)
      /\ \A m, mem : Earlier(m, mem)' <=> Earlier(m, mem)
      /\ \A m : Sound(m)' <=> Sound(m)
      /\ \A f, entry, model : Stored(f, entry, model)' <=> Stored(f, entry, model)
  BY PastStays, PointsStay
<1>2. /\ Bound(b)' <=> Bound(b)
      /\ Marked(b)' <=> Marked(b)
      /\ Busy(b)' <=> Busy(b)
  BY DEF Bound, Marked, Busy
<1>3. LookedAt(b) => LookedAt(b)'
  BY <1>1, <1>2 DEF LookedAt
<1>4. InHand(b) => InHand(b)'
  BY <1>1 DEF InHand, PointsOf
<1>5. QED  BY <1>1, <1>2, <1>3, <1>4 DEF RunOK

LEMMA BeginKeeps ==
    ASSUME Typed, IInv, NEW a \in Agents,
           AutoKick(a) \/ Elapse(a) \/ (\E full \in BOOLEAN : Reindex(a, full)) \/ Acquire(a)
    PROVE  PointsOK' /\ ManifestOK' /\ \A b \in Agents : RunOK(b)'
<1>1. /\ UNCHANGED <<points, manifest, disk, used>>
      /\ job' = job \/ (~Inside(a) /\ job'[a].pc \in {"idle", "acquire", "load"})
      /\ \A b \in Agents \ {a} : job'[b] = job[b]
  BY BeginDoes, OthersRest DEF Step, Index
<1>2. /\ \A m : Sound(m)' <=> Sound(m)
      /\ \A m : Complete(m)' <=> Complete(m)
      /\ \A m : AllCounted(m)' <=> AllCounted(m)
      /\ PointsOK'
  BY <1>1, PointsStay, PastStays DEF IInv
<1>3. \A b \in Agents : Marked(b)' <=> Marked(b)
  BY <1>1 DEF Marked, Busy, Inside
<1>4. ManifestOK'
  BY <1>1, <1>2, <1>3 DEF IInv, ManifestOK, Settled
<1>5. ASSUME NEW b \in Agents, job'[b] = job[b]  PROVE RunOK(b)'
  BY <1>1, <1>5, RunStays DEF IInv
<1>6. job'[a].pc \in {"idle", "acquire", "load"} => RunOK(a)'
  BY DEF RunOK, Bound, Marked, Busy
<1>7. ASSUME NEW b \in Agents  PROVE RunOK(b)'
  BY <1>1, <1>5, <1>6
<1>8. QED  BY <1>2, <1>4, <1>7

LEMMA LoadKeeps ==
    ASSUME Typed, IInv, NEW a \in Agents, Load(a)
    PROVE  PointsOK' /\ ManifestOK' /\ RunOK(a)'
<1>1. /\ UNCHANGED <<points, manifest, disk, used>> /\ Inside(a)
      /\ job[a].pc = "load" /\ job'[a].pc \in {"count", "reset"}
      /\ job'[a].pc = "count" => job'[a].mem = manifest /\ manifest # NoManifest
  BY LoadDoes DEF Matches, At
<1>2. /\ ~Marked(a) /\ ~Marked(a)' /\ ~Bound(a)' /\ ~Busy(a)'
      /\ \A b \in Agents \ {a} : ~Marked(b) /\ ~Marked(b)'
  BY <1>1, OthersRun DEF Step, Index, IInv, Bound, Marked, Busy
<1>3. /\ \A m : Sound(m)' <=> Sound(m)
      /\ \A m : Complete(m)' <=> Complete(m)
      /\ \A m : AllCounted(m)' <=> AllCounted(m)
      /\ PointsOK'
  BY <1>1, PointsStay, PastStays DEF IInv
<1>4. ManifestOK'
  BY <1>1, <1>2, <1>3 DEF IInv, ManifestOK, Settled
<1>5. RunOK(a)'
  BY <1>1, <1>2, <1>3 DEF IInv, ManifestOK, RunOK
<1>6. QED  BY <1>3, <1>4, <1>5

LEMMA CountKeeps ==
    ASSUME Typed, IInv, NEW a \in Agents, Count(a)
    PROVE  PointsOK' /\ ManifestOK' /\ RunOK(a)'
<1> DEFINE mem == job[a].mem
<1>1. /\ UNCHANGED <<points, manifest, disk, used>> /\ Inside(a)
      /\ job[a].pc = "count" /\ job'[a].pc \in {"mark", "reset"}
      /\ job'[a].pc = "mark" => ~job[a].force /\ CountAgrees(mem)
      /\ job'[a].mem = mem /\ job'[a].force = job[a].force
      /\ \A b \in Agents \ {a} : ~Marked(b) /\ ~Marked(b)'
  BY CountDoes, OthersRun DEF Step, Index, IInv, At
<1>2. ~Marked(a) /\ ~Marked(a)' /\ ~Busy(a)'
  BY <1>1 DEF Marked, Busy
<1>3. /\ \A m : Sound(m)' <=> Sound(m)
      /\ \A m : Complete(m)' <=> Complete(m)
      /\ \A m : AllCounted(m)' <=> AllCounted(m)
      /\ \A m, n : Earlier(m, n)' <=> Earlier(m, n)
      /\ PointsOK'
  BY <1>1, PointsStay, PastStays DEF IInv
<1>4. ManifestOK'
  BY <1>1, <1>2, <1>3 DEF IInv, ManifestOK, Settled
<1>5. CASE job'[a].pc = "reset"
  BY <1>2, <1>3, <1>4, <1>5 DEF RunOK, Bound
<1>6. CASE job'[a].pc = "mark"
  <2>1. mem \in Manifests /\ mem.model = Model[a]
    BY <1>1 DEF Typed, Holding, At
  <2>2. AllCounted(mem) /\ (points = {} \/ Sound(mem)) /\ manifest \in {mem, NoManifest}
    BY <1>1 DEF IInv, RunOK
  <2>3. Sound(mem)
    BY <1>1, <1>6, <2>1, <2>2, SoundWhenEmpty
  <2>4. manifest # NoManifest => manifest.model = Model[a] /\ Earlier(manifest, mem)
    BY <2>1, <2>2 DEF Earlier
  <2>5. RunOK(a)'
    BY <1>1, <1>2, <1>3, <1>6, <2>2, <2>3, <2>4 DEF RunOK
  <2>6. QED  BY <1>3, <1>4, <2>5
<1>7. QED  BY <1>1, <1>5, <1>6

LEMMA ResetKeeps ==
    ASSUME Typed, IInv, NEW a \in Agents, Reset(a)
    PROVE  PointsOK' /\ ManifestOK' /\ RunOK(a)'
<1>1. UNCHANGED <<manifest, disk, used>> /\ points' = {} /\ job'[a].pc = "bind"
  BY ResetDoes
<1>2. PointsOK'
  BY <1>1, FS_EmptySet DEF PointsOK
<1>3. ManifestOK'
  BY <1>1, PastStays DEF IInv, ManifestOK
<1>4. RunOK(a)'
  BY <1>1 DEF RunOK, Bound, Marked, Busy
<1>5. QED  BY <1>2, <1>3, <1>4

LEMMA EmptyFiles == \A model : DOMAIN Empty(model).files = {} /\ Empty(model).model = model
BY DEF Empty

LEMMA BindKeeps ==
    ASSUME Typed, IInv, NEW a \in Agents, Bind(a)
    PROVE  PointsOK' /\ ManifestOK' /\ RunOK(a)'
<1> DEFINE bound == Empty(Model[a])
<1>1. /\ UNCHANGED <<points, disk, used>> /\ manifest' = bound
      /\ job'[a].mem = bound /\ job'[a].pc = "mark"
  BY BindDoes
<1>2. DOMAIN bound.files = {} /\ bound.model = Model[a]
  BY EmptyFiles
<1> HIDE DEF bound
<1>3. PointsOK'
  BY <1>1, PointsStay DEF IInv
<1>4. AllCounted(bound)' /\ Sound(bound)' /\ Complete(bound)' /\ Earlier(bound, bound)'
  BY <1>2 DEF AllCounted, Sound, Complete, Earlier
<1>5. ManifestOK'
  BY <1>1, <1>4 DEF ManifestOK
<1>6. RunOK(a)'
  BY <1>1, <1>2, <1>4 DEF RunOK, Bound, Marked, Busy
<1>7. QED  BY <1>3, <1>5, <1>6

LEMMA MarkKeeps ==
    ASSUME Typed, IInv, NEW a \in Agents, Mark(a)
    PROVE  PointsOK' /\ ManifestOK' /\ RunOK(a)'
<1> DEFINE mem == job[a].mem
<1>0. PICK marked : marked = [mem EXCEPT !.indexing = TRUE]
  OBVIOUS
<1>1. /\ UNCHANGED <<points, disk, used>> /\ job[a].pc = "mark"
      /\ manifest' = marked /\ job'[a].mem = marked /\ job'[a].pc = "discover"
      /\ job'[a].force = job[a].force
  BY <1>0, MarkDoes DEF At
<1>2. mem \in Manifests /\ mem.model = Model[a]
  BY <1>1 DEF Typed, Holding, Bound
<1>3. marked.files = mem.files /\ marked.model = Model[a] /\ marked.indexing
  BY <1>0, <1>2 DEF Manifests
<1>4. AllCounted(mem) /\ Sound(mem) /\ (job[a].force => DOMAIN mem.files = {})
  BY <1>1 DEF IInv, RunOK, Bound
<1> HIDE DEF mem
<1>5. AllCounted(marked) /\ Sound(marked) /\ Earlier(marked, marked)
  BY <1>2, <1>3, <1>4 DEF AllCounted, Sound, Earlier
<1>6. PointsOK' /\ AllCounted(marked)' /\ Sound(marked)' /\ Earlier(marked, marked)'
  BY <1>1, <1>5, PointsStay, PastStays DEF IInv
<1>7. Marked(a)' /\ ~Busy(a)'
  BY <1>1 DEF Marked, Busy
<1>8. ManifestOK'
  BY <1>1, <1>6, <1>7 DEF ManifestOK
<1>9. RunOK(a)'
  BY <1>1, <1>3, <1>4, <1>6, <1>7 DEF RunOK
<1>10. QED  BY <1>6, <1>8, <1>9

\* What is tracked stays so, with the points and the manifests.
LEMMA TrackedStays ==
    ASSUME NEW a \in Agents, Tracked(a), UNCHANGED <<points, manifest, disk, used>>,
           job'[a].mem = job[a].mem
    PROVE  Tracked(a)'
<1>1. /\ \A m : Sound(m)' <=> Sound(m)
      /\ \A m : AllCounted(m)' <=> AllCounted(m)
      /\ \A m, n : Earlier(m, n)' <=> Earlier(m, n)
  BY PointsStay, PastStays
<1>2. QED  BY <1>1 DEF Tracked

\* A file that is not there any more has a past only.
LEMMA GoneIsPast ==
    ASSUME Typed, NEW m \in Manifests, AllCounted(m), NEW f \in DOMAIN m.files, disk[f] = Gone
    PROVE  Past(f, m.files[f].sha)
<1>1. m.files[f].sha \in used[f]
  BY DEF AllCounted, Counted, Taken
<1>2. m.files[f].sha # Gone
  BY FilesOf, IndexAssumption
<1>3. QED  BY <1>1, <1>2 DEF Past

LEMMA DiscoverKeeps ==
    ASSUME Typed, IInv, NEW a \in Agents, Discover(a)
    PROVE  PointsOK' /\ ManifestOK' /\ RunOK(a)'
<1> DEFINE mem == job[a].mem
<1>1. /\ UNCHANGED <<points, manifest, disk, used>> /\ job[a].pc = "discover"
      /\ job'[a].mem = mem /\ job'[a].pc = "files" /\ job'[a].force = job[a].force
      /\ job'[a].todo = {f \in Files : disk[f] # Gone}
      /\ job'[a].gone = DOMAIN mem.files \ job'[a].todo
  BY DiscoverDoes DEF At
<1>2. Marked(a)
  BY <1>1 DEF Marked
<1>3. Tracked(a) /\ mem \in Manifests
  BY <1>2, MarkedRun
<1>4. job[a].force => DOMAIN mem.files = {}
  BY <1>1 DEF IInv, RunOK
<1>5. PointsOK' /\ Tracked(a)'
  BY <1>1, <1>3, PointsStay, TrackedStays DEF IInv
<1>6. ASSUME NEW f \in job'[a].gone  PROVE Past(f, mem.files[f].sha)
  <2>1. f \in DOMAIN mem.files /\ disk[f] = Gone
    BY <1>1, <1>3, FilesOf
  <2>2. QED  BY <1>3, <2>1, GoneIsPast DEF Tracked
<1>7. \A f \in job'[a].gone : Past(f, mem.files[f].sha)'
  BY <1>1, <1>6, PastStays
<1>8. LookedAt(a)'
  BY <1>1, <1>4, <1>7 DEF LookedAt
<1>9. ~Busy(a)'
  BY <1>1 DEF Busy
<1>10. QED  BY <1>1, <1>5, <1>8, <1>9, MarkedNext

LEMMA DropGoneKeeps ==
    ASSUME Typed, IInv, NEW a \in Agents, NEW f \in Files, DropGone(a, f)
    PROVE  PointsOK' /\ ManifestOK' /\ RunOK(a)'
<1> DEFINE mem == job[a].mem
           kept == Restrict(mem.files, DOMAIN mem.files \ {f})
<1>0. PICK rest : rest = [mem EXCEPT !.files = kept]
  OBVIOUS
<1>1. /\ UNCHANGED <<manifest, disk, used>> /\ job[a].pc = "files" /\ job'[a].pc = "files"
      /\ f \in job[a].gone /\ points' = WithoutFile(f)
      /\ job'[a].gone = job[a].gone \ {f} /\ job'[a].mem = rest
      /\ job'[a].force = job[a].force /\ job'[a].todo = job[a].todo
      /\ job'[a].failed = job[a].failed
  BY <1>0, DropGoneDoes DEF At
<1>2. Marked(a) /\ ~Busy(a) /\ ~Busy(a)'
  BY <1>1 DEF Marked, Busy
<1>3. Tracked(a) /\ mem \in Manifests /\ LookedAt(a)
  BY <1>1, <1>2, MarkedRun DEF At
<1>4. /\ DOMAIN kept = DOMAIN mem.files \ {f}
      /\ \A g \in DOMAIN kept : kept[g] = mem.files[g]
  BY DEF Restrict
<1>5. rest.files = kept /\ rest.model = mem.model /\ rest.indexing = mem.indexing
  BY <1>0, <1>3 DEF Manifests
<1> HIDE DEF kept, mem
<1>6. f \in DOMAIN mem.files => Past(f, mem.files[f].sha)
  BY <1>1, <1>3 DEF LookedAt, mem
<1>7. PointsOK' /\ Elsewhere(f)
  <2>1. points' \in SUBSET points
    BY <1>1 DEF WithoutFile
  <2>2. IsFiniteSet(points')
    BY <2>1, FS_Subset DEF IInv, PointsOK
  <2>3. \A g, s, t : Taken(g, s, t)' <=> Taken(g, s, t)
    BY <1>1, PastStays
  <2>4. PointsOK'
    BY <2>1, <2>2, <2>3 DEF IInv, PointsOK
  <2>5. Elsewhere(f)
    BY <1>1 DEF Elsewhere, WithoutFile
  <2>6. QED  BY <2>4, <2>5
<1>8. /\ \A g, c : Past(g, c)' <=> Past(g, c)
      /\ \A m : AllCounted(m)' <=> AllCounted(m)
      /\ \A m, n : Earlier(m, n)' <=> Earlier(m, n)
      /\ \A g, entry, model : g # f /\ Stored(g, entry, model) => Stored(g, entry, model)'
  BY <1>1, <1>7, PastStays, StoredElsewhere
<1>9. Tracked(a)'
  <2>1. AllCounted(mem) /\ Sound(mem) /\ mem.indexing
    BY <1>3 DEF Tracked, mem
  <2>2. AllCounted(rest)'
    BY <1>4, <1>5, <1>8, <2>1 DEF AllCounted
  <2>3. Sound(rest)'
    BY <1>4, <1>5, <1>8, <2>1 DEF Sound
  <2>4. ASSUME Earlier(manifest, mem)  PROVE Earlier(manifest, rest)
    BY <1>4, <1>5, <1>6, <2>4 DEF Earlier
  <2>5. manifest # NoManifest => manifest.model = Model[a] /\ manifest.indexing
            /\ Earlier(manifest, mem) /\ AllCounted(manifest)
    BY <1>3 DEF Tracked, mem
  <2>6. QED  BY <1>1, <1>5, <1>8, <2>1, <2>2, <2>3, <2>4, <2>5 DEF Tracked
<1>10. LookedAt(a)'
  BY <1>1, <1>2, <1>3, <1>4, <1>5, <1>8 DEF LookedAt, mem
<1>11. QED  BY <1>1, <1>2, <1>7, <1>9, <1>10, MarkedNext

LEMMA InspectKeeps ==
    ASSUME Typed, IInv, NEW a \in Agents, NEW f \in Files, Inspect(a, f)
    PROVE  PointsOK' /\ ManifestOK' /\ RunOK(a)'
<1> DEFINE mem == job[a].mem
<1>1. /\ job[a].pc = "files" /\ job[a].gone = {} /\ f \in job[a].todo
      /\ UNCHANGED <<points, manifest, disk, used>>
      /\ job'[a].gone = {} /\ job'[a].todo = job[a].todo \ {f}
      /\ job'[a].mem = mem /\ job'[a].force = job[a].force
      /\ \/ job'[a].pc = "files" /\ job'[a].failed
         \/ /\ job'[a].pc = "files" /\ job'[a].failed = job[a].failed
            /\ disk[f] # Gone /\ ~job[a].force /\ Known(mem, f, disk[f])
         \/ /\ job'[a].pc = "read" /\ job'[a].failed = job[a].failed
            /\ disk[f] # Gone /\ (job[a].force \/ ~Known(mem, f, disk[f]))
            /\ job'[a].file = f /\ job'[a].sha = disk[f]
  BY InspectDoes DEF At
<1>2. Marked(a) /\ ~Busy(a)
  BY <1>1 DEF Marked, Busy
<1>3. Tracked(a) /\ mem \in Manifests /\ LookedAt(a)
  BY <1>1, <1>2, MarkedRun DEF At
<1>4. PointsOK' /\ Tracked(a)'
  BY <1>1, <1>3, PointsStay, TrackedStays DEF IInv
<1>5. /\ \A g, c : Past(g, c)' <=> Past(g, c)
      /\ \A g, entry, model : Stored(g, entry, model)' <=> Stored(g, entry, model)
  BY <1>1, PastStays, PointsStay
<1>6. /\ job[a].force => DOMAIN mem.files \cap job[a].todo = {}
      /\ ~job[a].failed => \A g \in DOMAIN mem.files \ job[a].todo :
                               Stored(g, mem.files[g], mem.model)
  BY <1>1, <1>2, <1>3 DEF LookedAt
<1>7. CASE job'[a].pc = "files" /\ job'[a].failed
  <2>1. LookedAt(a)'
    BY <1>1, <1>6, <1>7 DEF LookedAt
  <2>2. ~Busy(a)'
    BY <1>7 DEF Busy
  <2>3. QED  BY <1>4, <1>7, <2>1, <2>2, MarkedNext
<1>8. CASE /\ job'[a].pc = "files" /\ job'[a].failed = job[a].failed
           /\ Known(mem, f, disk[f])
  <2>1. f \in DOMAIN mem.files /\ Stored(f, mem.files[f], mem.model)
    BY <1>3, <1>8 DEF Known, Past, Tracked, Sound
  <2>2. LookedAt(a)'
    BY <1>1, <1>5, <1>6, <1>8, <2>1 DEF LookedAt
  <2>3. ~Busy(a)'
    BY <1>8 DEF Busy
  <2>4. QED  BY <1>4, <1>8, <2>2, <2>3, MarkedNext
<1>9. CASE /\ job'[a].pc = "read" /\ job'[a].failed = job[a].failed
           /\ disk[f] # Gone /\ (job[a].force \/ ~Known(mem, f, disk[f]))
           /\ job'[a].file = f /\ job'[a].sha = disk[f]
  <2>1. disk[f] \in used[f]
    BY <1>9 DEF IInv, HistoryOK
  <2>2. f \in DOMAIN mem.files => Past(f, mem.files[f].sha)
    <3>1. ASSUME f \in DOMAIN mem.files  PROVE mem.files[f].sha # disk[f]
      BY <1>1, <1>6, <1>9, <3>1 DEF Known
    <3>2. f \in DOMAIN mem.files => mem.files[f].sha \in used[f]
      BY <1>3 DEF Tracked, AllCounted, Counted, Taken
    <3>3. QED  BY <3>1, <3>2 DEF Past
  <2>3. Busy(a)'
    BY <1>9 DEF Busy
  <2>4. InHand(a)'
    BY <1>1, <1>5, <1>9, <2>1, <2>2 DEF InHand
  <2>5. LookedAt(a)'
    BY <1>1, <1>5, <1>6, <1>9, <2>3 DEF LookedAt
  <2>6. QED  BY <1>4, <2>3, <2>4, <2>5, MarkedNext
<1>10. QED  BY <1>1, <1>7, <1>8, <1>9

\* A file in hand: what was looked at stays, whatever becomes of its points.
LEMMA HandLooks ==
    ASSUME NEW a \in Agents, Busy(a), LookedAt(a), SameWork(a), UNCHANGED <<disk, used>>,
           job'[a].mem = job[a].mem, Elsewhere(job[a].file),
           \/ job'[a].failed
           \/ Busy(a)' /\ job'[a].failed = job[a].failed
    PROVE  LookedAt(a)'
<1>1. /\ \A g, c : Past(g, c)' <=> Past(g, c)
      /\ \A g, entry, model : g # job[a].file /\ Stored(g, entry, model)
                                  => Stored(g, entry, model)'
  BY PastStays, StoredElsewhere
<1>2. QED  BY <1>1 DEF LookedAt, SameWork

LEMMA ReadKeeps ==
    ASSUME Typed, IInv, NEW a \in Agents, Read(a)
    PROVE  PointsOK' /\ ManifestOK' /\ RunOK(a)'
<1>1. /\ job[a].pc = "read" /\ UNCHANGED <<points, manifest, disk, used>>
      /\ SameWork(a) /\ job'[a].mem = job[a].mem
      /\ \/ job'[a].pc = "files" /\ job'[a].failed
         \/ /\ job'[a].pc \in {"erase", "upsert"} /\ job'[a].failed = job[a].failed
            /\ job'[a].text = disk[job[a].file]
  BY ReadDoes DEF At
<1>2. Marked(a) /\ Busy(a)
  BY <1>1 DEF Marked, Busy
<1>3. Tracked(a) /\ LookedAt(a) /\ InHand(a)
  BY <1>1, <1>2, MarkedRun DEF At
<1>4. PointsOK' /\ Tracked(a)'
  BY <1>1, <1>3, PointsStay, TrackedStays DEF IInv
<1>5. Elsewhere(job[a].file)
  BY <1>1 DEF Elsewhere
<1>6. CASE job'[a].pc = "files" /\ job'[a].failed
  <2>1. LookedAt(a)' /\ ~Busy(a)'
    BY <1>1, <1>2, <1>3, <1>5, <1>6, HandLooks DEF Busy
  <2>2. QED  BY <1>4, <1>6, <2>1, MarkedNext
<1>7. CASE /\ job'[a].pc \in {"erase", "upsert"} /\ job'[a].failed = job[a].failed
           /\ job'[a].text = disk[job[a].file]
  <2>1. Busy(a)'
    BY <1>7 DEF Busy
  <2>2. LookedAt(a)'
    BY <1>1, <1>2, <1>3, <1>5, <1>7, <2>1, HandLooks
  <2>3. /\ \A g, c : Past(g, c)' <=> Past(g, c)
        /\ \A g, sha, text : Taken(g, sha, text)' <=> Taken(g, sha, text)
    BY <1>1, PastStays
  <2>4. Taken(job[a].file, job[a].sha, disk[job[a].file])
    BY <1>3 DEF InHand, Taken, Past
  <2>5. InHand(a)'
    BY <1>1, <1>3, <1>7, <2>3, <2>4 DEF InHand, SameWork
  <2>6. QED  BY <1>4, <2>1, <2>2, <2>5, MarkedNext
<1>8. QED  BY <1>1, <1>6, <1>7

\* The points of the file in hand change: nothing tracked relies on them.
LEMMA HandTracked ==
    ASSUME NEW a \in Agents, Tracked(a), InHand(a), UNCHANGED <<manifest, disk, used>>,
           job'[a].mem = job[a].mem, Elsewhere(job[a].file)
    PROVE  Tracked(a)'
<1>1. /\ \A m : AllCounted(m)' <=> AllCounted(m)
      /\ \A m, n : Earlier(m, n)' <=> Earlier(m, n)
  BY PastStays
<1>2. Sound(job[a].mem)'
  <2>1. PICK mem : mem = job[a].mem
    OBVIOUS
  <2>2. Sound(mem) /\ (job[a].file \in DOMAIN mem.files
                           => Past(job[a].file, mem.files[job[a].file].sha))
    BY <2>1 DEF Tracked, InHand
  <2>3. Sound(mem)'
    BY <2>2, StoredElsewhere
  <2>4. QED  BY <2>1, <2>3
<1>3. QED  BY <1>1, <1>2 DEF Tracked

LEMMA StoreKeeps ==
    ASSUME Typed, IInv, NEW a \in Agents, Erase(a) \/ Upsert(a) \/ Sweep(a) \/ FileFails(a)
    PROVE  PointsOK' /\ ManifestOK' /\ RunOK(a)'
<1> DEFINE g == job[a].file
           chunks == ChunksOf(g, job[a].sha, job[a].text, Model[a])
<1>1. /\ Busy(a) /\ UNCHANGED <<manifest, disk, used>> /\ SameWork(a)
      /\ job'[a].mem = job[a].mem
      /\ \/ /\ job[a].pc = "erase" /\ job'[a].pc = "record" /\ points' = WithoutFile(g)
            /\ job'[a].failed = job[a].failed /\ job'[a].text = job[a].text
         \/ /\ job[a].pc = "upsert" /\ job'[a].pc = "sweep" /\ points' = Upserted(chunks)
            /\ job'[a].failed = job[a].failed /\ job'[a].text = job[a].text
         \/ /\ job[a].pc = "sweep" /\ job'[a].pc = "record"
            /\ points' = Swept(g, job[a].sha)
            /\ job'[a].failed = job[a].failed /\ job'[a].text = job[a].text
         \/ /\ job'[a].pc = "files" /\ job'[a].failed
            /\ points' = points \/ (job[a].pc = "upsert" /\ points' = Upserted(chunks))
  BY StoreDoes, FileFailsDoes DEF At
<1>2. Marked(a)
  BY <1>1 DEF Marked
<1>3. Tracked(a) /\ LookedAt(a) /\ InHand(a)
  BY <1>1, <1>2, MarkedRun DEF Busy, At
<1>4. PointsOK' /\ Elsewhere(g)
  <2>1. CASE points' = points
    BY <1>1, <2>1, PointsStay DEF IInv, Elsewhere
  <2>2. CASE points' # points
    <3>1. job[a].pc # "read" /\ job[a].text \in Contents
      BY <1>1, <2>2 DEF Typed, Holding, At
    <3>2. Taken(g, job[a].sha, job[a].text)
      BY <1>3, <3>1 DEF InHand
    <3>3. \/ points' = WithoutFile(g) \/ points' = Swept(g, job[a].sha)
          \/ points' = Upserted(chunks)
      BY <1>1, <2>2
    <3>4. QED  BY <1>1, <3>1, <3>2, <3>3, PointsKept DEF IInv
  <2>3. QED  BY <2>1, <2>2
<1>5. Tracked(a)'
  BY <1>1, <1>3, <1>4, HandTracked
<1>6. CASE job'[a].pc = "files" /\ job'[a].failed
  <2>1. LookedAt(a)' /\ ~Busy(a)'
    BY <1>1, <1>3, <1>4, <1>6, HandLooks DEF Busy
  <2>2. QED  BY <1>4, <1>5, <1>6, <2>1, MarkedNext
<1>7. CASE job'[a].pc \in {"sweep", "record"}
  <2>1. Busy(a)' /\ job'[a].failed = job[a].failed /\ job'[a].text = job[a].text
    BY <1>1, <1>7 DEF Busy
  <2>2. LookedAt(a)'
    BY <1>1, <1>3, <1>4, <2>1, HandLooks
  <2>3. /\ \A f, c : Past(f, c)' <=> Past(f, c)
        /\ \A f, sha, text : Taken(f, sha, text)' <=> Taken(f, sha, text)
    BY <1>1, PastStays
  <2>4. chunks \subseteq points'
    <3>1. CASE job[a].pc = "erase"
      <4>1. ChunkCount[job[a].text] = 0
        BY <3>1 DEF Typed, Holding, At
      <4>2. QED  BY <4>1 DEF ChunksOf
    <3>2. CASE job[a].pc = "upsert"
      BY <1>1, <1>7, <3>2 DEF Upserted
    <3>3. CASE job[a].pc = "sweep"
      <4>1. chunks \subseteq points
        BY <1>3, <3>3 DEF InHand
      <4>2. points' = Swept(g, job[a].sha)
        BY <1>1, <1>7, <3>3
      <4>3. QED  BY <4>1, <4>2 DEF Swept, ChunksOf
    <3>4. QED  BY <1>1, <1>7, <3>1, <3>2, <3>3
  <2>5. job'[a].pc = "record" => \A pt \in points' : pt.file = g => pt.hash = job[a].sha
    BY <1>1 DEF WithoutFile, Swept
  <2>6. InHand(a)'
    BY <1>1, <1>3, <1>7, <2>1, <2>3, <2>4, <2>5 DEF InHand, SameWork, PointsOf
  <2>7. QED  BY <1>4, <1>5, <2>1, <2>2, <2>6, MarkedNext
<1>8. QED  BY <1>1, <1>6, <1>7

LEMMA EnteredIs ==
    ASSUME Typed, NEW a \in Agents, Busy(a), NEW entered, entered = Entered(a)
    PROVE  /\ DOMAIN entered.files = DOMAIN job[a].mem.files \cup {job[a].file}
           /\ entered.files[job[a].file].sha = job[a].sha
           /\ entered.files[job[a].file].chunks = ChunkCount[job[a].text]
           /\ \A f \in DOMAIN job[a].mem.files \ {job[a].file} :
                 entered.files[f] = job[a].mem.files[f]
           /\ entered.model = job[a].mem.model /\ entered.indexing = job[a].mem.indexing
<1> DEFINE g == job[a].file
           mem == job[a].mem
           entry == [sha |-> job[a].sha, chunks |-> ChunkCount[job[a].text]]
           files == [f \in DOMAIN mem.files \cup {g} |-> IF f = g THEN entry ELSE mem.files[f]]
<1>1. mem \in Manifests
  BY DEF Typed, Holding, Bound, Marked
<1>2. entered = [mem EXCEPT !.files = files]
  BY <1>1 DEF Entered, Manifests
<1>3. /\ DOMAIN files = DOMAIN mem.files \cup {g} /\ files[g] = entry
      /\ \A f \in DOMAIN mem.files \ {g} : files[f] = mem.files[f]
  OBVIOUS
<1> HIDE DEF files, entry, mem
<1>4. /\ entered.files = files /\ entered.model = mem.model
      /\ entered.indexing = mem.indexing
  BY <1>1, <1>2 DEF Manifests
<1>5. entry.sha = job[a].sha /\ entry.chunks = ChunkCount[job[a].text]
  BY DEF entry
<1>6. QED  BY <1>3, <1>4, <1>5 DEF mem

LEMMA RecordKeeps ==
    ASSUME Typed, IInv, NEW a \in Agents, Record(a) \/ FlushFails(a)
    PROVE  PointsOK' /\ ManifestOK' /\ RunOK(a)'
<1> DEFINE g == job[a].file
           mem == job[a].mem
<1>0. PICK entered : entered = Entered(a)
  OBVIOUS
<1>1. /\ job[a].pc = "record" /\ UNCHANGED <<points, disk, used>> /\ SameWork(a)
      /\ job'[a].mem = entered /\ job'[a].pc = "files"
      /\ job'[a].failed = job[a].failed \/ job'[a].failed
      /\ manifest' \in {manifest, entered}
  BY <1>0, RecordDoes DEF At
<1>2. Marked(a) /\ Busy(a) /\ ~Busy(a)'
  BY <1>1 DEF Marked, Busy
<1>3. /\ Tracked(a) /\ LookedAt(a) /\ InHand(a)
      /\ mem \in Manifests /\ mem.model = Model[a]
  BY <1>1, <1>2, MarkedRun DEF At
<1>4. /\ DOMAIN entered.files = DOMAIN mem.files \cup {g}
      /\ entered.files[g].sha = job[a].sha
      /\ entered.files[g].chunks = ChunkCount[job[a].text]
      /\ \A f \in DOMAIN mem.files \ {g} : entered.files[f] = mem.files[f]
      /\ entered.model = mem.model /\ entered.indexing = mem.indexing
  BY <1>0, <1>2, EnteredIs
<1>5. job[a].text \in Contents /\ Taken(g, job[a].sha, job[a].text)
  BY <1>1, <1>2, <1>3 DEF Typed, Holding, InHand, At
<1>6. Stored(g, entered.files[g], entered.model)
  BY <1>1, <1>3, <1>4, <1>5 DEF Stored, InHand
<1>7. AllCounted(mem) /\ Sound(mem) /\ mem.indexing
  BY <1>3 DEF Tracked
<1>8. AllCounted(entered)
  BY <1>4, <1>5, <1>7 DEF AllCounted, Counted
<1>9. Sound(entered)
  BY <1>4, <1>6, <1>7 DEF Sound
<1>10. ASSUME Earlier(manifest, mem)  PROVE Earlier(manifest, entered)
  BY <1>3, <1>4, <1>10 DEF Earlier, InHand
<1>11. Earlier(entered, entered)
  BY DEF Earlier
<1>12. PointsOK'
  BY <1>1, PointsStay DEF IInv
<1>13. Tracked(a)'
  <2>1. /\ \A m : Sound(m)' <=> Sound(m)
        /\ \A m : AllCounted(m)' <=> AllCounted(m)
        /\ \A m, n : Earlier(m, n)' <=> Earlier(m, n)
    BY <1>1, PastStays, PointsStay
  <2>2. manifest # NoManifest => /\ manifest.model = Model[a] /\ Earlier(manifest, mem)
                                 /\ manifest.indexing /\ AllCounted(manifest)
    BY <1>3 DEF Tracked
  <2>3. AllCounted(entered)' /\ Sound(entered)' /\ Earlier(entered, entered)'
    BY <1>8, <1>9, <1>11, <2>1
  <2>4. CASE manifest' = manifest
    <3>1. manifest # NoManifest => AllCounted(manifest)' /\ Earlier(manifest, entered)'
      BY <1>10, <2>1, <2>2, <2>4
    <3>2. QED  BY <1>1, <1>4, <1>7, <2>2, <2>3, <2>4, <3>1 DEF Tracked
  <2>5. CASE manifest' = entered
    BY <1>1, <1>3, <1>4, <1>7, <2>3, <2>5 DEF Tracked
  <2>6. QED  BY <1>1, <2>4, <2>5
<1>14. LookedAt(a)'
  <2>1. /\ \A f, c : Past(f, c)' <=> Past(f, c)
        /\ \A f, entry, model : Stored(f, entry, model)' <=> Stored(f, entry, model)
    BY <1>1, PastStays, PointsStay
  <2>2. /\ job[a].gone = {} /\ g \notin job[a].todo
        /\ job[a].force => DOMAIN mem.files \cap job[a].todo = {}
        /\ ~job[a].failed => \A f \in DOMAIN mem.files \ job[a].todo :
                                 f = g \/ Stored(f, mem.files[f], mem.model)
    BY <1>3 DEF InHand, LookedAt
  <2>3. ~job[a].failed => \A f \in DOMAIN entered.files \ job[a].todo :
                              Stored(f, entered.files[f], entered.model)
    BY <1>4, <1>6, <2>2
  <2>4. job[a].force => DOMAIN entered.files \cap job[a].todo = {}
    BY <1>4, <2>2
  <2>5. /\ job'[a].gone = {} /\ job'[a].todo = job[a].todo
        /\ job'[a].force = job[a].force /\ job'[a].mem = entered
    BY <1>1, <2>2 DEF SameWork
  <2>6. ~job'[a].failed => \A f \in DOMAIN entered.files \ job[a].todo :
                               Stored(f, entered.files[f], entered.model)'
    BY <1>1, <2>1, <2>3
  <2>7. QED  BY <2>4, <2>5, <2>6 DEF LookedAt
<1>15. QED  BY <1>1, <1>2, <1>12, <1>13, <1>14, MarkedNext

LEMMA EndKeeps ==
    ASSUME Typed, IInv, NEW a \in Agents,
           Close(a) \/ GiveUp(a) \/ RunFails(a) \/ Kill(a)
    PROVE  PointsOK' /\ ManifestOK' /\ \A b \in Agents : RunOK(b)'
<1>1. /\ UNCHANGED <<points, disk, used>> /\ job'[a].pc = "idle"
      /\ \A b \in Agents \ {a} : job'[b] = job[b]
  BY EndDoes, OthersRest DEF Step, Index, Disturb
<1>2. /\ PointsOK'
      /\ \A m : Sound(m)' <=> Sound(m)
      /\ \A m : Complete(m)' <=> Complete(m)
      /\ \A m : AllCounted(m)' <=> AllCounted(m)
  BY <1>1, PointsStay, PastStays DEF IInv
<1>3. RunOK(a)' /\ ~Marked(a)'
  BY <1>1 DEF RunOK, Bound, Marked, Busy
<1>4. \A b \in Agents \ {a} : Marked(b)' <=> Marked(b)
  BY <1>1 DEF Marked, Busy
<1>5. CASE Close(a)
  <2> DEFINE mem == job[a].mem
  <2>0. PICK closed : closed = [mem EXCEPT !.last = TRUE, !.indexing = FALSE]
    OBVIOUS
  <2>1. /\ job[a].pc = "files" /\ job[a].gone = {} /\ job[a].todo = {} /\ ~job[a].failed
        /\ manifest' = closed
    BY <1>5, <2>0, EndDoes DEF At
  <2>2. Marked(a) /\ ~Busy(a) /\ Inside(a)
    BY <2>1 DEF Marked, Busy, Inside
  <2>3. Tracked(a) /\ mem \in Manifests /\ LookedAt(a)
    BY <2>1, <2>2, MarkedRun DEF At
  <2>4. closed.files = mem.files /\ closed.model = mem.model
    BY <2>0, <2>3 DEF Manifests
  <2>5. Complete(closed)
    BY <2>1, <2>2, <2>3, <2>4 DEF Complete, LookedAt
  <2>6. AllCounted(closed)
    BY <2>3, <2>4 DEF AllCounted, Tracked
  <2>7. Sound(closed)
    BY <2>5 DEF Sound, Complete
  <2>8. ManifestOK'
    BY <1>2, <2>1, <2>5, <2>6, <2>7 DEF ManifestOK
  <2>9. \A b \in Agents \ {a} : RunOK(b)'
    BY <1>5, <2>2, OthersRun DEF Step, Index, IInv
  <2>10. QED  BY <1>2, <1>3, <2>8, <2>9
<1>6. CASE ~Close(a)
  <2>1. manifest' = manifest
    BY <1>6, EndDoes
  <2>2. \A b \in Agents \ {a} : RunOK(b)'
    BY <1>1, <2>1, RunStays DEF IInv
  <2>3. CASE Marked(a)
    <3>1. /\ Tracked(a) /\ job[a].mem.model = Model[a]
      BY <2>3, MarkedRun
    <3>2. manifest # NoManifest => AllCounted(manifest) /\ Sound(manifest) /\ ~Settled(manifest)
      BY <3>1, EarlierIsSound DEF Tracked, Settled
    <3>3. ManifestOK'
      BY <1>2, <2>1, <3>2 DEF ManifestOK, Settled
    <3>4. QED  BY <1>2, <1>3, <2>2, <3>3
  <2>4. CASE ~Marked(a)
    <3>1. \A b \in Agents : Marked(b)' <=> Marked(b)
      BY <1>3, <1>4, <2>4
    <3>2. ManifestOK'
      BY <1>1, <1>2, <2>1, <3>1 DEF IInv, ManifestOK, Settled
    <3>3. QED  BY <1>2, <1>3, <2>2, <3>2
  <2>5. QED  BY <2>3, <2>4
<1>7. QED  BY <1>5, <1>6

\* Without returning contents, what is past stays past: an edit takes nothing
\* away from what is known of manifests and runs.
LEMMA EditKeeps ==
    ASSUME Typed, IInv, ~Returning, NEW f \in Files, NEW c \in Contents \cup {Gone}, Edit(f, c)
    PROVE  HistoryOK' /\ PointsOK' /\ ManifestOK' /\ \A b \in Agents : RunOK(b)'
<1>1. /\ UNCHANGED <<points, manifest, job>> /\ c \notin used[f]
      /\ disk' = [disk EXCEPT ![f] = c]
      /\ used' = [used EXCEPT ![f] = @ \cup ({c} \ {Gone})]
      /\ disk \in [Files -> Contents \cup {Gone}] /\ used \in [Files -> SUBSET Contents]
  BY DEF Edit, Typed, TypeOK
<1>2. HistoryOK'
  BY <1>1 DEF IInv, HistoryOK
<1>3. \A g \in Files : \A sha : Past(g, sha) => Past(g, sha)'
  BY <1>1 DEF Past
<1>4. \A g \in Files : \A sha, text : Taken(g, sha, text) => Taken(g, sha, text)'
  BY <1>1, <1>3 DEF Taken
<1>5. \A g \in Files : \A entry, model : Stored(g, entry, model) => Stored(g, entry, model)'
  BY <1>1, <1>4 DEF Stored, PointsOf
<1>6. PointsOK'
  <2>1. \A p \in points : p.file \in Files
    BY DEF Typed, TypeOK, Points
  <2>2. QED  BY <1>1, <1>4, <2>1 DEF IInv, PointsOK
<1>7. ASSUME NEW m \in Manifests
      PROVE  /\ AllCounted(m) => AllCounted(m)'
             /\ Sound(m) => Sound(m)' /\ (Complete(m) => Complete(m)')
             /\ \A mem : Earlier(m, mem) => Earlier(m, mem)'
  <2>1. \A g \in DOMAIN m.files : g \in Files
    BY FilesOf
  <2>2. AllCounted(m) => AllCounted(m)'
    BY <1>4, <2>1 DEF AllCounted, Counted
  <2>3. (Sound(m) => Sound(m)') /\ (Complete(m) => Complete(m)')
    BY <1>3, <1>5, <2>1 DEF Sound, Complete
  <2>4. \A mem : Earlier(m, mem) => Earlier(m, mem)'
    BY <1>3, <2>1 DEF Earlier
  <2>5. QED  BY <2>2, <2>3, <2>4
<1>8. \A b \in Agents : /\ Bound(b)' <=> Bound(b)
                        /\ Marked(b)' <=> Marked(b)
                        /\ Busy(b)' <=> Busy(b)
  BY <1>1 DEF Bound, Marked, Busy
<1>9. ManifestOK'
  BY <1>1, <1>7, <1>8 DEF IInv, ManifestOK, Settled, Typed, TypeOK
<1>10. ASSUME NEW b \in Agents  PROVE RunOK(b)'
  <2>1. /\ job[b] \in Jobs /\ manifest \in Manifests \cup {NoManifest}
        /\ Bound(b) \/ job[b].pc = "count" => job[b].mem \in Manifests
        /\ Busy(b) => job[b].file \in Files /\ Bound(b)
    BY DEF Typed, TypeOK, Holding, At, Bound, Marked
  <2>2. job[b].mem \in Manifests => DOMAIN job[b].mem.files \in SUBSET Files
    BY FilesOf
  <2>3. job[b].gone \in SUBSET Files
    BY <2>1 DEF Jobs
  <2>4. Bound(b) /\ LookedAt(b) => LookedAt(b)'
    BY <1>1, <1>3, <1>5, <1>8, <2>1, <2>2, <2>3 DEF LookedAt
  <2>5. Busy(b) /\ InHand(b) => InHand(b)'
    BY <1>1, <1>3, <1>4, <2>1 DEF InHand, PointsOf
  <2>6. RunOK(b)
    BY DEF IInv
  <2>7. job[b].pc = "count" => AllCounted(job[b].mem)' /\ (points' = {} \/ Sound(job[b].mem)')
    BY <1>1, <1>7, <2>1, <2>6 DEF RunOK
  <2>8. Bound(b) =>
          /\ AllCounted(job[b].mem)' /\ Sound(job[b].mem)'
          /\ manifest # NoManifest => manifest.model = Model[b] /\ Earlier(manifest, job[b].mem)'
    BY <1>1, <1>7, <2>1, <2>6 DEF RunOK
  <2>9. job[b].pc = "files" \/ Busy(b) => Bound(b)
    BY DEF Bound, Marked
  <2>10. QED  BY <1>1, <1>8, <2>4, <2>5, <2>6, <2>7, <2>8, <2>9 DEF RunOK
<1>11. QED  BY <1>2, <1>6, <1>9, <1>10

LEMMA RemoveKeeps ==
    ASSUME Typed, IInv, RemoveManifest
    PROVE  HistoryOK' /\ PointsOK' /\ ManifestOK' /\ \A b \in Agents : RunOK(b)'
<1>1. UNCHANGED <<points, job, disk, used>> /\ manifest' = NoManifest
  BY DEF RemoveManifest
<1>2. /\ HistoryOK' /\ PointsOK' /\ ManifestOK'
      /\ \A m : AllCounted(m)' <=> AllCounted(m)
      /\ \A m : Sound(m)' <=> Sound(m)
      /\ \A f, c : Past(f, c)' <=> Past(f, c)
      /\ \A f, sha, text : Taken(f, sha, text)' <=> Taken(f, sha, text)
      /\ \A f, entry, model : Stored(f, entry, model)' <=> Stored(f, entry, model)
  BY <1>1, PastStays, PointsStay DEF IInv, ManifestOK
<1>3. ASSUME NEW b \in Agents  PROVE RunOK(b)'
  <2>1. /\ Bound(b)' <=> Bound(b)
        /\ Marked(b)' <=> Marked(b)
        /\ Busy(b)' <=> Busy(b)
    BY <1>1 DEF Bound, Marked, Busy
  <2>2. LookedAt(b) => LookedAt(b)'
    BY <1>1, <1>2, <2>1 DEF LookedAt
  <2>3. InHand(b) => InHand(b)'
    BY <1>1, <1>2 DEF InHand, PointsOf
  <2>4. QED  BY <1>1, <1>2, <2>1, <2>2, <2>3 DEF IInv, RunOK
<1>4. QED  BY <1>2, <1>3

-----------------------------------------------------------------------------
(* The invariant, and what it gives.                                       *)

LEMMA StepKeeps ==
    ASSUME Typed, IInv, NEW a \in Agents, Step(a)
    PROVE  HistoryOK' /\ PointsOK' /\ ManifestOK' /\ \A b \in Agents : RunOK(b)'
<1>1. Inside(a) => \A b \in Agents \ {a} : RunOK(b)'
  BY OthersRun DEF IInv
<1>2. CASE AutoKick(a) \/ Elapse(a) \/ (\E full \in BOOLEAN : Reindex(a, full)) \/ Acquire(a)
  <2>1. UNCHANGED <<disk, used>>
    BY <1>2, BeginDoes
  <2>2. QED  BY <1>2, <2>1, BeginKeeps, PastStays DEF IInv
<1>3. CASE Close(a) \/ GiveUp(a) \/ RunFails(a) \/ Kill(a)
  <2>1. UNCHANGED <<disk, used>>
    BY <1>3, EndDoes
  <2>2. QED  BY <1>3, <2>1, EndKeeps, PastStays DEF IInv
<1>4. CASE Load(a) \/ Count(a) \/ Reset(a) \/ Bind(a) \/ Mark(a) \/ Discover(a)
  <2>1. Inside(a) /\ UNCHANGED <<disk, used>>
    BY <1>4, LoadDoes, CountDoes, ResetDoes, BindDoes, MarkDoes, DiscoverDoes
  <2>2. PointsOK' /\ ManifestOK' /\ RunOK(a)'
    BY <1>4, LoadKeeps, CountKeeps, ResetKeeps, BindKeeps, MarkKeeps, DiscoverKeeps
  <2>3. HistoryOK'
    BY <2>1, PastStays DEF IInv
  <2>4. QED  BY <1>1, <2>1, <2>2, <2>3
<1>5. CASE \/ (\E f \in Files : DropGone(a, f) \/ Inspect(a, f)) \/ Read(a) \/ Erase(a)
           \/ Upsert(a) \/ Sweep(a) \/ Record(a) \/ FileFails(a) \/ FlushFails(a)
  <2>1. Inside(a) /\ UNCHANGED <<disk, used>>
    BY <1>5, DropGoneDoes, InspectDoes, ReadDoes, StoreDoes, RecordDoes, FileFailsDoes
  <2>2. PointsOK' /\ ManifestOK' /\ RunOK(a)'
    BY <1>5, DropGoneKeeps, InspectKeeps, ReadKeeps, StoreKeeps, RecordKeeps
  <2>3. HistoryOK'
    BY <2>1, PastStays DEF IInv
  <2>4. QED  BY <1>1, <2>1, <2>2, <2>3
<1>6. QED  BY <1>2, <1>3, <1>4, <1>5 DEF Step, Index, Disturb

LEMMA IndexKept ==
    ASSUME Typed, IInv, OneAtATime, ~Returning, [Next]_vars
    PROVE  IInv'
<1>1. Excluded'
  BY ExcludedKept DEF IInv
<1>2. CASE UNCHANGED vars
  <2>1. UNCHANGED <<points, manifest, disk, used, job>>
    BY <1>2 DEF vars
  <2>2. \A b \in Agents : RunOK(b)'
    BY <2>1, RunStays DEF IInv
  <2>3. \A b \in Agents : Marked(b)' <=> Marked(b)
    BY <2>1 DEF Marked, Busy
  <2>4. ManifestOK'
    BY <2>1, <2>3, PointsStay, PastStays DEF IInv, ManifestOK, Settled
  <2>5. QED  BY <1>1, <2>1, <2>2, <2>4, PointsStay, PastStays DEF IInv
<1>3. HistoryOK' /\ PointsOK' /\ ManifestOK' /\ (\A b \in Agents : RunOK(b)') => IInv'
  BY <1>1 DEF IInv
<1>4. ASSUME NEW a \in Agents, Step(a)  PROVE IInv'
  BY <1>3, <1>4, StepKeeps
<1>5. CASE Outside
  BY <1>3, <1>5, EditKeeps, RemoveKeeps DEF Outside
<1>6. QED  BY <1>2, <1>4, <1>5 DEF Next, Step, Outside

LEMMA InitIndex == Init => IInv
<1> SUFFICES ASSUME Init PROVE IInv
  OBVIOUS
<1>1. Excluded /\ \A a \in Agents : job[a].pc = "idle"
  BY InitExcluded
<1>2. HistoryOK
  BY DEF Init, HistoryOK
<1>3. PointsOK
  BY FS_EmptySet DEF Init, PointsOK
<1>4. ManifestOK
  BY DEF Init, ManifestOK
<1>5. \A a \in Agents : RunOK(a)
  BY <1>1 DEF RunOK, Bound, Marked, Busy
<1>6. QED  BY <1>1, <1>2, <1>3, <1>4, <1>5 DEF IInv

LEMMA IndexAlways ==
    ASSUME OneAtATime, ~Returning
    PROVE  Spec => [](Typed /\ IInv)
<1>1. Typed /\ IInv /\ [Next]_vars => Typed' /\ IInv'
  BY IndexKept, TypesKept
<1>2. QED  BY <1>1, InitTypes, InitIndex, PTL DEF Spec

\* Whatever a run will skip as unchanged is in the store, chunk by chunk, as
\* it stands in the worktree: for any files, models, contents and flush period,
\* wherever runs are killed or fail, as long as runs exclude each other and no
\* file gets back contents that it had before.
THEOREM SkippedTheorem ==
    ASSUME OneAtATime, ~Returning
    PROVE  Spec => []SkippedIsStored
<1>1. Typed /\ IInv => SkippedIsStored
  BY SkippedFollows
<1>2. QED  BY <1>1, IndexAlways, PTL

\* A scope reported as ready holds the recorded version of every recorded
\* file and not a point beside, under the same conditions.
THEOREM ReadyTheorem ==
    ASSUME OneAtATime, ~Returning
    PROVE  Spec => []ReadyIsExact
<1>1. Typed /\ IInv => ReadyIsExact
  BY ReadyFollows
<1>2. QED  BY <1>1, IndexAlways, PTL
=============================================================================
