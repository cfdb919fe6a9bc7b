# A TLA+ model of coding-cli

coding-cli adds four programs to the coding hosts Codex and Claude Code: a
*context compaction pilot* (hooks that capture the state of a task before the
host compacts its context and gate the tools afterwards), *mnemo* (a shared
memory and a code index behind an MCP server), an *image generation server* and
*optical compression* of large outputs; the rest of the repository is prompts,
agents and skills for the hosts. This directory models the parts that keep state
or race with themselves, checks them with TLC and proves the main results with
TLAPS.

    cd tla
    tlc -workers 2 -config lifecycle_serial.cfg MCLifecycle
    tlapm LifecycleProofs.tla

`PROJECT.json` lists the runs with the properties of each, maps every
definition to the lines it models, names a mutant for each property, and lists
hazards, findings and theorems.

## The system

| component | state | operations | what is hard about it |
|---|---|---|---|
| Compaction lifecycle (`context_compaction/lifecycle.py`, `models.py`) | the envelope in `current.json`: gate, reasons, pointers, action journal, source reads; the event ring | the handlers of PreCompact, PostCompact, SessionStart, PreToolUse, PostToolUse; `validate` | one process per hook, and hooks run in parallel: read, decide and write are not atomic; hooks are killed, delivered twice, and fail half way |
| State store (`storage.py`) | `current.json`, `events.json`, `owner.json`, temporary files, the lock file | write_current, read_current, append_event, read_events, purge | locks between processes, atomic replacement, kills, purge unlinks its own lock |
| Code index (`mnemo/mnemo/code_index.py`) | Qdrant points, `manifest.json`, `index.lock`, the debounce of each agent | index_repo, kick, search, status | agents are killed routinely; store and manifest are updated one after the other; a search takes no lock |
| Memory engine (`mnemo/mnemo/engine.py`) | event log per namespace, Qdrant points, lock directory | write, search, get, list, forget | a lock of mkdir and timeouts that a late waiter breaks, whoever holds it; log and store are updated one after the other |
| mnemo server (`mnemo/mnemo/server.py`) | lazily built clients | the MCP tools | resolves the repository per call, kicks the indexer |
| Activation (`activation.py`) | two owned files per host, the profile directory | plan, enable, disable, run, status | several files are created or removed one after the other; drift between plan and enable |
| Claude registry guard (`claude_registry.py`) | the host's own `.claude.json` | capture, validate_current | the host writes the file while it is watched |
| Host adapters and hook command (`adapters.py`, `cli.py`, `hook_entry.py`) | none; the allowlist on disk | one process per event: load the allowlist, parse, classify, decide, answer | which call counts as a read, and what a failure at any place lets through |
| Repository, budget (`repository.py`, `budget.py`) | none | resolve pointers, allocate characters | pure, but they decide what the lifecycle sees |
| Image server (`gpt_image_2`) | the budget of a call, published image files | generate, edit, publish | one retry inside a time budget; several servers and the user share the directory; an image may fail when others have landed |
| Optical compression (`optical_compression`) | originals by digest, a cache of drawn pages | compress (tool and hook), retrieve, prune | the cost is predicted before anything is drawn; pages are shared between calls; prune against put and get; damaged files |
| Caveman compress (`skills/caveman-compress/scripts`) | the file and its backup | backup, compress, validate, fix, restore | a kill or an error between two of them; files that share a backup; the user edits meanwhile |
| Game integration validator (`skills/gamedev-workflow/scripts/validate_integration.py`) | none | one-shot check | pure |

Components meet in three places. The lifecycle calls the store for every read
and write, and the store locks each call by itself. The command line runs
`validate` and `purge-state` beside running hooks. Memory and index share the
Qdrant server and nothing else.

What makes each part correct, in a sentence:

- lifecycle: after a compaction no tool that is not a pure read runs until the
  operator has validated, on evidence of this very recovery, and a completed
  write is not replayed;
- store: each operation is atomic to all others, and a kill leaves a usable
  directory;
- index: what a run skips as unchanged is really stored, and a scope reported
  as ready is exact; it gets there again after any kill;
- memory: the store never knows what the log does not;
- activation: enable is all or nothing, only files of the pilot are removed, and a
  host that changes what is protected is stopped;
- image server: no call exceeds its time or pays twice, nothing is overwritten,
  and the answer says what was left;
- optical compression: a digest that was handed out can be read, the pages show
  the text, and they cost no more than predicted;
- caveman compress: whatever happens, what the user wrote last is in the file or
  in its backup.

## The modules

| module | what it is |
|---|---|
| `Journal` | the action journal of an envelope (`_bounded_actions` and the updates of `_pre_tool_use`, `_post_tool_use`, `_session_start`) as operators |
| `Gate` | what the gate promises: a compaction shuts it, only reading opens it |
| `Lifecycle` | the hook processes, the envelope, the host, the worktree and the operator; extends `Journal`, implements `Gate` |
| `AtomicStore` | what the store promises: a register and a ring |
| `StateStore` | the store, system call by system call, with inodes and kills; implements `AtomicStore` |
| `CodeIndex` | `index_repo` operation by operation for several agents |
| `CodeSearch` | a search, whose check and query runs come between; extends `CodeIndex` |
| `MemoryLog` | write and forget of the memory engine: event log, directory lock, projection |
| `RegistryGuard` | what the guard of Claude's registry accepts, as operators |
| `Activation` | plan, enable, disable and run, with hooks, host and user; extends `RegistryGuard` |
| `ImageRequest` | what a request is refused for before it is sent, and what an error answer means, as operators |
| `ImageServer` | a paid call of the image server, from its budget to its published files or its error code; extends `ImageRequest` |
| `OpticalPages` | how a text is laid out on pages and what text and pages cost, as operators |
| `Optical` | compressing, retrieving and pruning processes on the shared store; extends `OpticalPages` |
| `Adapter` | what the host adapter makes of a tool use: its class and the file it is evidence of, as operators |
| `HookPromises` | what host and user may count on of the hook command: the properties of `HookEntry`, over what they see of it |
| `HookEntry` | a hook process from its input to its answer, around the lifecycle; extends `Adapter` and `HookPromises` |
| `Compress` | runs of caveman compress and the user, on files and backups |
| `LifecycleProofs`, `StateStoreProofs`, `MemoryLogProofs`, `CodeIndexProofs`, `ActivationProofs`, `ImageServerProofs`, `OpticalProofs`, `CompressProofs` | their theorems; `LifecycleProofs` begins with the lemmas about `Journal`, `ActivationProofs` ends with the theorems about `HookEntry`, an instance over the variables of `HookPromises` |
| `MC*` | instances for TLC |

Definitions marked as mutants (or faulty variants) are in no specification: each
stands before the definition it distorts and is what a plausible bug would make
of it.

### Lifecycle

A process is a record in `hook[p]`. Its `pc` is its place between two store
operations: `read` (past the duplicate check), `check` (validate, hashing the
pointers one by one), `write` (envelope computed) and `record` (about to append
to the ring and answer). `Deliver*` start a process when the host would,
`Start` holds the duplicate check of `handle_event`; `PreCompact` ...
`ValidateConclude` are the handlers from the read of `current.json` to the
decision; `WriteCurrent` is the store's write; `Finish` is `_record` together
with the answer to the host. Reading `current.json` and asking git for the
state of the worktree are one step: neither changes anything the other sees.

`HandlerFails`, `ResolveFails`, `RecordFails` and `Killed` are the error paths,
each taken anywhere; `Purge` is `purge-state`, one step here and taken apart in
`StateStore`. The host is external: it runs a call only if the hook answers
continue, so it does not run a call whose hook was killed.

`calls`, `stage`, `epochs` and `turn` are the host's; `owed`, `acked`, `lost` and
`seen` are history variables that only properties read.

The stored journal is one list in the code. Every write of it goes through
`_bounded_actions`, which puts the unfinished records before the completed
ones, so `Journal` keeps two sequences. That order matters: the record of a
call that completes changes in place and so becomes the *first* of the
completed ones, the next to be dropped.

Left out: a read of the event ring that fails in the duplicate check, after which
a known event is handled as a new one (`lifecycle.py:83`): of a refused call asked about
again the gate is then asked again; `event_id` (equal to `recovery_epoch` where it is used), session
starts that do not come from a compaction (recorded and ignored), the reasons of
activation (`HookEntry` has their effect) and ALLOWLIST_MISMATCH, the states
AWAITING_APPROVAL and PLANNED that no adapter produces, the limit of 256 pointers and reads, the contents of the
diagnostics, and commits: HEAD stays put, the worktree changes.

`Gate` is what all this is for. `GateOf`, `WantedOf` and `ReadsOf` map the stored
envelope to it: an envelope that is not validated is a shut gate, captured as long as
it has no recovery epoch; wanted are its pointers with their captured hashes; read is what was
stored in this very epoch. A compaction may want anything new. The gate may be
disposed of, and after that a hook under way may store what it had in hand (`Make`).
`HookEntry` answers by a gate that takes the same steps.

There are no liveness properties: a hook runs to its end by itself and waits
for nobody, and nothing happens without the host.

### HookEntry

The other side of `Lifecycle`: everything around the gate. `Peek` reads the input and
looks which event it is, `Load` reads the
allowlist, `Parse` makes an event of the input, checks that every tool is
observable and gives a call its class and its evidence, `Core*` is the lifecycle,
`Emit` the answer in the words of the host. The lifecycle is the gate it promises,
that of `Gate`, with the evidence it stores (`HookGateTheorem`); `CoreInactive` is its answer
to a call from outside the repository (`home` says where a call comes from), and
`CoreFails` that to an exception. The operator validates, and enables, disables or
enables for another host while hooks run; files come and go.

Failures: `Throws` is an exception inside the `try` of `_run_hook`, which for
PreCompact becomes "continue". `Peek` is outside it (`cli.py:166`): an input that
cannot be read, or is nested too deep for `json.loads`, is `"lost"`, and ends in an
error for PreCompact too. An answer that cannot be written leads to another that
cannot be written (`cli.py:216`, then `main`), and the process ends with a status
other than that of a refusal: it is `"mute"`. What a host does about a hook that
is mute or was killed (`Killed`) is the host's: it may make the call or not (`Left`).
So the properties speak of what a hook answers, and not of one that says nothing.

`Adapter` takes tools and words of commands in groups: two members of a group are
treated alike. A command is opaque if it has a metacharacter or does not parse.
`Harmless` says which uses really change nothing, which is what the classification is
compared with. In the run they are chosen one by one, and commands that change something
by words the adapter does not know are not among its uses; the table below names
some. What the proofs say is about the classification alone: only what it takes for a
read passes the shut gate. Nor is what counts as evidence a proof of reading: the adapter
looks at the path of a direct read only, not at `offset` and `limit`, nor whether it is a
search (`adapters.py:407`). `touched` has the sources that a call which succeeded was
directed at, and at nothing else (`Aims`), since the recovery, and `OpensAfterCalls`
claims no more than that of each source.
`MixedUp` are the forms of event that may come to the command
registered for PreCompact although they are of another kind.

### StateStore

`flock` locks an inode, so `lockPath` (what the path names) and `flock` (who
holds which inode) are apart. Each action is one step another process can
notice: opening the lock, locking, `mkdir`, creating a temporary file, moving
it into place, unlinking one entry, unlinking the lock file. `Kill` frees the
lock and leaves the temporary file as `litter`. `Purging` says when the operator
may purge: `"alone"` is the documented rollback, which removes the hooks first
(`docs/context-compaction/rollback.md:35`). `Killable` names the operations
whose process may be killed. The validation of payloads, the byte limit and the
Windows lock are left out; in-process threads are too (a hook has one).

### CodeIndex

`points` is the set of points of one scope; a point's id is its file and chunk
index, and it carries the hash it was recorded with and the text it was made
of, which differ when the file changes between `file_sha` and `read_text`.
`manifest` is the file on disk, `job[a].mem` the manifest in the memory of a
running thread. `Kick` ... `Close` follow `index_repo` in its order, each Qdrant
call, file read and flush an action. `FileFails` is caught by the loop,
`RunFails` ends the run, `Kill` ends the process. The order of the files is any
order; the code's is git's. `status` changes nothing: the properties say what it
would find. Left out: repository identity, eligibility
(a file that is not eligible is `Gone`), language and path filters, ranking.

`CodeSearch` has the search as the code has it: `Ask` is the check of the manifest,
then the query is embedded over the network, and `Query` asks the store; no lock is
held, and whatever the runs do comes between. `rebound` remembers the searches
since whose check the manifest has been bound to another model. Those may find points of that
model (see below); `SearchFindsOwn` is about all the others.

### MemoryLog

One namespace. An agent is a server process and does one operation at a time:
`Write` waits for the lock, appends, and projects into the vector store;
`Forget` revokes in the store and then appends. An append is two steps, finding
the end and putting the line there, because the code takes a lock exactly for
that; a line that lands on another overwrites it. That is so where appends are emulated;
where the kernel appends atomically (`atomic`, chosen at the start) the line goes to the
end as it is then. The lock is the existence of
a directory. A waiter that has waited ten seconds breaks it (`RunLate`,
`Break`), whether who holds it lives or not: the code looks at its clock only.
`MutualExclusion` is therefore not a property of this code. What holds is that
appends stay apart as long as waiters are `Punctual`: nobody ran late behind an
agent that lives (`slow` counts those who did), and after a kill there are not two to
break the dead one's directory. The log rests on that or on the kernel (`LogKept`).
A killed agent stays dead, leaves its directory, and may leave it at any step.
Left out: redaction, previews, ranking, reindexing from the log, and half lines.

### Activation

One host (`kind`), its two owned files, the two directories they live in, the
journal's latest event per repository, and, for Claude, the registry. A command
of an operator is a sequence of file system steps in `op[o].pc`; a `Fault` may hit
each, and the command may be killed between any two. `file` holds what a
file *is* to the pilot: the expected profile, the profile with the trust section
Codex appends, the allowlist of a repository, a foreign file, or a drifted one.
`RegistryGuard` abstracts the registry to what `validate_current` compares: the
set of protected fields that changed, the startup counter, the target entry and
whether the file can be parsed; every other disagreement is the entry `"wrong"`,
and the categories of a rejection are left out. Each write of the host changes
the signature the guard polls (mtime, size, inode).

`before` (what the files would be without the command in progress) and the `age`
of events are history: properties read them, steps do not.

`Quiet` is what the documentation asks of the operator: files are enabled and
disabled while the host is closed and its hooks are done, nobody edits a file
between the look at it and the write that relies on it, and no other session of
Claude runs beside a guarded one. What happens otherwise is listed under
"Met while modelling". One guarded session runs at a time, and each file has one
level of directory to make.

### ImageServer

Each call is a process of its own with its own budget. Before publication time
counts: `spent` is the time since the tool call, in units; `Check` and `Attempt`
add the reading of the files of an edit, `ErrorResponse` the time to the response
and the wait. `AttemptTimeout` is the timeout given to the client, which is
assumed to keep to it. Once no budget is consulted any more, `OffBudget` resets
it, so that later states do not differ in it. `Receive` decodes: the provider
returns at most what was asked, and any of the images may not decode.

`Looks` is a request as the validators see it: which of its options, its size,
directory, basename, files, mask and credential would be refused. `Checks` lists
the checks in their order with the code of each, and `Refusals` is computed from
them; how an option or a mask is judged is left out. `error` is the code a call
ends with: of the first check that refuses, of `CodeOf` the provider's status, or
of what became of its images. `requests` keeps the fate of each request: answered
with images (`billed`), refused with a status that may be retried (`busy`) or not
(`rejected`), or without an answer (`unknown`). `ReportIsTrue` ties the two: the
code tells whether the call may have been paid for.

Publication is a synchronous loop: `MakeTemp` (mkdir, mkstemp), `WriteTemp`,
`Link` for each candidate name in turn or, where the file system answers `os.link`
with another error than "exists", `Create` and `Fill`; `Cleanup` is the finally
clause, `NextImage` the guarded loop of `_publish_all`. `disk` says who made a
file, of which image, and whether it is whole. The user saves files at any time;
outputs are not deleted while calls run. A killed call leaves its `.part` file.
Left out: how a field is judged, previews, usage and the redaction of errors.

### Optical

`compress[p]` is a call of the pipeline, by the tool or by the hook: `Begin` holds
all that is decided before the store is looked at (the minimum length, the
guard, the predicted cost, the ceiling of pages); then page by page
`LookUpSegment`, `Draw`, `StoreSegment`, and `LookUpOriginal`, `PutOriginal`,
`Answer`. A text is the record of what the arithmetic and the guard look at: the
lengths of its runs of ASCII characters, its other characters, its newlines,
whether a pattern of the guard matches (`shaped`) and how many characters are in
tokens like identifiers (`covered`). A picture is the slice of the text it shows
with the layout it was drawn in. The digest of a text is the text; `whole` says
whether a file still has the contents of its name, `old` whether it is past the
retention. The sizes of glyphs are constants, since they come from the font.

`prune` lists, looks at and unlinks one file after the other, first originals,
then segments; the age of a segment is any. `Breaks` is every error and kill of
a call. `promised`, `undisturbed` and `kept` are history: a text is promised from
the answer that named it until its file is unlinked or damaged; a call whose
original is unlinked or damaged under way promises nothing. Left out: temporary
files (nobody reads them), damage of segments, the ranges of a retrieve, the
patterns of the guard themselves, drawing.

### Compress

A run is a record in `run[r]`; `Start` ... `Unlink` follow `compress_file`. A write
truncates and then fills (`Truncate`, `Fill`), and a run may be killed between the
two; `Stops` is every error, interrupt and kill. What Claude answers is a text
`lost` from some of what `validate` checks, either as an error or only as a warning.
`disk` holds what somebody wrote (which file, which version), what a model made
of it, a torn file, or nothing; `raw` marks bytes that reading as text and
writing again do not keep (line ends, undecodable bytes), and is lost by a
restore as it is in the code. The backup of `notes.md` and `notes.txt` is the same
file. The user edits files and backups, moves a backup back over a broken file,
and removes a backup once its files are whole. `latest` is history. `Quiet` says
that neither user nor another run touches a file, or its backup, while a run is
at work on it. Left out: the prompts, what each validator looks for, the
interactive part of the command line.

## The runs

All finish in under four minutes with two workers.

| run | instance | shows |
|---|---|---|
| `lifecycle_serial` | one hook at a time; a read and two equal writes; two compactions, two turns, one fault; journal of three unfinished and two completed records, ring of one | every compaction is captured; the gate holds; one record per call; doubt blocks validation; no replay; refinement of `Gate` |
| `lifecycle_parallel` | two hooks interleaved; one call, also in the background, asked about again; two compactions, an edit | a validation rests on evidence of this recovery, whatever updates are lost |
| `hooks` | one session, 28 uses of tools and commands, two inventories, two versions of a host, events mixed up, malformed or unreadable, a failure or kill anywhere, answers that cannot be written | behind the gate none of these uses changes anything; only calls on each source that succeed open it; a failure goes the right way |
| `store_atomic` | three processes, three keys, a ring of two, purge alone, two kills in write, append or read | exclusion, state only beside a marker, refinement of `AtomicStore` |
| `index_fresh` | one agent without file lock, two files of zero to two chunks, three edits, a kill, a failure | what is skipped is stored; ready is exact |
| `index_agents` | two agents with a model each that index, with the lock, and search, without, an edit, a kill, a failure, fairness | a search finds points of its own model only, unless the manifest is bound to another between its check and its query; the index always gets back to the worktree |
| `memory_log` | three agents, two memories (one private and expiring), a failure, a kill, one waiter late behind a living agent, atomic and emulated appends, fairness | appends stay apart while waiters are punctual; while appends are atomic or waiters punctual the store serves only what the log holds and, undisturbed, both agree; no wait is for ever |
| `activation` | both hosts, one operator, one hook, two repositories, one fault of any kind, one edit, two startups, fairness | a failed enable leaves nothing; foreign files are kept; active means observed; drift stops the host |
| `images` | an edit for two images named `image`, a generation named `image-2`, the user saving `image`; a status of each kind, two faults, a kill, both ways of publishing, fairness | nothing is overwritten, nothing billed twice, report and error code are true, no `.part` is left, the deadline and the room for a retry are kept, every call ends |
| `optical` | one tool process, the hook, one reader, one prune; a text of one page, one with identifiers, one of several pages; the real page sizes and limits but two pages at most; two calls, one damaged file | a promised digest is read back exactly; pages show the text at the density of the answer; no page is shrunk; the cost is within the prediction |
| `compress` | two runs; `notes.md` and `notes.txt` with one backup, and a script; two attempts, two edits of each file | the last text is in the file or its backup; success was checked; failure is undone; no other backup is touched |

Bounds. Two compactions are needed for evidence of an earlier recovery to be
mistaken for evidence of this one; two processes for every lost update; one
fault for every error path, at every place; a ring of one lets the lifecycle
forget. A ring of two with three keys drops one. Two files let a loss in one
hide behind a gain in the other, since only the total is compared; three edits
with one kill give every pair of old and new size. `FlushEvery = 2` leaves one
record unflushed. Three agents with a kill let two waiters be late at once, one late
waiter is enough to put two agents inside the lock, and two memories for one append to
land on another. Two repositories
let the allowlist change owner; one fault reaches each error path of each
command, including the rollback's. In `images` a unit is about two minutes: the timeout is
4, the deadline 5, the retry minimum 2 (480, 540 and 240 seconds in
`constants.py`), and a reading takes 0, 1 or 5.
The server's own backoff is shorter than a unit, `Retry-After` negative, zero or above
its limit. Three candidate names for each
call, most of them shared, let names run out; two faults hit an image twice.
`optical` takes the tiers, the minimum lengths and the densities of
`constants.py` as they are and texts just above and below a page, where the
rounding matters; two calls are enough for one to find the pages of the other.
In `compress` two attempts give both outcomes of a failed validation, and one error
and one warning are all that validation tells apart.

The types of the modules with a theorem about them are proved; of these only
`activation` checks them again.

`lifecycle_serial` holds only because the host waits for one hook before it
starts another; `lifecycle_parallel` drops that assumption and checks what is left, and
"Met while modelling" says what is lost. The index runs
never give a file contents it had before (`Returning = FALSE`).

Symmetry (processes, files) is used only in runs without temporal properties.

Fairness, all weak, is assumed in four runs. `index_agents`: threads get to run,
the debounce interval passes, and agents keep calling tools that kick the
indexer (each preflight does, `server.py:161`). `memory_log`: living agents get to
run and the ten seconds pass; both are steps of a loop the code is in.
`activation`: a command that is not killed goes on; the guard polls in a loop.
`images`: a call that is not killed goes on; a request is answered or times out.
No fairness is assumed of edits, kills, failures, hosts or explicit commands.

Deadlock is checked except where the system may stop: in `memory_log` all
memories may be written and forgotten, in `activation` and `optical` the bounds may be
used up with nothing left to do, in `images` all calls may have ended.

## Where the code does not do what it says

`index_returning` is refuted by TLC; `PROJECT.json` quotes the sentence it refutes:
contents that come back after a kill are taken for stored, and stay wrong for
ever. It was replayed against the Python code and behaves as modelled.

### Met while modelling

Further behaviours that TLC finds when a constant is changed. They bound what
the passing runs say. Those marked * were replayed against the Python code.

| run and change | what TLC finds |
|---|---|
| `lifecycle_parallel` without background calls, with `GateHolds`, calls w1 and w3, one compaction | `GateHolds`: a hook that read before the capture writes the old envelope over it (`lifecycle.py:436`; ADR 0011, line 23, says material tools are denied while the gate is active) |
| `lifecycle_serial`, `Redeliver = TRUE` | `GateHolds`: a refused call delivered again is a known event, and known events continue (`lifecycle.py:85`) * |
| `lifecycle_serial`, `KeepCompleted = 1`, calls w1, w2, w3 | `NoReplay`: of a full journal the *newest* completion is dropped, and the call is let run again (`lifecycle.py:745`) * |
| `lifecycle_serial`, two processes, calls w1, w2, w3 | `NoReplay`: two reports at once, one completion is lost, and the call is let run again (`lifecycle.py:510`) |
| `lifecycle_serial`, `MaxEdits = 1` | validation passes although the task file says by now that approval is pending: the status is the one of the capture (`lifecycle.py:199`) * |
| `lifecycle_serial`, no task file in `Base` | without a task file there is no pointer, and validation asks for nothing (`lifecycle.py:180`) * |
| `lifecycle_serial`, `Correlated = TRUE`, `MaxTurns = 0`, `KeepEvents = 8` | `CompactionIsCaptured`: the second compaction of a turn has the key of the first, is answered as a duplicate and not captured (`lifecycle.py:68`; `.batman/cross-host-context-compaction/spec/design.md:463` says a later compaction "cannot be mistaken for an old delivery") * |
| `hooks`, with the command `sed -i.bak` or `find` with `-fprint` among the uses (likewise the `w` of `sed`, and `git branch` with flags only that change something) | `ShutGateChangesNothing`: the suffix makes it another word than `-i`, and the list for `find` lacks it (`adapters.py:389`, `:393`) * |
| `hooks`, if `Aims` leaves out searches, or reads with `offset` or `limit` | `OpensAfterCalls`: a search of one file, or a read of some of its lines, counts as having read it (`adapters.py:407`; `docs/context-compaction/README.md:131` says general searches never count) * |
| `hooks`, without the condition on `"lost"` | `FailsTheRightWay`: an input that cannot be read, or is nested too deep, ends PreCompact with status 2, as the read and the look at it come before the `try` (`cli.py:166`) |
| `hooks`, `MixedUp` with `"unreadable"` | `FailsTheRightWay`: the command of PreCompact answers continue to whatever it cannot tell the kind of, also to a tool call (`cli.py:212`) |
| `store_atomic`, `Purging = "anytime"`, two processes, three inodes | `MutualExclusion`: purge unlinks the lock file others wait on (`storage.py:232`, `:361`) |
| `store_atomic`, `Killable` with `"purge"` | `OnlyMarkedState`: a purge killed after `owner.json` went leaves state that neither hooks nor a later purge accept (`storage.py:228`) |
| `store_atomic`, a kill while the marker is written | the temporary file makes the directory one that neither write nor purge accepts (`storage.py:241`) |
| `index_agents`, `asking` in place of `asking \ rebound` | `SearchFindsOwn`: another agent takes the manifest over and stores its points between check and query, and the search answers from them (`code_index.py:902`, `:914`) |
| `index_agents`, `Locking = FALSE` | `SearchFindsOwn` and, with one model, `ReadyIsExact`: runs interleave (`code_index.py:1033`; the code goes on and logs it) |
| `memory_log`, `MutualExclusion` | a waiter whose ten seconds end while an agent that lives is inside removes its directory, or, with three agents and a kill, two late waiters remove each other's. The ten seconds run from the first try, so a waiter is also late when many others were served before it (`engine.py:185`, "Break a presumed-stale lock"; `code_index.py:1012` says as much of this lock) |
| `memory_log`, `ServedIsLogged` without `LogKept` | with two agents inside and emulated appends one line overwrites the other: the store serves a memory that the log no longer has (`engine.py:264`) |
| `activation`, `Quiet = FALSE` | `ForeignIsKept`: a file saved between check and replace is overwritten (`rollback.md:47` says never). `ActiveIsObserved`: a hook in flight records after the disable marker |
| `optical`, `Tiers = {"standard", "highres"}` | `PagesShowText` and `CostIsProjected`: the key of a cached page leaves out the tier (`render.py:265`); a page laid out for highres, 1930 pixels wide, is found by a call for standard and shrunk by the vendor, which `tokens.py:91` says is avoided * |
| `compress`, `Quiet = FALSE` | `OriginalKept`: what the user saves while a run is under way is overwritten; two runs of files that share a backup overwrite the backup (`compress.py:186`, `:197`) |
| `activation`, two operators, no edits | `FailedEnableLeavesNothing`: one operator's rollback meets the files of the other |

Some gaps are in the model as they are in the code, and the properties allow for
them: a disable marker whose append fails is lost (`unmarked`); a change of the
registry between its capture and the first signature is found only at the next
change or in the end; a forget that fails between store and log is forgotten in
the store only; the second reading of the files of an edit is not deducted from
its deadline (`TimeIsKept`); a file exchanged between validation and upload is sent
as it is, only its size is looked at again (`api.py:161`); a lost connection is answered
with "try again" (`api.py:309`), although the request may have been billed; an output
directory that may not be looked at ends as an internal error (`images.py:382`); a
killed image call leaves its `.part` file; without hard
links an image that could not be written whole keeps its name (`images.py:477`,
while the constitution of that server says no invalid partial files are
exposed); `optical_retrieve` answers ok without a text when its file is pruned
between its two reads; storing a text again does not renew the age of its file,
so that a digest just handed out may be pruned as old; a damaged page in the
cache is never replaced; a second call of Claude that fails leaves an invalid
compression in the file, with the original in the backup; and as long as that
backup exists every further run is refused, although the skill's README says to
run it again after edits (`README.md:28`).

## What is proved

For all values of the constants that the named ASSUMEs allow:

| theorem | says | argument |
|---|---|---|
| `LifecycleProofs!TypeCorrect` | types; the stored journal fits its limits | a lemma on each journal update |
| `LifecycleProofs!EvidenceTheorem` | each validation rests on stored reads of this recovery for every pointer | `AllBacked`: every read in every envelope, stored or still in the hands of a process, is in `seen`. It must speak of the processes too, since any of them may write its envelope back later |
| `LifecycleProofs!CaptureTheorem` | for a host that runs one hook at a time and names no turn, every compaction is captured unless something fails | `CaptureInv`: from the write of PreCompact to the session start every envelope, stored or about to be, is closed and has no recovery epoch, so no validation applies to it |
| `LifecycleProofs!JournalTheorem` | each call has one record in the stored journal | `AllTidy`: every envelope, stored or in the hands of a process, has one record per call; a lemma on each journal update shows that it keeps that |
| `LifecycleProofs!GateTheorem` | under `Orderly` the gate holds | `GateInv`: while validation is owed and the host is not compacting, the stored envelope is closed or missing after at most one fault, or the one running process is about to close it |
| `LifecycleProofs!ReplayTheorem` | if hooks run one at a time, no refused call is delivered again (`Solitary`) and the journal has room for the completions, nothing completed is replayed | `ReplayInv`: every journal, stored or about to be, has a record of each completion ever stored (`Remembers`) and done records of ended calls only, and a call that is allowed had no equal among them |
| `LifecycleProofs!DoubtTheorem` | under `Orderly`, with room for every call, the gate is not opened while a material call from before the compaction runs | `DoubtInv`: every envelope has an open record of each call that runs, and once the host goes on after a compaction an ambiguous one of each material call, or no epoch (`Tells`) |
| `LifecycleProofs!KeepsTheorem` | if hooks run one at a time (`HooksInTurn`), the lifecycle implements `Gate`, whatever fails, is killed, edited or disposed of | `KeepsInv`: what a hook is about to store is a step of the gate from the envelope it read (`Keeps`), and that envelope is still the stored one or has been disposed of; that a validation found everything read is `AllBacked` |
| `StateStoreProofs!StoreTypes` | types; the ring fits its limit | `RingStep` |
| `StateStoreProofs!ExclusionTheorem` | if the operator purges while no hook runs or never (`Purging # "anytime"`), never two inside the lock, whoever is killed | `Excluded`: who purges is alone, and every open lock file is the one the path names |
| `StateStoreProofs!RefinementTheorem` | under the same, the store implements `AtomicStore` | `Current`: what an append computed from the ring stays what the ring asks for; a step of a purge is a `Dispose` |
| `StateStoreProofs!MarkedTheorem` | under the same, and if purges are not killed, state is only left behind beside a marker | `Marked`: whoever is past `_ensure_owned` has a marker, and a purge still has on its list whatever is stored (`Listed`) |
| `MemoryLogProofs!MemoryTypes` | types | one step per action |
| `MemoryLogProofs!LockTheorem` | any number of agents append one at a time while waiters are `Punctual`: whoever is killed if there are two, and as long as none is if there are more | `Held`: whoever is inside has the directory to himself, one that nobody is inside is a dead agent's, and who has waited too long waits for dead agents only |
| `MemoryLogProofs!LogTheorem` | under `LogKept`, whatever fails and whoever is killed, the store serves nothing the log does not hold or has as forgotten | the line of every projection under way is in the log, and every line that is put goes behind the others, thanks to the kernel or to the lock (`Ahead`) |
| `MemoryLogProofs!GrowthTheorem` | under `LogKept` a step adds a line at the end of the log or leaves the log alone | `Ahead`: the position an agent has found is still the end when it writes there |
| `MemoryLogProofs!StoreCatchesUp` | under `LogKept`, when nothing failed, nobody was killed and nothing is under way, log and store say the same | `Owed`: a memory in the log and not in the store is one an agent is about to project, a memory forgotten by the store and not by the log is one an agent is about to log |
| `CodeIndexProofs!IndexTypes` | types, for any agents, with or without the lock | `Typed`: a run past its binding has a manifest of its own model, and a file in hand from `read` to `record` |
| `CodeIndexProofs!SearchTheorem` | if runs exclude each other, a search, whose check and query they come between, finds points of the searcher's model only, unless the manifest has been bound to another since its check | `OwnInv`: a run that has taken over or bound a manifest finds its own model only; between the reset and the binding there are no points. `AskingInv`: as long as no other model is bound the points a search can find stay of its own (`StillOwn`) |
| `CodeIndexProofs!SkippedTheorem`, `ReadyTheorem` | if runs exclude each other and no contents come back, what is skipped is stored and what is ready is exact | `IInv`: see below |
| `ActivationProofs!ActivationTypes` | types; a file that is there has its directory | one lemma for each group of actions; a command that enables has a repository (`Named`) |
| `ActivationProofs!ForeignTheorem` | under `Quiet`, with any number of operators, only its owner changes a file that is not the pilot's | `AllKept`: what a command has looked at and is about to replace or remove is not another's |
| `ActivationProofs!FailedEnableTheorem` | under `Quiet`, with one operator, a failed enable leaves the files and directories as they would be without it | `Calm` and `WayBack`, see below |
| `ActivationProofs!ObservedTheorem` | under `Quiet`, with one operator, active means observed under this allowlist | `AllAges`, see below |
| `ActivationProofs!HookTypes` | types of the hook command; past its parse a hook has an allowlist of the session in hand | `HookTyped`: `Sound` says what each place of a hook knows of its event, its allowlist and its call |
| `ActivationProofs!ShutGateTheorem` | only what the classifier takes for a read passes behind a shut gate, for any tools and commands, whatever fails (`ReadsBehindShutGate`; that such calls change nothing is checked for the uses of `hooks`, and false of some others) | a call that is let through is `Justified`: what was not classified as a read met an open gate |
| `ActivationProofs!FailureTheorem` | once its input has been looked into, a hook of PreCompact lets the host compact or says nothing; and no other hook that failed lets anything pass, unless an input cannot be told for PreCompact (`"unreadable" \notin MixedUp`) | `Sound`, with `LetsCompact`; a failure keeps the event the hook has told so far |
| `ActivationProofs!HookGateTheorem` | the gate of `HookEntry` takes steps of `Gate` only | one step per action |
| `ActivationProofs!OpeningTheorem` | the gate opens only when, since the recovery, every source was what a call was directed at alone and that succeeded | `Witnessed`: what a successful call was directed at stays touched until its hook is done, and what is stored of it was touched (`EvidenceIsAimedAt`); a recovery, which starts afresh, runs alone (`Exclusive`) |
| `ImageServerProofs!ImageTypes` | types; every name tried is a candidate, every error one of the codes | one lemma for each group of steps on the record of a call |
| `ImageServerProofs!PaidOnceTheorem` | no request after one that was or may have been billed, or was rejected for what it is | `PaidInv`: while a call may still send, all its requests were answered `busy` |
| `ImageServerProofs!DeadlineTheorem` | a request is given up by the deadline, up to a reading of the files, and a retry has its minimum of time | `TimeInv`: between the decision to retry and the attempt, that time is left |
| `ImageServerProofs!OverwriteTheorem` | no file of the user or of another call is changed | `FillInv`: a target that is being filled is still the empty file its call created |
| `ImageServerProofs!ReportTheorem` | an ended call reports the files it left, and its code says what was paid | `ReportInv`: each image received is landed, failed or to do (`Accounted`), has exactly the file it is reported with (`Found`), and the fates of the requests bound the codes still possible (`Explained`) |
| `ImageServerProofs!NoPartTheorem` | an ended call leaves no `.part` file but those that could not be removed | `PartInv`: a `.part` file is the one its call is publishing, or that of a killed call |
| `ImageServerProofs!CountTheorem` | each step of a call lowers a count, bounded at the start, that no other step raises (`StepsAreCounted`): the part of `EveryCallEnds` that does not need fairness | the count adds up the requests still allowed, the names still to try and the images still to do; one case per action |
| `OpticalProofs!OpticalTypes` | types, and calls, prunings and damages within their bounds | one lemma for each group of steps |
| `OpticalProofs!HandedOutTheorem` | a digest that was handed out can be read until its original is pruned or damaged | `IInv`: an answer about to be given is readable unless it was disturbed |
| `OpticalProofs!RetrieveTheorem` | what is retrieved is the text, and is given when it was promised | what a reader has seen and was promised stays readable between its two reads |
| `OpticalProofs!PagesTheorem` | with one tier in use (`OneTier`) and fonts that fit on a page (`GlyphsFit`), the pages of an answer show its text, at its density and at their intended size | `Paged`: the pages of a call are the first pictures of its own text, and every cached picture is one of some text, so that its key tells the rest; a picture fits the box, and the box fits the tier |
| `OpticalProofs!CostTheorem` | under the same, what was drawn costs no more than was projected | `Paged` and the arithmetic of sums and ceilings, see below |
| `CompressProofs!CompressTypes` | types; no run goes past its last attempt | a fix is only asked for when an attempt is left |
| `CompressProofs!OriginalTheorem` | under `Quiet` the last text is in the file or its backup | `IInv`: runs with one backup do not overlap (`Exclusive`), and at each place a run knows which of file and backup has the text (`Knows`); a backup that is absent or another file's means that the file itself has its text |
| `CompressProofs!SuccessTheorem`, `FailureTheorem`, `RespectTheorem` | under `Quiet` success was checked, failure is undone, and no other backup is touched | the same `IInv` |

The argument about the index turns on what is *past*: contents a file had and has no
longer, which without returning contents (`~Returning`) it never has again. A
recorded file is either `Stored` (its chunks are in the store, and none of
another hash) or its record is past, and then no run will skip it: that is
`Sound`. A run keeps its manifest in memory sound, touches only points of the file it
has in hand, whose record, if there is one, is past, and enters the file when its
points are complete. The manifest on disk is an `Earlier` one, so it is sound at
every kill. The count comes in twice: with an empty store a count that agrees leaves
blank files only (`NothingCounted`; that is how a run recovers from a kill
between the reset and the binding), and when everything recorded is stored a
count that agrees leaves no room for another point (`NothingBeside`). `OneAtATime`
says that the lock is there or that there is only one agent. Both conditions are needed:
`index_returning` refutes `SkippedIsStored` without the one, and `Locking = FALSE`
with two agents refutes `SearchFindsOwn` and `ReadyIsExact` without the other.

The arguments about the activation are of one operator (`Alone`): the code takes no
lock, and with two TLC refutes both properties. `Calm`: while a command changes
files the host is closed and no hook runs, and what it is about to create is
on the list of what it would undo, and not there. `WayBack`: each file is what it would be
without the command, but for those on that list that still hold what it wrote, and
these would not be there; every directory is one that would be there or that it
made. `before` follows the user's edits, so this holds whatever he does meanwhile.
`AllAges`: an event counts as current only while the allowlist of its repository is
there, and an event of an earlier allowlist only where a marker was lost or the
allowlist has drifted; before the allowlist is removed its marker was written or
lost, and one that an enable may still undo has no events.

The arguments about the pages are arithmetic for every size of page, font and patch.
The sums of `Total` and the shrinking of `FitToTier` are functions that call
themselves; that they exist and what they bound is shown with a least
counterexample (`LeastOne`), as the natural numbers are well-founded. A page box
holds at most as many patches as the tier allows (`BoxFits`), so a picture within it
is not shrunk and costs its patches (`UpToBoxFits`, `PictureFits`). Several pages
cost no more than as many full ones, and a single page is no higher than the
lines the preflight counted (`CostOfPictures`). `GlyphsFit` says that a glyph of each
density fits on a page of each tier, as those of `constants.py` do by far. `OneTier` is
needed, as the table above shows: with two tiers TLC refutes both properties.

`Orderly` is the least under which the gate holds: one hook at a time, no call
asked about again, no background call, no turn id on PreCompact, at most one
fault. TLC finds a counterexample when any of them is dropped. The promise of the
journal needs less of the host: calls may be asked about in the background, turns
may have ids and faults may be many. But it needs `RoomFor(KeepCompleted)`, that
there are at most as many calls as the journal keeps completions (20 in the code),
and the doubt `RoomFor(KeepUnfinished)` (64): a full journal drops a record, and
what is dropped is replayed or no longer in doubt. The theorems are about
sessions below those limits; beyond them the tables above show what happens. The doubt
needs the other results too: a validation takes the records of the envelope it found
(`ValidateMoves`), a call that is allowed is not material while the gate is owed
(`GateInv`), and the session starts on the captured envelope, which has no epoch, or
after the one fault (`CaptureHolds`).

Only model-checked: what the theorems' conditions leave out.
Liveness under fairness (`Heals`, `EveryWaitEnds`, `DriftStopsHost`,
`EveryCallEnds`) is out of the prover's reach, and so is what tools do
(`ShutGateChangesNothing`); of the last, `CountTheorem` proves
that a call cannot go on for ever, and that one of its steps is always possible
is left to TLC. `LogOnlyGrows`, `StepsAreCounted` and `ReadsBehindShutGate` are
stated beside their proofs, and no run checks them.

## Plan

1. Journal, Lifecycle and their theorems; StateStore and its theorems;
   CodeIndex. (done)
2. `MemoryLog` and its theorems. (done)
3. `Activation` with the registry guard. (done)
4. `ImageServer` and its theorems. (done)
5. `OpticalPages`, `Optical` and their first theorems. (done)
6. `Compress` and its theorems. (done)
7. `Adapter` and `HookEntry`. (done)
8. `Budget`: `allocate_categories` against a reference definition over bounded
   inputs.
9. Theorems: the activation, the pages of optical compression, the store under
   `Purging = "alone"`, the hook command, the memory under kills and late waiters, the search, `Gate`. (done)

## Not modelled

Drawing, prompt and report texts, benchmarks, schema and contract
checks, the JSON of the hosts, git plumbing, and the skills, agents and prompts
themselves: pure computation or data. The integration validator is a one-shot
check. Qdrant, the embedding service, the image provider, the hosts, git and the
file system are external and appear only as what they answer.
