------------------------------ MODULE Lifecycle ------------------------------
(***************************************************************************)
(* The compaction lifecycle of context_compaction/lifecycle.py.            *)
(*                                                                         *)
(* A coding host (Codex, Claude) starts one operating-system process per   *)
(* hook event.  Each process runs LifecycleCore.handle_event: it looks the *)
(* event up in the event ring, reads current.json, decides, writes         *)
(* current.json and appends to the ring.  StateStore locks each of these   *)
(* operations by itself; nothing spans the read and the write.  A process  *)
(* is therefore modelled by its position between those operations, and     *)
(* one action is one store operation with the computation around it.       *)
(*                                                                         *)
(* The envelope in current.json carries the gate: after a compaction every *)
(* tool that is not a pure read is to be refused until the operator has    *)
(* validated that the sources were read again.                             *)
(***************************************************************************)
EXTENDS Integers, Sequences, FiniteSets, Journal

CONSTANTS
    Procs,          \* hook processes that may run at one time
    Class,          \* Class[t]: the tool class the adapter gives call t
    Fingerprint,    \* Fingerprint[t]: fingerprint of the input of call t
    Target,         \* Target[t]: the file call t reads, or NoPath
    NoPath,
    Paths,          \* files the task's pointers may name
    TaskFile,       \* the tasks.md among them, which carries the approval
    Contents,       \* contents a file may have
    Base,           \* Base[f]: contents of f in the HEAD commit
    PendingContents,\* contents of tasks.md that say "Approval: pending"
    Missing,        \* the file does not exist
    NoState,        \* current.json does not exist
    Background,     \* calls of background agents, made at any time
    Correlated,     \* does the host put a turn id on PreCompact?
    Redeliver,      \* may the host ask again about a refused call?
    KeepEvents,     \* length of the event ring
    MaxEpochs,      \* bound: compactions
    MaxTurns,       \* bound: host turns
    MaxEdits,       \* bound: edits of the files
    MaxFaults       \* bound: failed operations, killed hooks and purges

Uncorrelated == "fresh" \* the key of an event no later event can equal

ASSUME FilesAssumption ==
    /\ TaskFile \in Paths
    /\ NoPath \notin Paths
    /\ Missing \notin Contents
    /\ PendingContents \subseteq Contents
    /\ Base \in [Paths -> Contents \cup {Missing}]

ToolClass == {"read", "local_write", "external_side_effect", "unknown"}

ASSUME CallsAssumption ==
    /\ Class \in [Calls -> ToolClass]
    /\ Target \in [Calls -> Paths \cup {NoPath}]
    /\ DOMAIN Fingerprint = Calls
    /\ Background \subseteq Calls

ASSUME BoundsAssumption ==
    /\ KeepEvents \in Nat \ {0}
    /\ MaxEpochs \in Nat /\ MaxTurns \in Nat
    /\ MaxEdits \in Nat /\ MaxFaults \in Nat
    /\ Correlated \in BOOLEAN /\ Redeliver \in BOOLEAN

VARIABLES
    current,    \* current.json: an envelope or NoState
    events,     \* events.json: the keys of the recorded events
    disk,       \* the worktree
    hook,       \* the hook processes
    calls,      \* what the host knows of each tool call
    stage,      \* where the host stands in a compaction
    epochs,     \* compaction-sourced session starts so far
    turn,       \* the host's turn
    edits, faults,
    owed,       \* history: a compaction has not been validated since
    acked,      \* history: fingerprints whose completion was stored
    lost,       \* history: calls that were under way when state was purged
    seen        \* history: evidence ever stored

vars == <<current, events, disk, hook, calls, stage, epochs, turn,
          edits, faults, owed, acked, lost, seen>>
hostVars == <<calls, stage, epochs, turn>>
worldVars == <<disk, edits>>
historyVars == <<owed, acked, lost, seen>>

-----------------------------------------------------------------------------
(* The worktree as RepositoryResolver reports it.                          *)

Existing == {f \in Paths : disk[f] # Missing}

\* Pointers with their captured hashes.  A hash stands for the contents.
Pointers == [f \in Existing |-> disk[f]]

\* The repository snapshot lists the dirty paths and their status, not
\* their contents; HEAD and the branch stay put.
Repository ==
    [f \in Paths |-> CASE disk[f] = Base[f] -> "clean"
                       [] disk[f] = Missing -> "deleted"
                       [] OTHER -> "modified"]

TaskReasons == IF disk[TaskFile] = Missing THEN {"artifact_missing"} ELSE {}

Approval == IF disk[TaskFile] \in PendingContents THEN "pending" ELSE "none"

-----------------------------------------------------------------------------
(* Types.                                                                  *)

Material(t) == Class[t] # "read"

Gates == {"captured", "validation_required", "validated", "degraded"}
Reasons == {"artifact_missing", "source_changed", "action_ambiguous",
            "state_missing", "approval_unresolved", "state_contradictory"}
PointerMaps == UNION {[S -> Contents] : S \in SUBSET Paths}
SourceReads == [path : Paths, hash : Contents, epoch : 1..MaxEpochs]

\* recovery_epoch is 0 for None.  The envelope's event_id is left out: it
\* equals recovery_epoch whenever that is not None, and validate rejects an
\* envelope whose recovery_epoch is None.
Envelopes ==
    [epoch : 0..MaxEpochs,
     repository : [Paths -> {"clean", "modified", "deleted"}],
     pointers : PointerMaps,
     gate : Gates,
     reasons : SUBSET Reasons,
     approval : {"none", "pending"},
     actions : BoundedJournals,
     reads : SUBSET SourceReads]

ASSUME NoStateAssumption == NoState \notin Envelopes

Closed(env) == env.gate # "validated"

-----------------------------------------------------------------------------
(* Hook processes.  A process is                                           *)
(*   "read"   past the duplicate check, before current.json is read;       *)
(*   "check"  (validate) hashing the pointers one after the other;         *)
(*   "write"  about to write the envelope it computed;                     *)
(*   "record" decided: about to append to the ring and to answer.          *)

Kinds == {"PreCompact", "PostCompact", "SessionStart", "PreToolUse",
          "PostToolUse", "validate"}
Verdicts == {"undecided", "duplicate", "captured", "recorded", "resumed",
             "allowed", "denied", "degraded", "stale", "raised", "validated"}
NoCall == NoPath

Keys == {<<Uncorrelated>>}
        \cup {<<k, n>> : k \in {"PreCompact", "PostCompact"}, n \in 0..MaxTurns}
        \cup {<<"PreToolUse", t>> : t \in Calls}
        \cup {<<"PostToolUse", t, s>> : t \in Calls, s \in {"completed", "failed"}}

Idle == [pc |-> "idle", kind |-> "PostCompact", call |-> NoCall, status |-> "none",
         key |-> <<Uncorrelated>>, verdict |-> "undecided", out |-> NoState,
         fresh |-> NoState, named |-> 0, evidence |-> {}, todo |-> {}, bad |-> {},
         due |-> {}]

Processes ==
    [pc : {"idle", "read", "check", "write", "record"},
     kind : Kinds, call : Calls \cup {NoCall}, status : {"none", "completed", "failed"},
     key : Keys, verdict : Verdicts,
     out : Envelopes \cup {NoState}, fresh : Envelopes \cup {NoState},
     named : 0..MaxEpochs, evidence : SUBSET Paths, todo : SUBSET Paths,
     bad : SUBSET Reasons, due : SUBSET {"gate", "replay"}]

Stages == {"open", "compacting", "compacted", "restarting"}
CallStates == {"new", "asked", "denied", "running", "reporting", "over"}

TypeOK ==
    /\ current \in Envelopes \cup {NoState}
    /\ events \in Seq(Keys)
    /\ disk \in [Paths -> Contents \cup {Missing}]
    /\ hook \in [Procs -> Processes]
    /\ calls \in [Calls -> CallStates]
    /\ stage \in Stages
    /\ epochs \in 0..MaxEpochs /\ turn \in 0..MaxTurns
    /\ edits \in 0..MaxEdits /\ faults \in 0..MaxFaults
    /\ owed \in BOOLEAN
    /\ lost \subseteq Calls
    /\ seen \subseteq SourceReads

Init ==
    /\ current = NoState
    /\ events = <<>>
    /\ disk = Base
    /\ hook = [p \in Procs |-> Idle]
    /\ calls = [t \in Calls |-> "new"]
    /\ stage = "open" /\ epochs = 0 /\ turn = 0
    /\ edits = 0 /\ faults = 0
    /\ owed = FALSE /\ acked = {} /\ lost = {} /\ seen = {}

-----------------------------------------------------------------------------
(* The start of a process: handle_event up to the duplicate check.  A      *)
(* known key answers "duplicate" and continue, and records nothing.        *)
(* A read of the ring that fails there, after which a known event is       *)
(* handled as a new one, is not among the faults.                          *)

\* An event without turn or tool id gets a key of its own.
Recorded(key) ==
    key # <<Uncorrelated>> /\ \E i \in DOMAIN events : events[i] = key

Start(p, process) ==
    /\ hook[p].pc = "idle"
    /\ hook' = [hook EXCEPT ![p] =
           IF Recorded(process.key)
           THEN [process EXCEPT !.pc = "record", !.verdict = "duplicate"]
           ELSE [process EXCEPT !.pc = "read"]]
    /\ UNCHANGED <<current, events, worldVars, faults, historyVars>>

TurnKey(kind) == IF Correlated THEN <<kind, turn>> ELSE <<Uncorrelated>>

DeliverPreCompact(p) ==
    /\ stage = "open" /\ epochs < MaxEpochs
    /\ Start(p, [Idle EXCEPT !.kind = "PreCompact", !.key = TurnKey("PreCompact")])
    /\ stage' = "compacting"
    /\ UNCHANGED <<calls, epochs, turn>>

DeliverPostCompact(p) ==
    /\ stage = "compacted"
    /\ Start(p, [Idle EXCEPT !.kind = "PostCompact", !.key = TurnKey("PostCompact")])
    /\ UNCHANGED hostVars

\* Neither host puts a turn id on SessionStart.
DeliverSessionStart(p) ==
    /\ stage = "compacted"
    /\ Start(p, [Idle EXCEPT !.kind = "SessionStart", !.named = epochs + 1])
    /\ stage' = "restarting" /\ epochs' = epochs + 1
    /\ UNCHANGED <<calls, turn>>

DeliverPreToolUse(p, t) ==
    /\ stage = "open" \/ t \in Background
    /\ calls[t] = "new" \/ (Redeliver /\ calls[t] = "denied")
    /\ Start(p, [Idle EXCEPT !.kind = "PreToolUse", !.call = t,
                    !.key = <<"PreToolUse", t>>,
                    !.due = {r \in {"gate", "replay"} :
                                \/ r = "gate" /\ owed
                                \/ r = "replay" /\ Fingerprint[t] \in acked}])
    /\ calls' = [calls EXCEPT ![t] = "asked"]
    /\ UNCHANGED <<stage, epochs, turn>>

DeliverPostToolUse(p, t, status) ==
    /\ calls[t] = "running"
    /\ Start(p, [Idle EXCEPT !.kind = "PostToolUse", !.call = t, !.status = status,
                    !.key = <<"PostToolUse", t, status>>])
    /\ calls' = [calls EXCEPT ![t] = "reporting"]
    /\ UNCHANGED <<stage, epochs, turn>>

\* The operator names a recovery event and the files it has read again.
DeliverValidate(p, epoch, evidence) ==
    /\ Start(p, [Idle EXCEPT !.kind = "validate", !.named = epoch,
                    !.evidence = evidence])
    /\ UNCHANGED hostVars

-----------------------------------------------------------------------------
(* The handlers: read current.json and the worktree, decide.               *)

At(p, pc, kind) == hook[p].pc = pc /\ hook[p].kind = kind

Decide(p, verdict, out) ==
    hook' = [hook EXCEPT ![p].verdict = verdict, ![p].out = out,
                         ![p].pc = IF out = NoState THEN "record" ELSE "write"]

HandlerUnchanged == UNCHANGED <<current, events, worldVars, hostVars, faults, historyVars>>

\* Faulty variant: a capture over a validated envelope leaves it validated.
CapturedGateKept ==
    IF current # NoState /\ current.gate = "validated" THEN "validated" ELSE "captured"

CapturedGate == IF TaskReasons = {} THEN "captured" ELSE "degraded"

\* Faulty variant: the capture keeps what is unfinished only.
CapturedUnfinished ==
    IF current = NoState THEN EmptyJournal ELSE [current.actions EXCEPT !.done = <<>>]

CapturedActions == IF current = NoState THEN EmptyJournal ELSE current.actions

PreCompact(p) ==
    /\ At(p, "read", "PreCompact")
    /\ Decide(p, "captured",
          [epoch |-> 0, repository |-> Repository, pointers |-> Pointers,
           gate |-> CapturedGate, reasons |-> TaskReasons, approval |-> Approval,
           actions |-> CapturedActions, reads |-> {}])
    /\ HandlerUnchanged

PostCompact(p) ==
    /\ At(p, "read", "PostCompact")
    /\ Decide(p, "recorded", NoState)
    /\ HandlerUnchanged

MissingRecovery(epoch) ==
    [epoch |-> epoch, repository |-> Repository, pointers |-> Pointers,
     gate |-> "degraded", reasons |-> {"state_missing"}, approval |-> Approval,
     actions |-> EmptyJournal, reads |-> {}]

Resumed(epoch) ==
    LET journal == Doubt(current.actions)
        reasons == current.reasons
            \cup (IF Repository # current.repository THEN {"source_changed"} ELSE {})
            \cup (IF IsAmbiguous(journal) THEN {"action_ambiguous"} ELSE {})
        moved == "source_changed" \in reasons
    IN  [current EXCEPT
            !.epoch = epoch, !.reads = {}, !.actions = journal, !.reasons = reasons,
            !.gate = IF reasons = {} THEN "validation_required" ELSE "degraded",
            !.repository = IF moved THEN Repository ELSE @,
            !.pointers = IF moved THEN Pointers ELSE @]

SessionStart(p) ==
    /\ At(p, "read", "SessionStart")
    /\ Decide(p, "resumed",
          IF current = NoState THEN MissingRecovery(hook[p].named)
          ELSE Resumed(hook[p].named))
    /\ HandlerUnchanged

CompletedBefore(t) ==
    /\ current # NoState
    /\ \E i \in DOMAIN current.actions.done :
          LET done == current.actions.done[i]
          IN  Material(done) /\ Fingerprint[done] = Fingerprint[t]

\* Faulty variant: a captured envelope does not gate before SessionStart.
GateClosedOnResume == current # NoState /\ current.gate \in {"validation_required", "degraded"}

GateClosed == current # NoState /\ Closed(current)

\* The envelope of a session that was never captured: nothing to validate.
RuntimeEnvelope ==
    [epoch |-> 0, repository |-> Repository, pointers |-> Pointers,
     gate |-> "validated", reasons |-> {}, approval |-> Approval,
     actions |-> EmptyJournal, reads |-> {}]

PreToolUse(p) ==
    LET t == hook[p].call
        env == IF current = NoState THEN RuntimeEnvelope ELSE current
    IN  /\ At(p, "read", "PreToolUse")
        /\ IF CompletedBefore(t) \/ (GateClosed /\ Material(t))
           THEN Decide(p, "denied", NoState)
           ELSE Decide(p, "allowed", [env EXCEPT !.actions = Begin(@, t)])
        /\ HandlerUnchanged

PostToolUse(p) ==
    LET t == hook[p].call
        completed == hook[p].status = "completed"
        file == Target[t]
        evidence == completed /\ ~Material(t) /\ file # NoPath /\ current.epoch # 0
        journal == IF completed THEN Complete(current.actions, t)
                   ELSE Fail(current.actions, t)
        read == [path |-> file, hash |-> disk[file], epoch |-> current.epoch]
        replaced == {r \in current.reads : r.path = file /\ r.epoch = current.epoch}
    IN  /\ At(p, "read", "PostToolUse")
        /\ \/ current = NoState /\ Decide(p, "recorded", NoState)
           \/ /\ current # NoState /\ ~evidence
              /\ Decide(p, "recorded", [current EXCEPT !.actions = journal])
           \/ /\ current # NoState /\ evidence /\ disk[file] # Missing
              /\ Decide(p, "recorded",
                    [current EXCEPT !.actions = journal,
                                    !.reads = (@ \ replaced) \cup {read}])
           \* hash_relative_path raises: the completion is dropped as well
           \/ /\ current # NoState /\ evidence /\ disk[file] = Missing
              /\ Decide(p, "degraded", NoState)
        /\ HandlerUnchanged

-----------------------------------------------------------------------------
(* validate: each pointer is hashed by itself, so the worktree may change  *)
(* between two of them and between the last of them and the write.         *)

Stale(p) == current = NoState \/ hook[p].named = 0 \/ current.epoch # hook[p].named

EnvelopeFaults ==
    (IF current.approval = "pending" THEN {"approval_unresolved"} ELSE {})
    \cup (IF IsAmbiguous(current.actions) THEN {"action_ambiguous"} ELSE {})

ValidateBegin(p) ==
    /\ At(p, "read", "validate")
    /\ IF Stale(p)
       THEN Decide(p, "stale", NoState)
       ELSE hook' = [hook EXCEPT
                ![p].pc = "check", ![p].out = current, ![p].todo = DOMAIN current.pointers,
                ![p].fresh = [current EXCEPT !.repository = Repository,
                                             !.pointers = Pointers],
                ![p].bad = EnvelopeFaults]
    /\ HandlerUnchanged

\* Faulty variant: naming the file is enough.
PointerFaultNamed(env, evidence, f) ==
    IF disk[f] = Missing THEN {"artifact_missing"}
    ELSE IF disk[f] # env.pointers[f] THEN {"source_changed"}
    ELSE IF f \in evidence THEN {} ELSE {"artifact_missing"}

\* Faulty variant: any read of the file is enough, whatever it hashed to.
PointerFaultAnyRead(env, evidence, f) ==
    IF disk[f] = Missing THEN {"artifact_missing"}
    ELSE IF disk[f] # env.pointers[f] THEN {"source_changed"}
    ELSE IF f \in evidence /\ \E r \in env.reads : r.path = f
         THEN {} ELSE {"artifact_missing"}

\* What is wrong with pointer f of the envelope, given what the operator names.
PointerFault(env, evidence, f) ==
    IF disk[f] = Missing THEN {"artifact_missing"}
    ELSE IF disk[f] # env.pointers[f] THEN {"source_changed"}
    ELSE IF /\ f \in evidence
            /\ [path |-> f, hash |-> disk[f], epoch |-> env.epoch] \in env.reads
         THEN {} ELSE {"artifact_missing"}

ValidateCheck(p, f) ==
    /\ At(p, "check", "validate") /\ f \in hook[p].todo
    /\ hook' = [hook EXCEPT
           ![p].todo = @ \ {f},
           ![p].bad = @ \cup PointerFault(hook[p].out, hook[p].evidence, f)]
    /\ HandlerUnchanged

ValidateConclude(p) ==
    LET bad == hook[p].bad
        env == IF "source_changed" \in bad THEN hook[p].fresh ELSE hook[p].out
    IN  /\ At(p, "check", "validate") /\ hook[p].todo = {}
        /\ IF bad = {}
           THEN Decide(p, "validated", [env EXCEPT !.gate = "validated", !.reasons = {}])
           ELSE Decide(p, "degraded", [env EXCEPT !.gate = "degraded", !.reasons = bad])
        /\ HandlerUnchanged

-----------------------------------------------------------------------------
(* StateStore.write_current, and the end of a process: append_event, then  *)
(* the answer to the host.                                                 *)

Stores(p, kind) == hook[p].kind = kind /\ hook[p].verdict = "recorded"

WriteCurrent(p) ==
    LET t == hook[p].call IN
    /\ hook[p].pc = "write"
    /\ current' = hook[p].out
    /\ hook' = [hook EXCEPT ![p].pc = "record", ![p].out = NoState, ![p].fresh = NoState]
    /\ owed' = (owed /\ hook[p].verdict # "validated")
    /\ acked' = IF Stores(p, "PostToolUse") /\ hook[p].status = "completed" /\ Material(t)
                THEN acked \cup {Fingerprint[t]} ELSE acked
    /\ seen' = IF Stores(p, "PostToolUse")
               THEN seen \cup {r \in hook[p].out.reads : r.path = Target[t]}
               ELSE seen
    /\ UNCHANGED <<events, worldVars, hostVars, faults, lost>>

Continues(p) == hook[p].verdict \in {"allowed", "duplicate"}

\* What the host does with the answer.  PreCompact never holds compaction up.
Answer(p) ==
    LET t == hook[p].call
        kind == hook[p].kind
    IN  /\ calls' = CASE kind = "PreToolUse" ->
                           [calls EXCEPT ![t] = IF Continues(p) THEN "running" ELSE "denied"]
                      [] kind = "PostToolUse" -> [calls EXCEPT ![t] = "over"]
                      [] OTHER -> calls
        /\ stage' = CASE kind = "PreCompact" -> "compacted"
                      [] kind = "SessionStart" -> "open"
                      [] OTHER -> stage
        /\ owed' = (owed \/ kind = "PreCompact")
        /\ hook' = [hook EXCEPT ![p] = Idle]
        /\ UNCHANGED <<current, worldVars, epochs, turn, acked, lost, seen>>

Finish(p) ==
    /\ hook[p].pc = "record"
    /\ events' = IF hook[p].verdict \in {"duplicate", "stale", "raised"} \/ Recorded(hook[p].key)
                 THEN events
                 ELSE LastN(Append(events, hook[p].key), KeepEvents)
    /\ Answer(p)
    /\ UNCHANGED faults

-----------------------------------------------------------------------------
(* Faults, the user and the host's clock.                                  *)

Fault == faults < MaxFaults /\ faults' = faults + 1

\* Git, the worktree or the store raises in the handler: no write.  For an
\* event the decision is "degraded"; validate does not catch the store's errors.
HandlerFails(p) ==
    /\ Fault
    /\ hook[p].pc \in {"read", "check", "write"}
    /\ hook' = [hook EXCEPT ![p] =
           [@ EXCEPT !.pc = "record", !.out = NoState, !.fresh = NoState,
                     !.verdict = IF hook[p].kind = "validate" THEN "raised" ELSE "degraded"]]
    /\ UNCHANGED <<current, events, worldVars, hostVars, historyVars>>

\* validate catches the resolver's errors: no pointer is looked at, and the
\* envelope is written back degraded.
ResolveFails(p) ==
    /\ Fault
    /\ At(p, "read", "validate") /\ ~Stale(p)
    /\ hook' = [hook EXCEPT
           ![p].pc = "check", ![p].out = current, ![p].todo = {}, ![p].fresh = current,
           ![p].bad = {"state_contradictory"} \cup EnvelopeFaults]
    /\ UNCHANGED <<current, events, worldVars, hostVars, historyVars>>

\* append_event raises and _safe_record swallows it.
RecordFails(p) ==
    /\ Fault
    /\ hook[p].pc = "record"
    /\ UNCHANGED events
    /\ Answer(p)

\* The process is killed.  The host does not run a call it got no answer for.
Killed(p) ==
    /\ Fault
    /\ hook[p].pc # "idle"
    /\ LET t == hook[p].call
           kind == hook[p].kind
       IN  /\ calls' = CASE kind = "PreToolUse" -> [calls EXCEPT ![t] = "denied"]
                         [] kind = "PostToolUse" -> [calls EXCEPT ![t] = "over"]
                         [] OTHER -> calls
           /\ stage' = CASE kind = "PreCompact" -> "compacted"
                         [] kind = "SessionStart" -> "open"
                         [] OTHER -> stage
           /\ owed' = (owed \/ kind = "PreCompact")
    /\ hook' = [hook EXCEPT ![p] = Idle]
    /\ UNCHANGED <<current, events, worldVars, epochs, turn, acked, lost, seen>>

\* The operator disposes of the state (purge-state); the gate goes with it.
Purge ==
    /\ Fault
    /\ current # NoState
    /\ current' = NoState /\ events' = <<>>
    /\ owed' = FALSE /\ acked' = {}
    /\ lost' = lost \cup {t \in Calls : calls[t] # "new"}
    /\ UNCHANGED <<hook, worldVars, hostVars, seen>>

EditSource(f, c) ==
    /\ edits < MaxEdits /\ edits' = edits + 1
    /\ disk[f] # c /\ disk' = [disk EXCEPT ![f] = c]
    /\ UNCHANGED <<current, events, hook, hostVars, faults, historyVars>>

NewTurn ==
    /\ stage = "open" /\ turn < MaxTurns /\ turn' = turn + 1
    /\ UNCHANGED <<current, events, hook, worldVars, calls, stage, epochs, faults, historyVars>>

Deliver(p) ==
    \/ DeliverPreCompact(p) \/ DeliverPostCompact(p) \/ DeliverSessionStart(p)
    \/ \E t \in Calls : DeliverPreToolUse(p, t)
    \/ \E t \in Calls, s \in {"completed", "failed"} : DeliverPostToolUse(p, t, s)
    \/ \E e \in 1..epochs, ev \in SUBSET Paths : DeliverValidate(p, e, ev)

Handle(p) ==
    \/ PreCompact(p) \/ PostCompact(p) \/ SessionStart(p)
    \/ PreToolUse(p) \/ PostToolUse(p)
    \/ ValidateBegin(p) \/ (\E f \in Paths : ValidateCheck(p, f)) \/ ValidateConclude(p)

Run(p) == Handle(p) \/ WriteCurrent(p) \/ Finish(p)

Disturb(p) == HandlerFails(p) \/ ResolveFails(p) \/ RecordFails(p) \/ Killed(p)

Next ==
    \/ \E p \in Procs : Deliver(p) \/ Run(p) \/ Disturb(p)
    \/ Purge \/ NewTurn
    \/ \E f \in Paths, c \in Contents \cup {Missing} : EditSource(f, c)

Spec == Init /\ [][Next]_vars

-----------------------------------------------------------------------------
(* Properties.                                                             *)

LetRun(t) == calls[t] = "asked" /\ calls'[t] = "running"
Due(t, what) == \E p \in Procs : /\ hook[p].kind = "PreToolUse" /\ hook[p].call = t
                                 /\ what \in hook[p].due

\* The host never lets a material call run that it asked about while a
\* compaction was waiting for validation and still is (the gate of
\* _pre_tool_use, over everything PreCompact, SessionStart, PostToolUse and
\* validate write to the envelope it reads).
GateHolds ==
    [][\A t \in Calls : LetRun(t) /\ Material(t) => ~(owed /\ Due(t, "gate"))]_vars

\* A call is never let run if, when it was asked about, a material call with
\* the same input had been stored as completed (the journal's promise:
\* completed non-idempotent actions are not replayed).
NoReplay ==
    [][\A t \in Calls : LetRun(t) => ~(Due(t, "replay") /\ Fingerprint[t] \in acked)]_vars

Validates(p) == hook[p].pc = "write" /\ hook[p].verdict = "validated"

\* The gate is only ever opened by a validation all of whose pointers the
\* operator named and a read call reported in this very recovery, with the
\* contents the pointer captured.
EvidenceBehindValidation ==
    \A p \in Procs : Validates(p) =>
        LET env == hook[p].out IN
        \A f \in DOMAIN env.pointers :
            /\ f \in hook[p].evidence
            /\ [path |-> f, hash |-> env.pointers[f], epoch |-> env.epoch] \in seen

\* The gate is not opened while a material call from before the compaction
\* is still running: its outcome is in doubt until PostToolUse reports it.
DoubtBlocksValidation ==
    \A p \in Procs : Validates(p) /\ owed /\ stage = "open" =>
        \A t \in Calls \ lost : Material(t) => calls[t] # "running"

\* Once PreCompact has answered and nothing failed, the gate is closed:
\* every compaction is captured.
CompactionIsCaptured == stage = "compacted" /\ faults = 0 => GateClosed

\* Each call has one record, so the removal of repeated ids in
\* _bounded_actions never drops one.
JournalDistinct == current # NoState => Distinct(current.actions)

-----------------------------------------------------------------------------
(* The gate the envelope stands for.                                       *)

GateOf(env) ==
    CASE env = NoState -> "none"
      [] env # NoState /\ ~Closed(env) -> "open"
      [] env # NoState /\ Closed(env) /\ env.epoch = 0 -> "captured"
      [] env # NoState /\ Closed(env) /\ env.epoch # 0 -> "closed"

WantedOf(env) ==
    IF env = NoState THEN {}
    ELSE {[path |-> f, hash |-> env.pointers[f]] : f \in DOMAIN env.pointers}

\* Reads of an earlier recovery do not count.
ReadsOf(env) ==
    IF env = NoState THEN {}
    ELSE {[path |-> r.path, hash |-> r.hash] : r \in {x \in env.reads : x.epoch = env.epoch}}

Promised == INSTANCE Gate WITH gate <- GateOf(current), wanted <- WantedOf(current),
                               reads <- ReadsOf(current)

\* What is stored keeps the gate's promise: a capture or a resumption shuts it
\* and drops what was read before, and only a validation opens it, once every
\* pointer was read in this recovery with the contents the pointer holds.
KeepsGate == Promised!Spec
=============================================================================
