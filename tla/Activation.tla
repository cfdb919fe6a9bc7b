----------------------------- MODULE Activation -----------------------------
(***************************************************************************)
(* Activation of the pilot for one host (context_compaction/activation.py):*)
(* operators plan, enable, run and disable from the command line, hooks of *)
(* the host record events, the host writes its own files, users edit.      *)
(* A command is a sequence of file system steps; it may fail or be killed  *)
(* between any two.  Under Quiet, files are enabled and disabled while the *)
(* host is closed, users do not edit between a check and the write that    *)
(* relies on it, and no other session of Claude runs beside a guarded one. *)
(***************************************************************************)
EXTENDS RegistryGuard

CONSTANTS
    Operators, Hooks,   \* processes
    Repos,              \* repositories the pilot may be planned for
    None,
    Faulty,             \* what may fail
    Quiet,              \* nobody meddles with a command, see below
    MaxFaults, MaxEdits \* bounds

Failures == {"mkdir", "write", "chmod", "unlink", "marker", "event", "terminate",
               "kill"}

ASSUME ActivationAssumption ==
    /\ None \notin Repos
    /\ Repos \cap {"absent", "profile", "trusted", "foreign", "drifted"} = {}
    /\ Faulty \subseteq Failures
    /\ Quiet \in BOOLEAN
    /\ MaxFaults \in Nat /\ MaxEdits \in Nat

VARIABLES
    kind,       \* the host
    file,       \* contents of the two owned files
    dirs,       \* directories that exist
    observed,   \* per repository, its latest event in the journal
    unmarked,   \* repositories whose disable marker was lost
    hook,       \* hook processes
    op,         \* operators' commands
    session,    \* does a host process run?
    registry,   \* Claude's registry
    unseen,     \* has its signature changed since it was last taken?
    verdict,    \* what the guard recorded last of the latest session
    faults, edits

disk == <<kind, file, dirs>>
journal == <<observed, unmarked, hook>>
host == <<session, registry, unseen, verdict>>
bounds == <<faults, edits>>
vars == <<disk, journal, op, host, bounds>>

\* The first file is the profile (Codex) or the overlay (Claude), the same
\* for every repository; the second the allowlist, which names the repository.
Files == {1, 2}
Home(i) == IF kind = "codex" /\ i = 1 THEN "home" ELSE "pilot"
Dirs == {"home", "pilot"}

\* "trusted" is the profile with the trust section Codex appends to it,
\* "foreign" a file of somebody else, "drifted" an owned file that was changed.
Contents == {"absent", "profile", "trusted", "foreign", "drifted"} \cup Repos

\* The latest event: none, a disable marker, or an event of a hook that ran
\* under the allowlist that is there now ("current") or an earlier one.
Latest == {"none", "disabled", "current", "old"}

Commands == {"idle", "planned", "enable", "write", "undo", "disable", "remove",
             "capture", "launch", "wait", "look", "stop", "report", "judge"}

Untouched == [file |-> [i \in Files |-> "absent"], dirs |-> {}]

Idle == [pc |-> "idle", repo |-> None, next |-> 1, mine |-> {}, made |-> {},
         approved |-> [i \in Files |-> "none"], before |-> Untouched, base |-> FirstRegistry]

NoHook == [repo |-> None, age |-> "none"]
Verdicts == {"none", "captured", "validated", "rejected"}

TypeOK ==
    /\ kind \in {"codex", "claude"}
    /\ file \in [Files -> Contents] /\ dirs \subseteq Dirs
    /\ \A i \in Files : file[i] # "absent" => Home(i) \in dirs
    /\ observed \in [Repos -> Latest] /\ unmarked \subseteq Repos
    /\ hook \in [Hooks -> [repo : Repos \cup {None}, age : Latest]]
    /\ \A o \in Operators :
          /\ op[o].pc \in Commands /\ op[o].repo \in Repos \cup {None}
          /\ op[o].next \in 1..3
          /\ op[o].mine \subseteq Files /\ op[o].made \subseteq Dirs
          /\ op[o].base \in Registries
    /\ session \in BOOLEAN /\ unseen \in BOOLEAN /\ registry \in Registries
    /\ verdict \in Verdicts
    /\ faults \in 0..MaxFaults /\ edits \in 0..MaxEdits

Init ==
    /\ kind \in {"codex", "claude"}
    /\ file = [i \in Files |-> "absent"] /\ dirs \in SUBSET {Home(i) : i \in Files}
    /\ observed = [r \in Repos |-> "none"] /\ unmarked = {}
    /\ hook = [h \in Hooks |-> NoHook]
    /\ op = [o \in Operators |-> Idle]
    /\ session = FALSE /\ registry = FirstRegistry /\ unseen = FALSE
    /\ verdict = "none"
    /\ faults = 0 /\ edits = 0

-----------------------------------------------------------------------------
(* Helpers.                                                                *)

At(o, pc) == op[o].pc = pc
Goto(o, pc) == op' = [op EXCEPT ![o].pc = pc]
End(o) == op' = [op EXCEPT ![o] = Idle]

Fault(what) == what \in Faulty /\ faults < MaxFaults /\ faults' = faults + 1
NoFault == UNCHANGED bounds

\* The host is closed and its hooks are done.
Closed == ~session /\ \A h \in Hooks : hook[h] = NoHook

\* An event recorded under an allowlist that goes away is an old one.
Aged(age) == IF age = "current" THEN "old" ELSE age

Put(i, content) ==
    /\ file' = [file EXCEPT ![i] = content]
    /\ observed' = IF i = 1 THEN observed ELSE [r \in Repos |-> Aged(observed[r])]
    /\ hook' = IF i = 1 THEN hook ELSE [h \in Hooks |-> [hook[h] EXCEPT !.age = Aged(@)]]

Owned(i) == file[i] \notin {"absent", "foreign", "drifted"}
Expected(r, i) == IF i = 1 THEN "profile" ELSE r

\* _planned_mutation
Mutation(r, i) ==
    IF file[i] = "absent" THEN "create"
    ELSE IF file[i] = Expected(r, i) \/ (i = 1 /\ file[i] = "trusted") THEN "none"
    ELSE "conflict"

Mutations(r) == [i \in Files |-> Mutation(r, i)]

\* The state plan finds: all there, all that is missing can be made, or not.
InPlace(r) == \A i \in Files : Mutation(r, i) = "none"
Ready(r) == ~InPlace(r) /\ \A i \in Files : Mutation(r, i) # "conflict"

\* plan and status call the activation of r active.
Active(r) == InPlace(r) /\ observed[r] \notin {"none", "disabled"}

-----------------------------------------------------------------------------
(* enable                                                                  *)

\* The operator looks at the plan and approves its hash.
Plan(o, r) ==
    /\ At(o, "idle") /\ Ready(r)
    /\ op' = [op EXCEPT ![o] = [Idle EXCEPT !.pc = "planned", !.repo = r,
                                            !.approved = Mutations(r)]]
    /\ UNCHANGED <<disk, journal, host, bounds>>

\* The command plans again; the hash must be the approved one.
Enable(o) ==
    /\ At(o, "planned") /\ (Quiet => Closed)
    /\ IF Mutations(op[o].repo) = op[o].approved
       THEN op' = [op EXCEPT ![o].pc = "enable",
                             ![o].before = [file |-> file, dirs |-> dirs]]
       ELSE End(o)
    /\ UNCHANGED <<disk, journal, host, bounds>>

\* Faulty variant: the approved plan is not checked again.
DecisionFromPlan(o) == op[o].approved[op[o].next]

\* Each target is looked at again before it is written.
Decision(o) == Mutation(op[o].repo, op[o].next)

EnableFile(o) ==
    LET i == op[o].next IN
    /\ At(o, "enable") /\ i \in Files
    /\ \/ /\ Decision(o) = "none"
          /\ op' = [op EXCEPT ![o].next = i + 1]
          /\ dirs' = dirs /\ NoFault
       \/ /\ Decision(o) = "conflict"
          /\ Goto(o, "undo") /\ dirs' = dirs /\ NoFault
       \/ /\ Decision(o) = "create"
          /\ \/ /\ dirs' = dirs \cup {Home(i)} /\ NoFault
                /\ op' = [op EXCEPT ![o].pc = "write", ![o].mine = @ \cup {i},
                                    ![o].made = @ \cup ({Home(i)} \ dirs)]
             \/ /\ Fault("mkdir") /\ Goto(o, "undo")
                /\ UNCHANGED <<dirs, edits>>
    /\ UNCHANGED <<kind, file, journal, host>>

\* _atomic_write: the content replaces whatever has the name by now.  It may
\* fail before that, or after (the final chmod).
WriteFile(o) ==
    LET i == op[o].next IN
    /\ At(o, "write")
    /\ \/ /\ Home(i) \in dirs /\ Put(i, Expected(op[o].repo, i))
          /\ \/ NoFault /\ op' = [op EXCEPT ![o].pc = "enable", ![o].next = i + 1]
             \/ Fault("chmod") /\ Goto(o, "undo") /\ edits' = edits
       \/ /\ \/ Home(i) \notin dirs /\ NoFault
             \/ Fault("write") /\ edits' = edits
          /\ Goto(o, "undo") /\ UNCHANGED <<file, observed, hook>>
    /\ UNCHANGED <<kind, dirs, unmarked, host>>

Enabled(o) ==
    /\ At(o, "enable") /\ op[o].next = 3
    /\ End(o)
    /\ UNCHANGED <<disk, journal, host, bounds>>

\* Faulty variant: a file counts as created when its writing has succeeded.
UndoesWritten(o, i) == i < op[o].next /\ file[i] = Expected(op[o].repo, i)

\* A created file is removed if it is still what was written.
Undoes(o, i) == file[i] = Expected(op[o].repo, i)

\* Created files are removed, the last one first.
UndoFile(o) ==
    /\ At(o, "undo")
    /\ \E i \in op[o].mine :
          /\ \A j \in op[o].mine : j <= i
          /\ \/ /\ NoFault
                /\ IF Undoes(o, i) THEN Put(i, "absent") ELSE UNCHANGED <<file, observed, hook>>
                /\ op' = [op EXCEPT ![o].mine = @ \ {i}]
             \/ /\ Fault("unlink") /\ UNCHANGED <<edits, file, observed, hook>>
                /\ Undoes(o, i) /\ End(o)
    /\ UNCHANGED <<kind, dirs, unmarked, host>>

\* Faulty variant: the directories are removed with what is in them.
EmptyAnyway(d) == TRUE

Empty(d) == \A i \in Files : Home(i) = d => file[i] = "absent"

\* Then the directories it made, those that are empty.
UndoDirs(o) ==
    /\ At(o, "undo") /\ op[o].mine = {}
    /\ dirs' = dirs \ {d \in op[o].made : Empty(d)}
    /\ End(o)
    /\ UNCHANGED <<kind, file, journal, host, bounds>>

-----------------------------------------------------------------------------
(* disable                                                                 *)

\* Faulty variant: the marker is forgotten.
UnmarkedStart(there) == "remove"

DisableStart(there) == IF 2 \in there THEN "disable" ELSE "remove"

\* Refused if a file is not the pilot's; nothing to do if there is none.
Disable(o) ==
    LET there == {i \in Files : file[i] # "absent"} IN
    /\ At(o, "idle") /\ (Quiet => Closed)
    /\ there # {} /\ \A i \in there : Owned(i)
    /\ op' = [op EXCEPT ![o] = [Idle EXCEPT !.pc = DisableStart(there), !.mine = there]]
    /\ UNCHANGED <<disk, journal, host, bounds>>

\* The marker goes to the journal of the repository the allowlist names.  A
\* failure to write it is passed over; a repository without events needs none.
Mark(o) ==
    /\ At(o, "disable")
    /\ IF ~Owned(2)
       THEN End(o) /\ NoFault /\ UNCHANGED <<observed, unmarked>>
       ELSE /\ Goto(o, "remove")
            /\ \/ /\ NoFault
                  /\ observed' = [observed EXCEPT ![file[2]] =
                         IF @ = "none" THEN @ ELSE "disabled"]
                  /\ unmarked' = unmarked \ {file[2]}
               \/ /\ Fault("marker") /\ UNCHANGED <<edits, observed>>
                  /\ unmarked' = unmarked \cup {file[2]}
    /\ UNCHANGED <<disk, hook, host>>

\* The files are unlinked without another look, the allowlist last.
Remove(o) ==
    /\ At(o, "remove")
    /\ \E i \in op[o].mine :
          /\ \A j \in op[o].mine : i <= j
          /\ \/ /\ file[i] # "absent" /\ Put(i, "absent") /\ NoFault
                /\ IF op[o].mine = {i} THEN End(o)
                   ELSE op' = [op EXCEPT ![o].mine = @ \ {i}]
             \/ /\ \/ file[i] = "absent" /\ NoFault
                   \/ Fault("unlink") /\ edits' = edits
                /\ End(o) /\ UNCHANGED <<file, observed, hook>>
    /\ UNCHANGED <<kind, dirs, unmarked, host>>

-----------------------------------------------------------------------------
(* run: Codex is just started, Claude under the guard of its registry.     *)

Guarding == {"capture", "launch", "wait", "look", "stop", "report", "judge"}

\* The model has one session at a time.
Run(o, r) ==
    /\ At(o, "idle") /\ InPlace(r)
    /\ ~session /\ \A q \in Operators : op[q].pc \notin Guarding
    /\ verdict' = "none"
    /\ op' = [op EXCEPT ![o] = [Idle EXCEPT !.pc =
           IF kind = "codex" THEN "wait" ELSE "capture"]]
    /\ session' = (kind = "codex")
    /\ UNCHANGED <<disk, journal, registry, unseen, bounds>>

\* The baseline is recorded before the host starts, or the run is off.
Capture(o) ==
    /\ At(o, "capture")
    /\ \/ /\ Capturable(registry) /\ NoFault /\ verdict' = "captured"
          /\ op' = [op EXCEPT ![o].pc = "launch", ![o].base = registry]
       \/ /\ ~Capturable(registry) /\ NoFault /\ verdict' = "rejected"
          /\ End(o)
       \/ /\ Fault("event") /\ UNCHANGED <<edits, verdict>>
          /\ End(o)
    /\ UNCHANGED <<disk, journal, session, registry, unseen>>

\* The signature of the registry is taken and the process started.
Launch(o) ==
    /\ At(o, "launch")
    /\ session' = TRUE /\ unseen' = FALSE
    /\ Goto(o, "wait")
    /\ UNCHANGED <<disk, journal, registry, verdict, bounds>>

\* One turn of the loop: has the process ended, has the signature changed?
Poll(o) ==
    /\ At(o, "wait")
    /\ \/ ~session /\ kind = "codex" /\ End(o)
       \/ ~session /\ kind = "claude" /\ Goto(o, "judge")
       \/ session /\ unseen /\ Goto(o, "look")
    /\ unseen' = FALSE
    /\ UNCHANGED <<disk, journal, session, registry, verdict, bounds>>

Look(o) ==
    /\ At(o, "look")
    /\ Goto(o, IF Accepts(op[o].base, registry, FALSE) THEN "wait" ELSE "stop")
    /\ UNCHANGED <<disk, journal, host, bounds>>

\* _terminate_exact_process waits, kills and waits again; it may give up.
Stop(o) ==
    /\ At(o, "stop")
    /\ \/ session' = FALSE /\ NoFault /\ Goto(o, "report")
       \/ /\ session /\ Fault("terminate") /\ UNCHANGED <<edits, session>>
          /\ End(o)
    /\ UNCHANGED <<disk, journal, registry, unseen, verdict>>

\* The verdict is recorded: after a stop, or on the final registry.
Judge(o) ==
    /\ op[o].pc \in {"report", "judge"}
    /\ \/ LET good == At(o, "judge") /\ Accepts(op[o].base, registry, TRUE) IN
          /\ verdict' = IF good THEN "validated" ELSE "rejected"
          /\ End(o) /\ NoFault
       \/ Fault("event") /\ UNCHANGED <<edits, verdict>> /\ End(o)
    /\ UNCHANGED <<disk, journal, session, registry, unseen>>

-----------------------------------------------------------------------------
(* The others: the host, its hooks, the user, the killing of a command.    *)

\* Registry files the next write may leave: it counts a startup, enters the
\* project, changes a protected field, or stops half way.
NextRegistries ==
    {r \in Registries :
        \/ r = [registry EXCEPT !.torn = TRUE]
        \/ r = [registry EXCEPT !.torn = FALSE, !.startups = @ + 1]
        \/ r = [registry EXCEPT !.torn = FALSE, !.target = "trusted"]
        \/ r = [registry EXCEPT !.torn = FALSE, !.target = IF @ = "absent" THEN "wrong" ELSE @]
        \/ \E f \in Fields : r = [registry EXCEPT !.torn = FALSE, !.changed =
                                      IF f \in @ THEN @ \ {f} ELSE @ \cup {f}]}
    \ {registry}

HostWrites ==
    /\ kind = "claude" /\ session
    /\ registry' \in NextRegistries /\ unseen' = TRUE
    /\ UNCHANGED <<disk, journal, op, session, verdict, bounds>>

\* Another session of Claude, started without the pilot.
OthersWrite ==
    /\ kind = "claude" /\ edits < MaxEdits /\ edits' = edits + 1
    /\ Quiet => \A o \in Operators : op[o].pc \notin Guarding
    /\ registry' \in NextRegistries /\ unseen' = session
    /\ UNCHANGED <<disk, journal, op, session, verdict, faults>>

\* Codex records the user's trust in the hooks.
HostTrusts ==
    /\ kind = "codex" /\ session /\ file[1] = "profile"
    /\ file' = [file EXCEPT ![1] = "trusted"]
    /\ UNCHANGED <<kind, dirs, journal, op, host, bounds>>

HostEnds ==
    /\ session /\ session' = FALSE
    /\ UNCHANGED <<disk, journal, op, registry, unseen, verdict, bounds>>

\* A hook loads the allowlist, and records its event some time later.
HookStarts(h) ==
    /\ session /\ hook[h] = NoHook /\ file[2] \in Repos
    /\ hook' = [hook EXCEPT ![h] = [repo |-> file[2], age |-> "current"]]
    /\ UNCHANGED <<disk, observed, unmarked, op, host, bounds>>

HookEnds(h) ==
    /\ hook[h] # NoHook
    /\ hook' = [hook EXCEPT ![h] = NoHook]
    /\ observed' \in {observed, [observed EXCEPT ![hook[h].repo] = hook[h].age]}
    /\ UNCHANGED <<disk, unmarked, op, host, bounds>>

\* A command is about to write or remove file i on the strength of an
\* earlier look at it.
Relies(o, i) ==
    \/ At(o, "write") /\ i = op[o].next
    \/ At(o, "disable") /\ i \in op[o].mine /\ i # 2
    \/ At(o, "remove") /\ i \in op[o].mine

\* Somebody puts a file of his own where a target would be, takes it away or
\* changes an owned file.  What a failed enable should leave follows him.
UserEdits(i) ==
    /\ edits < MaxEdits /\ edits' = edits + 1
    /\ Quiet => \A o \in Operators : ~Relies(o, i)
    /\ Put(i, IF file[i] = "absent" THEN "foreign"
              ELSE IF Owned(i) THEN "drifted" ELSE "absent")
    /\ Quiet => file[i] # "drifted"
    /\ dirs' = dirs \cup {Home(i)}
    /\ op' = [o \in Operators |-> [op[o] EXCEPT
           !.before = IF At(o, "idle") THEN @
                      ELSE [file |-> [@.file EXCEPT ![i] = file'[i]],
                            dirs |-> @.dirs \cup {Home(i)}]]]
    /\ UNCHANGED <<kind, unmarked, host, faults>>

\* A killed command leaves everything as it is; a host it started goes on.
Kill(o) ==
    /\ Fault("kill")
    /\ op[o].pc \notin {"idle", "planned"}
    /\ End(o)
    /\ UNCHANGED <<disk, journal, host, edits>>

Step(o) ==
    \/ EnableFile(o) \/ WriteFile(o) \/ Enabled(o) \/ UndoFile(o) \/ UndoDirs(o)
    \/ Mark(o) \/ Remove(o)
    \/ Capture(o) \/ Launch(o) \/ Poll(o) \/ Look(o) \/ Stop(o) \/ Judge(o)

Next ==
    \/ \E o \in Operators :
          \/ Enable(o) \/ Disable(o) \/ Step(o) \/ Kill(o)
          \/ \E r \in Repos : Plan(o, r) \/ Run(o, r)
    \/ \E h \in Hooks : HookStarts(h) \/ HookEnds(h)
    \/ \E i \in Files : UserEdits(i)
    \/ HostWrites \/ OthersWrite \/ HostTrusts \/ HostEnds

Spec == Init /\ [][Next]_vars

\* A command that is not killed goes on.
FairSpec == Spec /\ \A o \in Operators : WF_vars(Step(o))

-----------------------------------------------------------------------------
(* Properties.                                                             *)

\* Only its owner changes a file that is not the pilot's or no longer is.
ForeignIsKept ==
    [][\A i \in Files : file[i] \in {"foreign", "drifted"} =>
          file'[i] = file[i] \/ edits' # edits]_vars

\* An enable that fails, wherever it does, leaves the files as they would
\* be without it, and no directory that would not be there without it.
FailedEnableLeavesNothing ==
    [][\A o \in Operators : UndoDirs(o) =>
          /\ file' = op[o].before.file
          /\ dirs' \subseteq op[o].before.dirs]_vars

\* An activation is called active only if a hook ran under this allowlist,
\* and not for events from before it was disabled and enabled again.
ActiveIsObserved == \A r \in Repos \ unmarked : Active(r) => observed[r] = "current"

Watching(o) == op[o].pc \in {"wait", "look", "stop"}

\* A host that changes a protected field and leaves it so is stopped, unless
\* the command is killed or cannot stop it.
DriftStopsHost ==
    \A o \in Operators :
        (kind = "claude" /\ Watching(o) /\ session /\ Drifted(op[o].base, registry))
            ~> (~session \/ ~Watching(o) \/ ~Drifted(op[o].base, registry))
=============================================================================
