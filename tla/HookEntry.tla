----------------------------- MODULE HookEntry -----------------------------
(***************************************************************************)
(* One hook process from end to end, as context_compaction/cli.py runs it: *)
(* it reads the event, loads the allowlist, has the adapter parse the      *)
(* event, asks the lifecycle, and answers the host.  Lifecycle takes the   *)
(* middle apart, with the events it knows already and the updates it may   *)
(* lose; here it is the gate it promises, and what is looked at is         *)
(* everything around it: which calls reach the gate, as what, and what     *)
(* becomes of a failure at any place.                                      *)
(***************************************************************************)
EXTENDS Adapter, HookPromises

CONSTANTS
    Uses,           \* the tool uses of the session
    Files,          \* the paths that may be files
    Supported,      \* the versions of hosts the adapter supports
    MixedUp,        \* forms of the events that may come to a wrong command
    None

\* An input that is "invalid" names its event but has a field the adapter
\* refuses; of an "unreadable" one not even the event can be told; one that is
\* "lost" cannot be read at all, or is nested too deep to be looked into.
Forms == {"sound", "invalid", "unreadable", "lost"}

ASSUME UsesAssumption ==
    /\ \A u \in Uses : /\ u.tool \in Tools /\ u.path \in Paths \cup {NoPath}
                      /\ u.words \in Seq(STRING \cup Paths)
    /\ Harmless \subseteq Uses
    /\ Files \subseteq Paths
    /\ Sources \subseteq Inside \ Patterns
    /\ Inventories \subseteq SUBSET Tools
    /\ Supported \subseteq Versions
    /\ Session \in Versions
    /\ MixedUp \subseteq Forms
    /\ None \notin Uses

\* The source a call is directed at, and at nothing else: the file a tool is
\* given, or the only argument of a plain command.
Aims(use) ==
    {f \in Sources : IF use.tool \in Shells THEN ~use.opaque /\ Arguments(use.words) = {f}
                                            ELSE use.path = f}

VARIABLES
    allowlist,  \* the allowlist on disk, or None if missing or drifted
    present,    \* the paths that are files
    reads       \* the evidence the lifecycle has stored since the last recovery

vars == <<allowlist, present, gate, reads, proc, call, touched>>

ToolEvents == {"PreToolUse", "PostToolUse"}
Events == ToolEvents \cup {"PreCompact", "PostCompact", "SessionStart"}

ASSUME NoneAssumption == None \notin Allowlists \cup Events

Classes == {"read", "local_write", "external_side_effect", "unknown"}
\* "mute": the process ends without an answer, and not with the status that
\* the host takes for a refusal.
Answers == {"continue", "stop", "pass", "deny", "block", "error", "mute"}
Gates == {"open", "captured", "closed"}

\* home: is the working directory in the repository; ok: did the tool succeed;
\* under: the gate the lifecycle decided under.
Idle == [pc |-> "idle", expected |-> "PreCompact", event |-> "PreCompact", form |-> "sound",
         home |-> TRUE, ok |-> TRUE, list |-> None, class |-> "unknown", evidence |-> NoPath,
         under |-> "open", answer |-> "error"]

Processes ==
    [pc : {"idle", "read", "load", "parse", "core", "emit", "ended"}, expected : Events,
     event : Events, form : Forms, home : BOOLEAN, ok : BOOLEAN, list : Allowlists \cup {None},
     class : Classes, evidence : Paths \cup {NoPath}, under : Gates, answer : Answers]

NoCall == [use |-> None, state |-> "none"]
Calls == [use : Uses \cup {None}, state : {"none", "asked", "running", "over"}]

\* Everything has its type, a tool event has its call, and what is stored as
\* evidence is a path.
TypeOK ==
    /\ allowlist \in Allowlists \cup {None}
    /\ present \subseteq Files
    /\ gate \in Gates
    /\ reads \subseteq Paths
    /\ touched \subseteq Sources
    /\ proc \in [Procs -> Processes]
    /\ call \in [Procs -> Calls]
    /\ \A p \in Procs :
          proc[p].pc # "idle" /\ proc[p].event \in ToolEvents => call[p].use \in Uses

Init ==
    /\ allowlist \in Allowlists \cup {None}
    /\ present = Files
    /\ gate = "open"
    /\ reads = {}
    /\ proc = [p \in Procs |-> Idle]
    /\ call = [p \in Procs |-> NoCall]
    /\ touched = {}

At(p, pc) == proc[p].pc = pc

-----------------------------------------------------------------------------
(* The host starts a hook process for each event.                          *)

Starts(p, expected, event, form, ok) ==
    /\ At(p, "idle")
    /\ \E home \in BOOLEAN :
         proc' = [proc EXCEPT ![p] =
           [Idle EXCEPT !.pc = "read", !.expected = expected, !.event = event,
                        !.form = form, !.home = home, !.ok = ok]]

\* The command of an event expects that event.  Where hooks are mixed up,
\* that of PreCompact gets another: no other command makes an exception.
Sends(p, event, form, ok) ==
    \/ Starts(p, event, event, form, ok)
    \/ form \in MixedUp /\ Starts(p, "PreCompact", event, form, ok)

HostAsks(p, u) ==
    /\ call[p].state = "none"
    /\ \A q \in Procs : At(q, "idle") \/ proc[q].event \in ToolEvents
    /\ call' = [call EXCEPT ![p] = [use |-> u, state |-> "asked"]]
    /\ \E form \in Forms : Sends(p, "PreToolUse", form, TRUE)
    /\ UNCHANGED <<allowlist, present, gate, reads, touched>>

\* The call has run, and succeeded or not.
HostReports(p, ok) ==
    /\ call[p].state = "running"
    /\ call' = [call EXCEPT ![p].state = "over"]
    /\ touched' = IF ok THEN touched \cup Aims(call[p].use) ELSE touched
    /\ \E form \in Forms : Sends(p, "PostToolUse", form, ok)
    /\ UNCHANGED <<allowlist, present, gate, reads>>

\* The host compacts between calls (Lifecycle has calls of background agents).
HostCompacts(p) ==
    /\ \A q \in Procs : At(q, "idle") /\ call[q].state = "none"
    /\ \E event \in Events \ ToolEvents, form \in Forms : Sends(p, event, form, TRUE)
    /\ UNCHANGED <<allowlist, present, gate, reads, call, touched>>

-----------------------------------------------------------------------------
(* The process.                                                            *)

\* The event as it can be told from the raw input.
Observed(p) == IF proc[p].form = "unreadable" THEN None ELSE proc[p].event

\* A process that cannot write its answer cannot write the error of main either.
EndsWith(p, answer) ==
    \E said \in {answer, "mute"} :
        proc' = [proc EXCEPT ![p].pc = "ended", ![p].answer = said]

\* Faulty variant: the command of PreCompact lets whatever it is given go on.
FailsOpenAlways(p) ==
    EndsWith(p, IF proc[p].expected = "PreCompact" THEN "continue" ELSE "error")

\* An exception: the hook of PreCompact lets compaction go on, the others
\* end in an error, which the host takes as a refusal.
Fails(p) ==
    EndsWith(p, IF proc[p].expected = "PreCompact" /\ Observed(p) \in {None, "PreCompact"}
                THEN "continue" ELSE "error")

\* The answer to a decision, in the words of the host.
Emitted(event, continues) ==
    CASE event = "PreCompact" -> "continue"
      [] event = "PreToolUse" -> IF continues THEN "pass" ELSE "deny"
      [] event = "SessionStart" -> IF continues THEN "continue" ELSE "stop"
      [] event = "PostToolUse" -> IF continues THEN "pass" ELSE "block"
      [] event = "PostCompact" -> "pass"

\* The input is read and looked into before anything is caught: here PreCompact
\* ends in an error like the others.
Peek(p) ==
    /\ At(p, "read")
    /\ IF proc[p].form = "lost"
       THEN EndsWith(p, "error")
       ELSE proc' = [proc EXCEPT ![p].pc = "load"]
    /\ UNCHANGED <<allowlist, present, gate, reads, call, touched>>

Load(p) ==
    /\ At(p, "load")
    /\ IF allowlist # None /\ allowlist.version = Session
       THEN proc' = [proc EXCEPT ![p].pc = "parse", ![p].list = allowlist]
       ELSE Fails(p)
    /\ UNCHANGED <<allowlist, present, gate, reads, call, touched>>

\* Does the adapter make an event of the input, and is it the expected one?
Parses(p) ==
    /\ proc[p].form = "sound"
    /\ Session \in Supported
    /\ proc[p].event = proc[p].expected

Covered(p) ==
    proc[p].event \in ToolEvents => call[p].use.tool \in proc[p].list.tools

Parse(p) ==
    /\ At(p, "parse")
    /\ CASE ~Parses(p) -> Fails(p)
         [] Parses(p) /\ ~Covered(p) -> EndsWith(p, Emitted(proc[p].event, FALSE))
         [] Parses(p) /\ Covered(p) ->
              proc' = [proc EXCEPT ![p].pc = "core",
                         ![p].class = IF proc[p].event \in ToolEvents
                                      THEN ToolClassOf(call[p].use, present) ELSE "unknown",
                         ![p].evidence = IF proc[p].event \in ToolEvents
                                         THEN EvidencePath(call[p].use, present) ELSE NoPath]
    /\ UNCHANGED <<allowlist, present, gate, reads, call, touched>>

\* What the lifecycle decides.
Decides(p, continues) ==
    proc' = [proc EXCEPT ![p].pc = "emit", ![p].under = gate,
                         ![p].answer = Emitted(proc[p].event, continues)]

\* The pilot is not active outside its repository: nothing is held back there,
\* and nothing captured or stored.
CoreInactive(p) ==
    /\ At(p, "core") /\ ~proc[p].home
    /\ Decides(p, TRUE)
    /\ UNCHANGED <<allowlist, present, gate, reads, call, touched>>

CorePreToolUse(p) ==
    /\ At(p, "core") /\ proc[p].home /\ proc[p].event = "PreToolUse"
    /\ Decides(p, gate = "open" \/ proc[p].class = "read")
    /\ UNCHANGED <<allowlist, present, gate, reads, call, touched>>

\* A read that succeeded after a recovery is stored as evidence.
CorePostToolUse(p) ==
    /\ At(p, "core") /\ proc[p].home /\ proc[p].event = "PostToolUse"
    /\ Decides(p, TRUE)
    /\ reads' = IF /\ proc[p].ok /\ proc[p].class = "read"
                   /\ proc[p].evidence \in present /\ gate # "captured"
                THEN reads \cup {proc[p].evidence} ELSE reads
    /\ UNCHANGED <<allowlist, present, gate, call, touched>>

\* A capture drops the evidence and closes the gate; a compaction session
\* start begins the recovery.  PostCompact is only recorded.
CoreCompaction(p) ==
    /\ At(p, "core") /\ proc[p].home /\ proc[p].event \notin ToolEvents
    /\ Decides(p, TRUE)
    /\ gate' = CASE proc[p].event = "PreCompact" -> "captured"
                 [] proc[p].event = "SessionStart" -> "closed"
                 [] proc[p].event = "PostCompact" -> gate
    /\ reads' = IF proc[p].event = "PostCompact" THEN reads ELSE {}
    /\ touched' = IF proc[p].event = "PostCompact" THEN touched ELSE {}
    /\ UNCHANGED <<allowlist, present, call>>

\* The lifecycle fails: only a tool to be used is refused.
CoreFails(p) ==
    /\ At(p, "core") /\ proc[p].home
    /\ Decides(p, proc[p].event # "PreToolUse")
    /\ UNCHANGED <<allowlist, present, gate, reads, call, touched>>

Emit(p) ==
    /\ At(p, "emit")
    /\ EndsWith(p, proc[p].answer)
    /\ UNCHANGED <<allowlist, present, gate, reads, call, touched>>

Trying == {"load", "parse", "core", "emit"}

\* Any other exception, up to the answer itself.
Throws(p) ==
    /\ proc[p].pc \in Trying
    /\ Fails(p)
    /\ UNCHANGED <<allowlist, present, gate, reads, call, touched>>

\* What may become of the call of a process that ends without a word: some
\* hosts make it, others do not.
Left(p) ==
    {NoCall} \cup {c \in {[call[p] EXCEPT !.state = "running"]} : call[p].state = "asked"}

Killed(p) ==
    /\ proc[p].pc \in Trying \cup {"read"}
    /\ proc' = [proc EXCEPT ![p] = Idle]
    /\ \E c \in Left(p) : call' = [call EXCEPT ![p] = c]
    /\ UNCHANGED <<allowlist, present, gate, reads, touched>>

-----------------------------------------------------------------------------
(* The host takes the answer: a call that was asked about runs if its hook *)
(* passes it, and may run if its hook says nothing.                        *)
HostTakes(p) ==
    /\ At(p, "ended")
    /\ proc' = [proc EXCEPT ![p] = Idle]
    /\ \/ /\ proc[p].answer = "mute"
          /\ \E c \in Left(p) : call' = [call EXCEPT ![p] = c]
       \/ /\ proc[p].answer # "mute"
          /\ call' = [call EXCEPT ![p] = IF Passes(p) THEN [@ EXCEPT !.state = "running"]
                                         ELSE NoCall]
    /\ UNCHANGED <<allowlist, present, gate, reads, touched>>

(* The operator validates once every source has been read ...              *)
Validate ==
    /\ gate = "closed"
    /\ Sources \subseteq reads \cap present
    /\ gate' = "open"
    /\ UNCHANGED <<allowlist, present, reads, proc, call, touched>>

(* ... and enables, disables or enables for another host meanwhile.        *)
Reallow ==
    /\ allowlist' \in Allowlists \cup {None}
    /\ UNCHANGED <<present, gate, reads, proc, call, touched>>

(* Files come and go; what is in them is Lifecycle's.                      *)
Create(f) ==
    /\ f \notin present
    /\ present' = present \cup {f}
    /\ UNCHANGED <<allowlist, gate, reads, proc, call, touched>>

Delete(f) ==
    /\ f \in present
    /\ present' = present \ {f}
    /\ UNCHANGED <<allowlist, gate, reads, proc, call, touched>>

Run(p) == \/ Peek(p) \/ Load(p) \/ Parse(p)
          \/ CoreInactive(p) \/ CorePreToolUse(p) \/ CorePostToolUse(p) \/ CoreCompaction(p)
          \/ CoreFails(p) \/ Emit(p) \/ Throws(p) \/ Killed(p)

Host(p) == \/ HostCompacts(p) \/ HostTakes(p)
           \/ \E u \in Uses : HostAsks(p, u)
           \/ \E ok \in BOOLEAN : HostReports(p, ok)

Next ==
    \/ \E p \in Procs : Run(p) \/ Host(p)
    \/ \E f \in Files : Create(f) \/ Delete(f)
    \/ Validate \/ Reallow

Spec == Init /\ [][Next]_vars

=============================================================================
