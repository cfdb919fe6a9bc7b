---------------------------- MODULE HookPromises ----------------------------
(***************************************************************************)
(* What host and user may count on of the hook command of the pilot, told  *)
(* by what they see of it: its processes, the call each is for, the gate,  *)
(* and the sources that calls were directed at.  HookEntry is the command. *)
(***************************************************************************)
CONSTANTS
    Procs,          \* hook processes that may run at one time
    Harmless,       \* tool uses that change nothing when they run
    Sources,        \* the files the pointers of the task name
    Inventories,    \* sets of tools that may be approved as observable
    Versions,       \* hosts with a version
    Session         \* the one whose hooks the session has registered

VARIABLES
    gate,       \* what the lifecycle has stored
    proc,       \* the hook processes
    call,       \* call[p]: the call of the host whose hooks run as p
    touched     \* history: the sources that calls which succeeded were directed
                \* at, each at one alone, since the last recovery

\* What an enable writes for the hooks to load.
Allowlists == [version : Versions, tools : Inventories]

Ended(p) == proc[p].pc = "ended"

\* The host takes the answer of p to a call for leave to run it.
Passes(p) == Ended(p) /\ call[p].state = "asked" /\ proc[p].answer \in {"pass", "continue"}

\* A call from the repository that the hook lets run while the gate is shut
\* changes nothing, whatever tool or command it is (classify_tool,
\* _pre_tool_use): no command is taken for a read that is none.
ShutGateChangesNothing ==
    \A p \in Procs :
        Passes(p) /\ proc[p].home /\ proc[p].under # "open" => call[p].use \in Harmless

\* The gate opens only when, since the recovery, every source was what a call
\* was directed at, at nothing else, and that succeeded (_evidence_path): no
\* failed call, compound command, command of several files or call from before
\* the recovery counts.  This is less than having been read: a read may be of
\* some lines only, and a search of one file counts too.
OpensAfterCalls ==
    [][gate # "open" /\ gate' = "open" => Sources \subseteq touched]_<<gate, touched>>

\* A failure goes the right way, wherever it strikes between reading the event
\* and answering (_run_hook).  The hook of PreCompact lets the host compact
\* whatever is wrong with an event it could look into, with its configuration
\* or its state, unless no answer can be written; and no failure, mix-up of
\* commands or change of the allowlist lets a tool pass that the allowlist the
\* hook has loaded, made for this very host, does not list.
FailsTheRightWay ==
    \A p \in Procs :
        /\ /\ Ended(p) /\ proc[p].expected = "PreCompact" /\ proc[p].event = "PreCompact"
           /\ proc[p].form # "lost" /\ proc[p].answer # "mute"
           => proc[p].answer = "continue"
        /\ Passes(p) => /\ proc[p].list \in Allowlists
                        /\ proc[p].list.version = Session
                        /\ call[p].use.tool \in proc[p].list.tools
=============================================================================
