------------------------------ MODULE MemoryLog ------------------------------
(***************************************************************************)
(* The shared memory of mnemo/mnemo/engine.py for one namespace: an event  *)
(* log on disk, the source of truth, and its projection into the vector    *)
(* store.  Agents (server processes) write and forget; they serialize the  *)
(* appends to the log with _DirLock, a directory made and removed, which   *)
(* a killed agent leaves behind and a waiter removes after ten seconds.    *)
(*                                                                         *)
(* The lock knows its waiters' clocks and no more: a waiter whose ten      *)
(* seconds are over removes the directory, whether its maker lives or not. *)
(*                                                                         *)
(* A kernel that appends atomically puts a line where the end is then.     *)
(* Where O_APPEND is emulated (Windows) an append finds the end in one     *)
(* step and puts the line there in another: only the lock keeps two such   *)
(* appends apart.  The vector store answers in one step.  Searching, get   *)
(* and list change nothing: Visible says what they find.                   *)
(***************************************************************************)
EXTENDS Integers, Sequences, FiniteSets

CONSTANTS
    Agents,
    Memories,       \* ids; each is written at most once
    None,
    Readers,        \* Readers[m]: allowed readers, {} when m is public
    Expiring,       \* memories written with a ttl
    MaxFaults,      \* bound: failed operations
    MaxKills,       \* bound: killed agents
    MaxSlow         \* bound: waiters that ran late behind an agent that lives

ASSUME MemoryAssumption ==
    /\ None \notin Memories
    /\ Readers \in [Memories -> SUBSET Agents]
    /\ Expiring \subseteq Memories
    /\ MaxFaults \in Nat /\ MaxKills \in Nat /\ MaxSlow \in Nat

VARIABLES
    atomic,     \* does the kernel append atomically? (the platform, chosen once)
    lockdir,    \* does the lock directory exist?
    log,        \* the event log
    points,     \* memories in the vector store
    revoked,    \* points whose payload says revoked
    expired,    \* memories whose ttl is over
    agent,      \* the operation of each agent
    started,    \* memories whose write has begun
    faults, kills,
    slow        \* waiters that ran late while another agent was inside, alive

vars == <<atomic, lockdir, log, points, revoked, expired, agent, started,
          faults, kills, slow>>
store == <<points, revoked>>
bounds == <<atomic, faults, kills, slow>>

Events == [kind : {"write", "revoke"}, memory : Memories]
Phases == {"idle", "revoke", "wait", "late", "end", "put", "unlock", "project", "dead"}

Idle == [pc |-> "idle", kind |-> "write", memory |-> None, at |-> 0, failed |-> FALSE]

Operations == [pc : Phases, kind : {"write", "revoke"}, memory : Memories \cup {None},
               at : Nat, failed : BOOLEAN]

TypeOK ==
    /\ atomic \in BOOLEAN
    /\ lockdir \in BOOLEAN
    /\ log \in Seq(Events)
    /\ points \subseteq Memories /\ revoked \subseteq points
    /\ expired \subseteq Expiring
    /\ agent \in [Agents -> Operations]
    /\ started \subseteq Memories
    /\ faults \in 0..MaxFaults /\ kills \in 0..MaxKills /\ slow \in 0..MaxSlow

Init ==
    /\ atomic \in BOOLEAN
    /\ lockdir = FALSE /\ log = <<>>
    /\ points = {} /\ revoked = {} /\ expired = {}
    /\ agent = [a \in Agents |-> Idle]
    /\ started = {}
    /\ faults = 0 /\ kills = 0 /\ slow = 0

At(a, pc) == agent[a].pc = pc
Goto(a, pc) == agent' = [agent EXCEPT ![a].pc = pc]

\* What search, get and list let agent a find.
Visible(a, m) ==
    /\ m \in points \ (revoked \cup expired)
    /\ Readers[m] = {} \/ a \in Readers[m]

-----------------------------------------------------------------------------
(* write: append, then project.  forget: revoke in the store, then append. *)

Write(a, m) ==
    /\ At(a, "idle") /\ m \notin started
    /\ started' = started \cup {m}
    /\ agent' = [agent EXCEPT ![a] = [Idle EXCEPT !.pc = "wait", !.memory = m]]
    /\ UNCHANGED <<lockdir, log, store, expired, bounds>>

\* get decides whether the agent may forget the memory at all.
Forget(a, m) ==
    /\ At(a, "idle") /\ Visible(a, m)
    /\ agent' = [agent EXCEPT ![a] =
           [Idle EXCEPT !.pc = "revoke", !.kind = "revoke", !.memory = m]]
    /\ UNCHANGED <<lockdir, log, store, expired, started, bounds>>

Revoke(a) ==
    /\ At(a, "revoke")
    /\ revoked' = revoked \cup {agent[a].memory}
    /\ Goto(a, "wait")
    /\ UNCHANGED <<lockdir, log, points, expired, started, bounds>>

\* After its append a write goes on to the store; a forget is done.
Project(a) ==
    /\ At(a, "project")
    /\ points' = points \cup {agent[a].memory}
    /\ agent' = [agent EXCEPT ![a] = Idle]
    /\ UNCHANGED <<lockdir, log, revoked, expired, started, bounds>>

-----------------------------------------------------------------------------
(* _DirLock and the append inside it.                                      *)

Waiting(a) == agent[a].pc \in {"wait", "late"}

\* Faulty variant: an existing directory is taken for one's own.
MakeAnyway(a) == TRUE

Makeable(a) == ~lockdir

Acquire(a) ==
    /\ Waiting(a) /\ Makeable(a)
    /\ lockdir' = TRUE
    /\ Goto(a, "end")
    /\ UNCHANGED <<log, store, expired, started, bounds>>

Inside(a) == agent[a].pc \in {"end", "put", "unlock"}

Slow == slow < MaxSlow /\ slow' = slow + 1

\* A waiter finds the directory there and its ten seconds over.  Whose it is
\* it cannot tell: a dead agent's, or that of one who lives and is slow, or
\* the last of many who were served while it waited.
RunLate(a) ==
    /\ At(a, "wait") /\ lockdir
    /\ IF \E b \in Agents : Inside(b) THEN Slow ELSE slow' = slow
    /\ Goto(a, "late")
    /\ UNCHANGED <<atomic, lockdir, log, store, expired, started, faults, kills>>

\* Faulty variant: the directory cannot be removed.
BreakInVain(a) ==
    /\ At(a, "late") /\ lockdir
    /\ UNCHANGED vars

\* A late waiter removes the directory, whoever has made it by now, and
\* goes back to wait for it; it stays late.
Break(a) ==
    /\ At(a, "late") /\ lockdir
    /\ lockdir' = FALSE
    /\ UNCHANGED <<log, store, expired, agent, started, bounds>>

FindEnd(a) ==
    /\ At(a, "end")
    /\ agent' = [agent EXCEPT ![a].pc = "put",
                                ![a].at = IF atomic THEN 0 ELSE Len(log) + 1]
    /\ UNCHANGED <<lockdir, log, store, expired, started, bounds>>

\* Faulty variant: the file is opened for writing, not for appending.
Truncated(line, at) == <<line>>

\* The line goes to the end or, where the end was found before, over whatever
\* has come there since.
Appended(line, at) ==
    IF atomic \/ at > Len(log) THEN Append(log, line) ELSE [log EXCEPT ![at] = line]

Put(a) ==
    LET op == agent[a] IN
    /\ At(a, "put")
    /\ log' = Appended([kind |-> op.kind, memory |-> op.memory], op.at)
    /\ agent' = [agent EXCEPT ![a].pc = "unlock", ![a].at = 0]
    /\ UNCHANGED <<lockdir, store, expired, started, bounds>>

\* Faulty variant: a failed append does not stop the write.
AfterAnyway(a) == IF agent[a].kind = "write" THEN "project" ELSE "idle"

After(a) == IF agent[a].kind = "write" /\ ~agent[a].failed THEN "project" ELSE "idle"

\* __exit__ removes the directory, whoever has made it.
Unlock(a) ==
    /\ At(a, "unlock")
    /\ lockdir' = FALSE
    /\ agent' = [agent EXCEPT ![a] = IF After(a) = "idle" THEN Idle
                                     ELSE [@ EXCEPT !.pc = After(a)]]
    /\ UNCHANGED <<log, store, expired, started, bounds>>

-----------------------------------------------------------------------------
(* Failures and time.                                                      *)

Fault == faults < MaxFaults /\ faults' = faults + 1

\* Opening or writing the log fails: the lock is left all the same.
AppendFails(a) ==
    /\ Fault
    /\ agent[a].pc \in {"end", "put"}
    /\ agent' = [agent EXCEPT ![a].pc = "unlock", ![a].at = 0, ![a].failed = TRUE]
    /\ UNCHANGED <<atomic, lockdir, log, store, expired, started, kills, slow>>

\* The embedder or the store fails the agent; the store may have obeyed.
StoreFails(a) ==
    /\ Fault
    /\ \/ At(a, "revoke") /\ points' = points
          /\ revoked' \in {revoked, revoked \cup {agent[a].memory}}
       \/ At(a, "project") /\ revoked' = revoked
          /\ points' \in {points, points \cup {agent[a].memory}}
    /\ agent' = [agent EXCEPT ![a] = Idle]
    /\ UNCHANGED <<atomic, lockdir, log, expired, started, kills, slow>>

\* The host terminates the server; the directory it made stays.
Kill(a) ==
    /\ kills < MaxKills /\ kills' = kills + 1
    /\ ~At(a, "dead")
    /\ agent' = [agent EXCEPT ![a] = [Idle EXCEPT !.pc = "dead"]]
    /\ UNCHANGED <<atomic, lockdir, log, store, expired, started, faults, slow>>

Expire(m) ==
    /\ m \in (Expiring \cap started) \ expired
    /\ expired' = expired \cup {m}
    /\ UNCHANGED <<lockdir, log, store, agent, started, bounds>>

Step(a) ==
    \/ Revoke(a) \/ Acquire(a) \/ FindEnd(a) \/ Put(a) \/ Unlock(a) \/ Project(a)
    \/ RunLate(a) \/ Break(a)

Next ==
    \/ \E a \in Agents :
          \/ Step(a) \/ AppendFails(a) \/ StoreFails(a) \/ Kill(a)
          \/ \E m \in Memories : Write(a, m) \/ Forget(a, m)
    \/ \E m \in Memories : Expire(m)

Spec == Init /\ [][Next]_vars

\* Agents that live get to run, and the ten seconds pass.
FairSpec == Spec /\ \A a \in Agents : WF_vars(Step(a))

-----------------------------------------------------------------------------
(* Properties.                                                             *)

\* Nobody is ever inside with another.  The code does not keep this: one
\* waiter that runs late behind a living agent breaks it.
MutualExclusion == \A a, b \in Agents : Inside(a) /\ Inside(b) => a = b

AtMostTwo == \A a, b, c \in Agents : a = b \/ b = c \/ a = c

\* What the lock rests on: no waiter ran late behind an agent that lives,
\* and after a kill there are not two to fight for the dead one's directory.
Punctual == slow = 0 /\ (kills = 0 \/ AtMostTwo)

\* As long as that is so the directory keeps appends apart, though it outlives
\* its maker and is removed by whoever has waited too long.
AppendsApart == Punctual => MutualExclusion

\* What the log rests on: the kernel, or else the lock.
LogKept == atomic \/ Punctual

Logged(kind, m) == \E i \in DOMAIN log : log[i] = [kind |-> kind, memory |-> m]

\* What the log says is remembered.
Replay == {m \in Memories : Logged("write", m) /\ ~Logged("revoke", m)}

\* The store never serves a memory that the log, the source of truth, does
\* not hold or has as forgotten, whatever fails, whoever is killed and, where
\* the kernel appends atomically, whatever becomes of the lock.
ServedIsLogged == LogKept => points \ revoked \subseteq Replay

\* When nobody was killed, nothing failed and no operation is under way, log
\* and store say the same: no append was lost and no projection forgotten.
LogTellsTheStore ==
    (LogKept /\ faults = 0 /\ kills = 0 /\ \A a \in Agents : At(a, "idle")) =>
        Replay = points \ revoked

\* A lock that a killed agent left does not stop the others for ever.
EveryWaitEnds == \A a \in Agents : Waiting(a) ~> ~Waiting(a)
=============================================================================
