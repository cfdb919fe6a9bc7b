--------------------------- MODULE MemoryLogProofs ---------------------------
(***************************************************************************)
(* Theorems about MemoryLog, for any number of agents and memories.        *)
(* Types, whatever happens.  The lock keeps appends apart as long as       *)
(* waiters are punctual: nobody runs late behind an agent that lives (who  *)
(* would lose the directory), and after a kill there are not two to remove *)
(* the dead one's (the second would remove the first one's).  What the     *)
(* store may serve, that the log only grows and that the store catches up  *)
(* with it: under the same, or, where the kernel appends atomically,       *)
(* whatever becomes of the lock.                                           *)
(***************************************************************************)
EXTENDS MemoryLog, TLAPS

\* An operation under way has a memory, a forget one that is in the store.
Engaged ==
    \A a \in Agents : agent[a].pc \notin {"idle", "dead"} =>
        /\ agent[a].memory \in Memories
        /\ agent[a].pc = "revoke" => agent[a].memory \in points

Typed == TypeOK /\ Engaged

\* A line put anywhere leaves a sequence of lines.
LEMMA AppendedType ==
    ASSUME log \in Seq(Events), NEW line \in Events, NEW at \in Nat
    PROVE  Appended(line, at) \in Seq(Events)
<1>1. CASE at > Len(log)
    BY <1>1 DEF Appended
<1>2. CASE ~(at > Len(log))
    <2>1. PICK n \in Nat : log \in [1..n -> Events]
        OBVIOUS
    <2>2. [log EXCEPT ![at] = line] \in [1..n -> Events]
        BY <2>1
    <2> QED BY <1>2, <2>2 DEF Appended
<1> QED BY <1>1, <1>2

\* One agent's operation gives way to another one.
LEMMA OperationStep ==
    ASSUME Typed, NEW a \in Agents, NEW op \in Operations,
           op.pc \notin {"idle", "dead"} =>
               op.memory \in Memories /\ (op.pc = "revoke" => op.memory \in points),
           agent' = [agent EXCEPT ![a] = op], points \subseteq points'
    PROVE  agent' \in [Agents -> Operations] /\ Engaged'
BY DEF Typed, TypeOK, Engaged

LEMMA IdleType == Idle \in Operations /\ Idle.pc = "idle"
BY DEF Idle, Operations, Phases

LEMMA TypedStep == Typed /\ [Next]_vars => Typed'
<1> SUFFICES ASSUME Typed, [Next]_vars PROVE Typed'
    OBVIOUS
<1> USE DEF Typed, TypeOK, Engaged, At, Goto, store, bounds, Phases
<1>0. CASE UNCHANGED vars
    BY <1>0 DEF vars, Operations
<1>1. ASSUME NEW a \in Agents, NEW m \in Memories, Write(a, m) PROVE Typed'
    BY <1>1 DEF Write, Operations, Idle
<1>2. ASSUME NEW a \in Agents, NEW m \in Memories, Forget(a, m) PROVE Typed'
    BY <1>2 DEF Forget, Visible, Operations, Idle
<1>3. ASSUME NEW a \in Agents, Revoke(a) PROVE Typed'
    BY SMTT(40), <1>3 DEF Revoke, Operations
<1>4. ASSUME NEW a \in Agents, Project(a) PROVE Typed'
    BY <1>4 DEF Project, Operations, Idle
<1>5. ASSUME NEW a \in Agents, Acquire(a) \/ RunLate(a) \/ Break(a) PROVE Typed'
    <2>1. CASE Acquire(a)
        BY <2>1 DEF Acquire, Waiting, Operations
    <2>2. CASE RunLate(a)
        <3>1. slow' \in 0..MaxSlow
            BY <2>2, MemoryAssumption DEF RunLate, Slow
        <3>2. /\ agent' = [agent EXCEPT ![a].pc = "late"] /\ agent[a].pc = "wait"
              /\ UNCHANGED <<atomic, lockdir, log, store, expired, started, faults, kills>>
            BY <2>2 DEF RunLate
        <3> DEFINE op == [agent[a] EXCEPT !.pc = "late"]
        <3>3. op \in Operations /\ op.memory = agent[a].memory /\ op.pc = "late"
            BY DEF Operations
        <3>4. agent' = [agent EXCEPT ![a] = op] /\ op.memory \in Memories
            BY <3>2, <3>3
        <3> QED BY <3>1, <3>2, <3>3, <3>4, OperationStep
    <2>3. CASE Break(a)
        BY <2>3 DEF Break, Operations
    <2> QED BY <1>5, <2>1, <2>2, <2>3
<1>6. ASSUME NEW a \in Agents, FindEnd(a) PROVE Typed'
    <2> DEFINE at == IF atomic THEN 0 ELSE Len(log) + 1
               op == [agent[a] EXCEPT !.pc = "put", !.at = at]
    <2>0. agent[a] \in Operations /\ at \in Nat
        OBVIOUS
    <2> HIDE DEF at
    <2>1. op \in Operations /\ op.memory = agent[a].memory /\ op.pc = "put"
        BY <2>0 DEF Operations
    <2>2. agent' = [agent EXCEPT ![a] = op] /\ op.memory \in Memories
        BY <1>6, <2>1 DEF FindEnd, at
    <2> QED BY <1>6, <2>1, <2>2, OperationStep DEF FindEnd
<1>7. ASSUME NEW a \in Agents, Put(a) PROVE Typed'
    <2> DEFINE op == [agent[a] EXCEPT !.pc = "unlock", !.at = 0]
    <2>1. op \in Operations /\ op.memory = agent[a].memory /\ op.pc = "unlock"
        BY DEF Operations
    <2>2. agent' = [agent EXCEPT ![a] = op] /\ op.memory \in Memories
        BY <1>7, <2>1 DEF Put
    <2>3. log' \in Seq(Events)
        BY <1>7, AppendedType DEF Put, Operations, Events
    <2> QED BY <1>7, <2>1, <2>2, <2>3, OperationStep DEF Put
<1>8. ASSUME NEW a \in Agents, Unlock(a) PROVE Typed'
    <2> DEFINE op == IF After(a) = "idle" THEN Idle
                     ELSE [agent[a] EXCEPT !.pc = After(a)]
    <2>1. op \in Operations /\ op.pc \in {"idle", "project"}
        BY IdleType DEF After, Operations
    <2>2. op.pc = "project" => op.memory \in Memories
        BY <1>8, IdleType DEF Unlock, After, Operations
    <2>3. agent' = [agent EXCEPT ![a] = op]
        BY <1>8 DEF Unlock
    <2> QED BY <1>8, <2>1, <2>2, <2>3, OperationStep DEF Unlock
<1>9. ASSUME NEW a \in Agents, AppendFails(a) PROVE Typed'
    <2> DEFINE op == [agent[a] EXCEPT !.pc = "unlock", !.at = 0, !.failed = TRUE]
    <2>1. op \in Operations /\ op.memory = agent[a].memory /\ op.pc = "unlock"
        BY DEF Operations
    <2>2. agent' = [agent EXCEPT ![a] = op] /\ op.memory \in Memories
        BY <1>9, <2>1 DEF AppendFails
    <2>3. faults' \in 0..MaxFaults
        BY <1>9, MemoryAssumption DEF AppendFails, Fault
    <2> QED BY <1>9, <2>1, <2>2, <2>3, OperationStep DEF AppendFails
<1>10. ASSUME NEW a \in Agents, StoreFails(a) PROVE Typed'
    BY <1>10, MemoryAssumption DEF StoreFails, Fault, Operations, Idle
<1>11. ASSUME NEW a \in Agents, Kill(a) PROVE Typed'
    <2> DEFINE op == [Idle EXCEPT !.pc = "dead"]
    <2>1. op \in Operations /\ op.pc = "dead"
        BY DEF Idle, Operations
    <2>2. kills' \in 0..MaxKills /\ agent' = [agent EXCEPT ![a] = op]
        BY <1>11, MemoryAssumption DEF Kill
    <2> QED BY <1>11, <2>1, <2>2, OperationStep DEF Kill
<1>12. ASSUME NEW m \in Memories, Expire(m) PROVE Typed'
    BY <1>12 DEF Expire, Operations
<1> QED
    BY <1>0, <1>1, <1>2, <1>3, <1>4, <1>5, <1>6, <1>7, <1>8, <1>9, <1>10, <1>11, <1>12
    DEF Next, Step

LEMMA TypedAlways == Spec => []Typed
<1>1. ASSUME Init PROVE Typed
    <2>1. agent \in [Agents -> Operations]
        BY <1>1, IdleType DEF Init
    <2>2. 0 \in 0..MaxFaults /\ 0 \in 0..MaxKills /\ 0 \in 0..MaxSlow
        BY MemoryAssumption
    <2>3. Engaged
        BY <1>1, IdleType DEF Init, Engaged
    <2>4. log \in Seq(Events) /\ points \subseteq Memories /\ revoked \subseteq points
        BY <1>1 DEF Init
    <2> QED BY <1>1, <2>1, <2>2, <2>3, <2>4 DEF Init, Typed, TypeOK
<1> QED BY <1>1, TypedStep, PTL DEF Spec

\* Every reachable state is well-typed, whatever fails and whoever is killed.
THEOREM MemoryTypes == Spec => []TypeOK
<1>1. Typed => TypeOK
    BY DEF Typed
<1> QED BY <1>1, TypedAlways, PTL

-----------------------------------------------------------------------------
(* The directory and the agents.                                           *)

Dead(a) == At(a, "dead")

\* Whoever is inside has the directory to himself; one that nobody is inside
\* is a dead agent's, and who has waited too long waits for dead agents only.
Held ==
    /\ MutualExclusion
    /\ \A a \in Agents : Inside(a) => lockdir
    /\ lockdir => \E a \in Agents : Inside(a) \/ Dead(a)
    /\ \A a \in Agents : At(a, "late") =>
          (\E d \in Agents : Dead(d)) /\ \A b \in Agents \ {a} : Dead(b)
    /\ (\E d \in Agents : Dead(d)) => kills # 0

\* A step after which nobody has been killed is no kill, nor came after one.
LEMMA NoKills ==
    ASSUME Typed, kills' = 0, [Next]_vars
    PROVE  kills = 0 /\ \A a \in Agents : ~Kill(a)
<1>1. kills \in Nat /\ \A a \in Agents : ~Kill(a)
    BY DEF Kill, Typed, TypeOK
<1>2. CASE UNCHANGED vars
    BY <1>1, <1>2 DEF vars
<1>3. CASE Next
    <2>1. ASSUME NEW a \in Agents, Step(a) PROVE kills' = kills
        BY <2>1 DEF Step, Revoke, Acquire, FindEnd, Put, Unlock, Project, RunLate, Break,
                    bounds, vars
    <2>2. ASSUME NEW a \in Agents, AppendFails(a) \/ StoreFails(a) PROVE kills' = kills
        BY <2>2 DEF AppendFails, StoreFails
    <2>3. ASSUME NEW a \in Agents, NEW m \in Memories, Write(a, m) \/ Forget(a, m)
          PROVE  kills' = kills
        BY <2>3 DEF Write, Forget, bounds
    <2>4. ASSUME NEW m \in Memories, Expire(m) PROVE kills' = kills
        BY <2>4 DEF Expire, bounds
    <2> QED BY <1>1, <1>3, <2>1, <2>2, <2>3, <2>4 DEF Next
<1> QED BY <1>1, <1>2, <1>3

\* Nor one after which nobody has run late behind an agent that lives.
LEMMA NoSlow ==
    ASSUME Typed, slow' = 0, [Next]_vars
    PROVE  slow = 0 /\ \A a \in Agents : RunLate(a) => ~\E b \in Agents : Inside(b)
<1>1. slow \in Nat /\ \A a \in Agents : RunLate(a) => ~\E b \in Agents : Inside(b)
    BY DEF RunLate, Slow, Typed, TypeOK
<1>2. CASE UNCHANGED vars
    BY <1>1, <1>2 DEF vars
<1>3. CASE Next
    <2>1. ASSUME NEW a \in Agents, RunLate(a) PROVE slow = 0
        BY <1>1, <2>1 DEF RunLate
    <2>2. ASSUME NEW a \in Agents, Step(a), ~RunLate(a) PROVE slow' = slow
        BY <2>2 DEF Step, Revoke, Acquire, FindEnd, Put, Unlock, Project, Break, bounds
    <2>3. ASSUME NEW a \in Agents, AppendFails(a) \/ StoreFails(a) \/ Kill(a)
          PROVE  slow' = slow
        BY <2>3 DEF AppendFails, StoreFails, Kill
    <2>4. ASSUME NEW a \in Agents, NEW m \in Memories, Write(a, m) \/ Forget(a, m)
          PROVE  slow' = slow
        BY <2>4 DEF Write, Forget, bounds
    <2>5. ASSUME NEW m \in Memories, Expire(m) PROVE slow' = slow
        BY <2>5 DEF Expire, bounds
    <2> QED BY <1>1, <1>3, <2>1, <2>2, <2>3, <2>4, <2>5 DEF Next
<1> QED BY <1>1, <1>2, <1>3

LEMMA SamePlatform == ASSUME [Next]_vars PROVE atomic' = atomic
<1>1. ASSUME NEW a \in Agents, Step(a) PROVE atomic' = atomic
    BY <1>1 DEF Step, Revoke, Acquire, FindEnd, Put, Unlock, Project, RunLate, Break, bounds,
                vars
<1>2. ASSUME NEW a \in Agents, AppendFails(a) \/ StoreFails(a) \/ Kill(a)
      PROVE  atomic' = atomic
    BY <1>2 DEF AppendFails, StoreFails, Kill
<1>3. ASSUME NEW a \in Agents, NEW m \in Memories, Write(a, m) \/ Forget(a, m)
      PROVE  atomic' = atomic
    BY <1>3 DEF Write, Forget, bounds
<1>4. ASSUME NEW m \in Memories, Expire(m) PROVE atomic' = atomic
    BY <1>4 DEF Expire, bounds
<1> QED BY <1>1, <1>2, <1>3, <1>4 DEF Next, vars

LEMMA PunctualBefore == ASSUME Typed, [Next]_vars, Punctual' PROVE Punctual
BY NoKills, NoSlow DEF Punctual, AtMostTwo

LEMMA KeptBefore == ASSUME Typed, [Next]_vars, LogKept' PROVE LogKept
BY PunctualBefore, SamePlatform DEF LogKept

LEMMA HeldStep ==
    ASSUME Punctual', Typed, Held, [Next]_vars PROVE Held'
<1> USE DEF Typed, TypeOK, Held, MutualExclusion, Inside, At, Goto, Dead
<1>0. CASE UNCHANGED vars
    BY <1>0 DEF vars
<1>1. ASSUME NEW a \in Agents, NEW m \in Memories, Write(a, m) \/ Forget(a, m) PROVE Held'
    <2>1. /\ lockdir' = lockdir /\ agent[a].pc = "idle" /\ kills' = kills
          /\ agent'[a].pc \in {"wait", "revoke"}
          /\ \A b \in Agents : b # a => agent'[b] = agent[b]
        BY <1>1 DEF Write, Forget, Idle, bounds
    <2> QED BY <2>1
<1>2. ASSUME NEW a \in Agents, Revoke(a) \/ Project(a) \/ StoreFails(a) PROVE Held'
    <2>1. /\ lockdir' = lockdir /\ agent[a].pc \in {"revoke", "project"} /\ kills' = kills
          /\ agent'[a].pc \in {"wait", "idle"}
          /\ \A b \in Agents : b # a => agent'[b] = agent[b]
        BY <1>2 DEF Revoke, Project, StoreFails, Idle, Operations, bounds
    <2> QED BY <2>1
<1>3. ASSUME NEW a \in Agents, Acquire(a) PROVE Held'
    <2>1. /\ ~lockdir /\ lockdir' /\ agent[a].pc \in {"wait", "late"} /\ agent'[a].pc = "end"
          /\ kills' = kills /\ \A b \in Agents : b # a => agent'[b] = agent[b]
        BY <1>3 DEF Acquire, Waiting, Makeable, Operations, bounds
    <2> QED BY <2>1
<1>4. ASSUME NEW a \in Agents, RunLate(a) PROVE Held'
    <2>1. /\ lockdir' = lockdir /\ agent[a].pc = "wait" /\ agent'[a].pc = "late"
          /\ kills' = kills /\ \A b \in Agents : b # a => agent'[b] = agent[b]
        BY <1>4 DEF RunLate, Operations, bounds
    <2>2. PICK d \in Agents : Dead(d)
        BY <1>4, NoSlow DEF RunLate, Punctual
    <2>3. \A b \in Agents \ {a} : b = d
        BY <2>1, <2>2 DEF Punctual, AtMostTwo
    <2> QED BY <2>1, <2>2, <2>3
<1>5. ASSUME NEW a \in Agents, Break(a) PROVE Held'
    <2>1. \A b \in Agents : ~Inside(b)
        BY <1>5 DEF Break
    <2> QED BY <1>5, <2>1 DEF Break, bounds
<1>6. ASSUME NEW a \in Agents, FindEnd(a) \/ Put(a) \/ AppendFails(a) PROVE Held'
    <2>1. /\ agent'[a].pc \in {"put", "unlock"} /\ lockdir' = lockdir /\ Inside(a)
          /\ kills' = kills
        BY <1>6 DEF FindEnd, Put, AppendFails, Operations, bounds
    <2>2. \A b \in Agents : b # a => agent'[b] = agent[b]
        BY <1>6 DEF FindEnd, Put, AppendFails
    <2> QED BY <2>1, <2>2
<1>7. ASSUME NEW a \in Agents, Unlock(a) PROVE Held'
    <2>1. /\ agent'[a].pc \in {"idle", "project"} /\ lockdir' = FALSE /\ kills' = kills
          /\ agent[a].pc = "unlock"
        BY <1>7 DEF Unlock, After, Idle, Operations, bounds
    <2>2. \A b \in Agents : b # a => agent'[b] = agent[b] /\ ~Inside(b)
        BY <1>7 DEF Unlock
    <2> QED BY <2>1, <2>2
<1>8. ASSUME NEW a \in Agents, Kill(a) PROVE Held'
    <2>1. /\ agent'[a].pc = "dead" /\ agent[a].pc # "dead" /\ lockdir' = lockdir
          /\ \A b \in Agents : b # a => agent'[b] = agent[b]
        BY <1>8 DEF Kill, Idle
    <2>2. kills' # 0
        BY <1>8, MemoryAssumption DEF Kill
    <2>3. \A b \in Agents : Dead(b) => Dead(b)'
        BY <2>1
    <2>4. /\ \A b \in Agents : Inside(b)' => Inside(b)
          /\ \A b \in Agents : At(b, "late")' => At(b, "late")
        BY <2>1
    <2> QED BY <2>1, <2>2, <2>3, <2>4
<1>9. ASSUME NEW m \in Memories, Expire(m) PROVE Held'
    BY <1>9 DEF Expire, bounds
<1> QED
    BY <1>0, <1>1, <1>2, <1>3, <1>4, <1>5, <1>6, <1>7, <1>8, <1>9 DEF Next, Step

LEMMA HeldAlways == Spec => [](Punctual => Held)
<1>1. Init => Held
    BY DEF Init, Held, MutualExclusion, Inside, Dead, At, Idle
<1>2. Typed /\ (Punctual => Held) /\ [Next]_vars => (Punctual => Held)'
    BY HeldStep, PunctualBefore
<1> QED BY <1>1, <1>2, TypedAlways, PTL DEF Spec

\* Appends are kept apart, for any number of agents, until a waiter's ten
\* seconds end behind an agent that lives or one of three is killed: up to
\* then the directory that a late waiter removes (_DirLock.__enter__, which
\* looks at nothing but its clock) is nobody's who lives.
THEOREM LockTheorem == Spec => []AppendsApart
<1>1. (Punctual => Held) => AppendsApart
    BY DEF Held, AppendsApart
<1> QED BY <1>1, HeldAlways, PTL

-----------------------------------------------------------------------------
(* What the store serves stands in the log.                                *)

Wrote(a) == agent[a].kind = "write"

\* The log is ahead of the store for writes and behind it for forgets, and
\* the position an agent is about to write to is still the end.
Ahead ==
    /\ \A m \in points : Logged("write", m)
    /\ \A m \in Memories : Logged("revoke", m) => m \in revoked
    /\ \A a \in Agents :
          /\ agent[a].pc = "put" /\ ~atomic => agent[a].at = Len(log) + 1
          /\ agent[a].pc = "project" => Wrote(a)
          /\ agent[a].pc = "revoke" => ~Wrote(a)
          /\ agent[a].pc = "project" \/ (agent[a].pc = "unlock" /\ ~agent[a].failed /\ Wrote(a))
                => Logged("write", agent[a].memory)
          /\ agent[a].pc \in {"wait", "late", "end", "put", "unlock"} /\ ~Wrote(a)
                => agent[a].memory \in revoked

LEMMA PutLogs ==
    ASSUME Typed, NEW line \in Events, log' = Append(log, line), NEW k, NEW m
    PROVE  Logged(k, m)' <=> Logged(k, m) \/ line = [kind |-> k, memory |-> m]
<1>1. log \in Seq(Events) /\ Len(log') = Len(log) + 1 /\ log'[Len(log) + 1] = line
    BY DEF Typed, TypeOK
<1>2. \A i \in 1..Len(log) : log'[i] = log[i]
    BY <1>1
<1>3. DOMAIN log = 1..Len(log) /\ DOMAIN log' = 1..(Len(log) + 1) /\ Len(log) \in Nat
    BY <1>1
<1> QED BY <1>1, <1>2, <1>3 DEF Logged

LEMMA SameLog == ASSUME log' = log, NEW k, NEW m PROVE Logged(k, m)' <=> Logged(k, m)
BY DEF Logged

LEMMA AheadStep ==
    ASSUME Typed, ~atomic => Held, Ahead, [Next]_vars PROVE Ahead'
<1> USE SamePlatform DEF Typed, TypeOK, Engaged, Ahead, Wrote, At, Goto, store
<1>0. CASE UNCHANGED vars
    BY <1>0, SameLog DEF vars
<1>1. ASSUME NEW a \in Agents, NEW m \in Memories, Write(a, m) \/ Forget(a, m) PROVE Ahead'
    <2>1. CASE Write(a, m)
        BY <2>1, SameLog DEF Write, Idle
    <2>2. CASE Forget(a, m)
        BY <2>2, SameLog DEF Forget, Idle
    <2> QED BY <1>1, <2>1, <2>2
<1>2. ASSUME NEW a \in Agents, Revoke(a) PROVE Ahead'
    BY <1>2, SameLog DEF Revoke, Operations
<1>3. ASSUME NEW a \in Agents, Project(a) PROVE Ahead'
    BY <1>3, SameLog DEF Project, Idle
<1>4. ASSUME NEW a \in Agents, StoreFails(a) PROVE Ahead'
    BY <1>4, SameLog DEF StoreFails, Idle
<1>5. ASSUME NEW a \in Agents, Acquire(a) PROVE Ahead'
    BY <1>5, SameLog DEF Acquire, Waiting, Operations
<1>6. ASSUME NEW a \in Agents, RunLate(a) \/ Break(a) PROVE Ahead'
    <2>1. CASE RunLate(a)
        BY <2>1, SameLog DEF RunLate, Operations
    <2>2. CASE Break(a)
        BY <2>2, SameLog DEF Break
    <2> QED BY <1>6, <2>1, <2>2
<1>7. ASSUME NEW a \in Agents, FindEnd(a) PROVE Ahead'
    BY <1>7, SameLog DEF FindEnd, Operations
<1>8. ASSUME NEW a \in Agents, AppendFails(a) PROVE Ahead'
    BY <1>8, SameLog DEF AppendFails, Operations
<1>9. ASSUME NEW a \in Agents, Unlock(a) PROVE Ahead'
    BY <1>9, SameLog DEF Unlock, After, Idle, Operations
<1>10. ASSUME NEW a \in Agents, Put(a) PROVE Ahead'
    <2> DEFINE line == [kind |-> agent[a].kind, memory |-> agent[a].memory]
    <2>1. line \in Events /\ (atomic \/ agent[a].at = Len(log) + 1)
        BY <1>10 DEF Put, Operations, Events
    <2>2. log' = Append(log, line) /\ Len(log') = Len(log) + 1
        BY <1>10, <2>1 DEF Put, Appended
    <2>3. \A k, m : Logged(k, m)' <=> Logged(k, m) \/ line = [kind |-> k, memory |-> m]
        BY <2>1, <2>2, PutLogs
    <2>4. \A b \in Agents : b # a => agent'[b] = agent[b] /\ (atomic \/ agent[b].pc # "put")
        BY <1>10 DEF Put, Held, MutualExclusion, Inside
    <2>5. /\ agent'[a].pc = "unlock" /\ agent'[a].kind = agent[a].kind
          /\ agent'[a].memory = agent[a].memory /\ points' = points /\ revoked' = revoked
        BY <1>10 DEF Put, Operations
    <2>6. ~Wrote(a) => agent[a].memory \in revoked
        BY <1>10 DEF Put
    <2>7. \A m \in Memories : Logged("revoke", m)' => m \in revoked'
        BY <2>3, <2>5, <2>6
    <2> QED BY <2>3, <2>4, <2>5, <2>6, <2>7
<1>11. ASSUME NEW m \in Memories, Expire(m) PROVE Ahead'
    BY <1>11, SameLog DEF Expire
<1>12. ASSUME NEW a \in Agents, Kill(a) PROVE Ahead'
    BY <1>12, SameLog DEF Kill, Idle
<1> QED
    BY <1>0, <1>1, <1>2, <1>3, <1>4, <1>5, <1>6, <1>7, <1>8, <1>9, <1>10, <1>11, <1>12
    DEF Next, Step

LEMMA AheadAlways == Spec => [](LogKept => Ahead)
<1>1. Init => Ahead
    BY DEF Init, Ahead, Logged, Idle, Wrote
<1>2. Typed /\ (Punctual => Held) /\ (LogKept => Ahead) /\ [Next]_vars
          => (LogKept => Ahead)'
    <2> SUFFICES ASSUME Typed, Punctual => Held, LogKept => Ahead, [Next]_vars, LogKept'
                 PROVE  Ahead'
        OBVIOUS
    <2>1. LogKept
        BY KeptBefore
    <2> QED BY <2>1, AheadStep DEF LogKept
<1> QED BY <1>1, <1>2, TypedAlways, HeldAlways, PTL DEF Spec

LEMMA AheadServes == ASSUME Typed, Ahead PROVE points \ revoked \subseteq Replay
BY DEF Typed, TypeOK, Ahead, Replay

\* Whatever fails and whoever is killed, the store serves nothing that the log
\* does not hold or has as forgotten, for write appends before it projects and
\* forget after it revokes: with atomic appends even if no lock is kept,
\* otherwise as long as waiters are punctual.
THEOREM LogTheorem == Spec => []ServedIsLogged
<1>1. Typed /\ (LogKept => Ahead) => ServedIsLogged
    BY AheadServes DEF ServedIsLogged
<1> QED BY <1>1, TypedAlways, AheadAlways, PTL

\* Nothing that stands in the log is ever changed or lost: a step adds a line
\* at the end or leaves the log alone, though an append may take its position
\* in one step and write in another (engine.py:264).
LogOnlyGrows ==
    [][LogKept => log' = log \/ \E line \in Events : log' = Append(log, line)]_vars

\* With atomic appends, or as long as waiters are punctual, every append finds
\* its position still at the end, for any number of agents: the log only grows.
THEOREM GrowthTheorem == Spec => LogOnlyGrows
<1>1. ASSUME Typed, Ahead, [Next]_vars
      PROVE  log' = log \/ \E line \in Events : log' = Append(log, line)
    <2>1. ASSUME NEW a \in Agents, Put(a)
          PROVE  \E line \in Events : log' = Append(log, line)
        <3> DEFINE line == [kind |-> agent[a].kind, memory |-> agent[a].memory]
        <3>1. line \in Events
            BY <1>1, <2>1 DEF Put, At, Typed, TypeOK, Engaged, Operations, Events
        <3>2. (atomic \/ agent[a].at = Len(log) + 1) /\ Len(log) \in Nat
            BY <1>1, <2>1 DEF Put, At, Ahead, Typed, TypeOK
        <3>3. log' = Append(log, line)
            BY <2>1, <3>2 DEF Put, Appended
        <3> QED BY <3>1, <3>3
    <2>2. ASSUME NEW a \in Agents, Step(a), ~Put(a) PROVE log' = log
        BY <2>2 DEF Step, Revoke, Acquire, FindEnd, Unlock, Project, RunLate, Break
    <2>3. ASSUME NEW a \in Agents, AppendFails(a) \/ StoreFails(a) \/ Kill(a) PROVE log' = log
        BY <2>3 DEF AppendFails, StoreFails, Kill
    <2>4. ASSUME NEW a \in Agents, NEW m \in Memories, Write(a, m) \/ Forget(a, m)
          PROVE  log' = log
        BY <2>4 DEF Write, Forget
    <2>5. ASSUME NEW m \in Memories, Expire(m) PROVE log' = log
        BY <2>5 DEF Expire
    <2> QED BY <1>1, <2>1, <2>2, <2>3, <2>4, <2>5 DEF Next, vars
<1> QED BY <1>1, TypedAlways, AheadAlways, PTL DEF Spec, LogOnlyGrows

-----------------------------------------------------------------------------
(* The store catches up with the log.                                      *)

\* A write of m has been appended and is on its way to the store; a forget
\* of m is in the store and on its way to the log.
Projecting(a, m) ==
    agent[a].memory = m /\ Wrote(a) /\ agent[a].pc \in {"unlock", "project"}
Revoking(a, m) ==
    agent[a].memory = m /\ ~Wrote(a) /\ agent[a].pc \in {"wait", "late", "end", "put"}

\* Whatever log and store differ in, an agent is about to make good.
Owed ==
    /\ \A a \in Agents : ~agent[a].failed
    /\ \A m \in Memories :
          /\ Logged("write", m) => m \in points \/ \E a \in Agents : Projecting(a, m)
          /\ m \in revoked => Logged("revoke", m) \/ \E a \in Agents : Revoking(a, m)

LEMMA NoFaults ==
    ASSUME Typed, faults' = 0
    PROVE  \A a \in Agents : ~AppendFails(a) /\ ~StoreFails(a)
BY DEF AppendFails, StoreFails, Fault, Typed, TypeOK

\* Agent a steps.  The others owe what they owed, and nothing leaves log or
\* store: it is enough to look at what a owed, and at what is new.
LEMMA OwedStep ==
    ASSUME Typed, Owed, NEW a \in Agents,
           ~agent'[a].failed,
           \A b \in Agents : b # a => agent'[b] = agent[b],
           points \subseteq points',
           \A k, m : Logged(k, m) => Logged(k, m)',
           \A m \in Memories : Logged("write", m)' =>
               Logged("write", m) \/ m \in points' \/ Projecting(a, m)',
           \A m \in revoked' : m \in revoked \/ Logged("revoke", m)' \/ Revoking(a, m)',
           \A m \in Memories : Projecting(a, m) => m \in points' \/ Projecting(a, m)',
           \A m \in Memories : Revoking(a, m) => Logged("revoke", m)' \/ Revoking(a, m)'
    PROVE  Owed'
<1>1. \A b \in Agents : ~agent'[b].failed
    BY DEF Owed
<1>2. \A b \in Agents, m \in Memories : b # a =>
          /\ Projecting(b, m)' <=> Projecting(b, m)
          /\ Revoking(b, m)' <=> Revoking(b, m)
    BY DEF Projecting, Revoking, Wrote
<1>3. ASSUME NEW m \in Memories, Logged("write", m)'
      PROVE  m \in points' \/ \E b \in Agents : Projecting(b, m)'
    <2>1. CASE Logged("write", m)
        BY <1>2, <2>1 DEF Owed
    <2>2. CASE ~Logged("write", m)
        BY <1>3, <2>2
    <2> QED BY <2>1, <2>2
<1>4. ASSUME NEW m \in Memories, m \in revoked'
      PROVE  Logged("revoke", m)' \/ \E b \in Agents : Revoking(b, m)'
    <2>1. CASE m \in revoked
        BY <1>2, <2>1 DEF Owed
    <2>2. CASE m \notin revoked
        BY <1>4, <2>2
    <2> QED BY <2>1, <2>2
<1> QED BY <1>1, <1>3, <1>4 DEF Owed

LEMMA OwedKept ==
    ASSUME kills' = 0, faults' = 0, Typed, Ahead, Owed, [Next]_vars PROVE Owed'
<1> USE DEF Typed, TypeOK, At, Goto, store
<1>0. CASE UNCHANGED <<log, points, revoked, agent>>
    BY <1>0, SameLog DEF Owed, Projecting, Revoking, Wrote
<1>1. ASSUME NEW a \in Agents, NEW m \in Memories, Write(a, m) \/ Forget(a, m) PROVE Owed'
    <2>1. /\ agent[a].pc = "idle" /\ ~agent'[a].failed /\ log' = log
          /\ points' = points /\ revoked' = revoked
          /\ \A b \in Agents : b # a => agent'[b] = agent[b]
        BY <1>1 DEF Write, Forget, Idle
    <2> QED BY <2>1, SameLog, OwedStep DEF Projecting, Revoking
<1>2. ASSUME NEW a \in Agents, Revoke(a) PROVE Owed'
    <2>1. /\ agent[a].pc = "revoke" /\ agent'[a].pc = "wait" /\ log' = log
          /\ points' = points /\ revoked' = revoked \cup {agent[a].memory}
          /\ agent'[a].memory = agent[a].memory /\ agent'[a].kind = agent[a].kind
          /\ agent'[a].failed = agent[a].failed
          /\ \A b \in Agents : b # a => agent'[b] = agent[b]
        BY <1>2 DEF Revoke, Operations
    <2>2. ~Wrote(a) /\ ~agent[a].failed
        BY <2>1 DEF Ahead, Owed
    <2> QED BY <2>1, <2>2, SameLog, OwedStep DEF Projecting, Revoking, Wrote
<1>3. ASSUME NEW a \in Agents, Project(a) PROVE Owed'
    <2>1. /\ agent[a].pc = "project" /\ ~agent'[a].failed /\ log' = log
          /\ points' = points \cup {agent[a].memory} /\ revoked' = revoked
          /\ \A b \in Agents : b # a => agent'[b] = agent[b]
        BY <1>3 DEF Project, Idle
    <2> QED BY <2>1, SameLog, OwedStep DEF Projecting, Revoking
<1>4. ASSUME NEW a \in Agents, Acquire(a) \/ RunLate(a) \/ FindEnd(a) PROVE Owed'
    <2>1. /\ agent[a].pc \in {"wait", "late", "end"}
          /\ agent'[a].pc \in {"late", "end", "put"}
          /\ log' = log /\ points' = points /\ revoked' = revoked
        BY <1>4 DEF Acquire, RunLate, FindEnd, Waiting, Operations
    <2>2. /\ agent'[a].memory = agent[a].memory /\ agent'[a].kind = agent[a].kind
          /\ agent'[a].failed = agent[a].failed
          /\ \A b \in Agents : b # a => agent'[b] = agent[b]
        BY <1>4 DEF Acquire, RunLate, FindEnd, Operations
    <2>3. ~agent'[a].failed
        BY <2>2 DEF Owed
    <2> QED BY <2>1, <2>2, <2>3, SameLog, OwedStep DEF Projecting, Revoking, Wrote
<1>5. ASSUME NEW a \in Agents, Put(a) PROVE Owed'
    <2> DEFINE line == [kind |-> agent[a].kind, memory |-> agent[a].memory]
    <2>1. line \in Events /\ (atomic \/ agent[a].at = Len(log) + 1) /\ agent[a].pc = "put"
        BY <1>5 DEF Put, Operations, Events, Engaged, Ahead
    <2>2. log' = Append(log, line)
        BY <1>5, <2>1 DEF Put, Appended
    <2>3. \A k, m : Logged(k, m)' <=> Logged(k, m) \/ line = [kind |-> k, memory |-> m]
        BY <2>1, <2>2, PutLogs
    <2>4. /\ agent'[a].pc = "unlock" /\ agent'[a].kind = agent[a].kind
          /\ agent'[a].memory = agent[a].memory /\ points' = points /\ revoked' = revoked
          /\ agent'[a].failed = agent[a].failed
          /\ \A b \in Agents : b # a => agent'[b] = agent[b]
        BY <1>5 DEF Put, Operations
    <2>5. ~agent'[a].failed
        BY <2>4 DEF Owed
    <2>6. \A m \in Memories : Logged("write", m)' =>
              Logged("write", m) \/ Projecting(a, m)'
        BY <2>3, <2>4 DEF Projecting, Wrote
    <2>7. \A m \in Memories : Revoking(a, m) => Logged("revoke", m)'
        <3>1. agent[a].kind \in {"write", "revoke"}
            BY DEF Operations
        <3> QED BY <2>3, <3>1 DEF Revoking, Wrote
    <2>8. \A m : ~Projecting(a, m)
        BY <2>1 DEF Projecting
    <2> QED BY <2>3, <2>4, <2>5, <2>6, <2>7, <2>8, OwedStep
<1>6. ASSUME NEW a \in Agents, Unlock(a) PROVE Owed'
    <2>1. agent[a].pc = "unlock" /\ ~agent[a].failed /\ log' = log
          /\ points' = points /\ revoked' = revoked
          /\ \A b \in Agents : b # a => agent'[b] = agent[b]
        BY <1>6 DEF Unlock, Owed
    <2>2. CASE Wrote(a)
        <3>1. /\ agent'[a].pc = "project" /\ agent'[a].memory = agent[a].memory
              /\ agent'[a].kind = agent[a].kind /\ ~agent'[a].failed
            BY <1>6, <2>1, <2>2 DEF Unlock, After, Wrote, Operations
        <3> QED BY <2>1, <2>2, <3>1, SameLog, OwedStep DEF Projecting, Revoking, Wrote
    <2>3. CASE ~Wrote(a)
        <3>1. ~agent'[a].failed
            BY <1>6, <2>3 DEF Unlock, After, Wrote, Idle
        <3> QED BY <2>1, <2>3, <3>1, SameLog, OwedStep DEF Projecting, Revoking
    <2> QED BY <2>2, <2>3
<1>7. ASSUME NEW a \in Agents, Break(a) PROVE Owed'
    BY <1>0, <1>7 DEF Break
<1>8. ASSUME NEW m \in Memories, Expire(m) PROVE Owed'
    BY <1>0, <1>8 DEF Expire
<1> QED
    BY <1>0, <1>1, <1>2, <1>3, <1>4, <1>5, <1>6, <1>7, <1>8, NoKills, NoFaults
    DEF Next, Step, vars

LEMMA FaultsKept ==
    ASSUME Typed, faults' = 0, [Next]_vars PROVE faults = 0
<1>1. faults \in Nat /\ \A a \in Agents : ~AppendFails(a) /\ ~StoreFails(a)
    BY NoFaults DEF Typed, TypeOK
<1>2. CASE UNCHANGED vars
    BY <1>1, <1>2 DEF vars
<1>3. CASE Next
    <2>1. ASSUME NEW a \in Agents, Step(a) \/ Kill(a) PROVE faults' = faults
        BY <2>1 DEF Step, Revoke, Acquire, FindEnd, Put, Unlock, Project, RunLate, Break,
                    Kill, bounds
    <2>2. ASSUME NEW a \in Agents, NEW m \in Memories, Write(a, m) \/ Forget(a, m)
          PROVE  faults' = faults
        BY <2>2 DEF Write, Forget, bounds
    <2>3. ASSUME NEW m \in Memories, Expire(m) PROVE faults' = faults
        BY <2>3 DEF Expire, bounds
    <2> QED BY <1>1, <1>3, <2>1, <2>2, <2>3 DEF Next
<1> QED BY <1>1, <1>2, <1>3

\* Once every operation is over, of which none failed and none was killed,
\* log and store say the same, however many agents wrote and forgot at once.
THEOREM StoreCatchesUp == Spec => []LogTellsTheStore
<1> DEFINE Sound == LogKept /\ kills = 0 /\ faults = 0 => Owed
<1>1. Init => Sound
    BY DEF Init, Owed, Logged, Idle
<1>2. Typed /\ (LogKept => Ahead) /\ Sound /\ [Next]_vars => Sound'
    BY OwedKept, NoKills, FaultsKept, KeptBefore
<1>3. ASSUME Typed, LogKept => Ahead, Sound PROVE LogTellsTheStore
    <2> SUFFICES ASSUME LogKept, faults = 0, kills = 0, \A a \in Agents : At(a, "idle")
                 PROVE  Replay = points \ revoked
        BY DEF LogTellsTheStore
    <2>1. points \ revoked \subseteq Replay
        BY <1>3, AheadServes
    <2>2. \A a \in Agents, m \in Memories : ~Projecting(a, m) /\ ~Revoking(a, m)
        BY DEF At, Projecting, Revoking
    <2>3. Replay \subseteq points \ revoked
        BY <1>3, <2>2 DEF Owed, Replay
    <2> QED BY <2>1, <2>3
<1> QED BY <1>1, <1>2, <1>3, TypedAlways, AheadAlways, PTL DEF Spec
=============================================================================
