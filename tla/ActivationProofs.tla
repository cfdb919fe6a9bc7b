-------------------------- MODULE ActivationProofs --------------------------
(***************************************************************************)
(* Theorems about Activation, for every value of its constants: any number *)
(* of hooks and repositories, whatever may fail and any bounds, and where  *)
(* nothing else is said any number of operators.  The last part has those  *)
(* about HookEntry, the command the hooks of an active pilot run.          *)
(***************************************************************************)
EXTENDS Activation, HookPromises, Sequences, TLAPS

Snapshots == [file : [Files -> Contents], dirs : SUBSET Dirs]

States ==
    [pc : Commands, repo : Repos \cup {None}, next : 1..3,
     mine : SUBSET Files, made : SUBSET Dirs,
     approved : [Files -> {"none", "create", "conflict"}],
     before : Snapshots, base : Registries]

\* The names of a repository and of a profile are not confused, and a command
\* that enables has a repository and, when it writes, a file.
Named ==
    /\ file[1] \notin Repos /\ file[2] \notin {"profile", "trusted"}
    /\ \A o \in Operators :
          /\ op[o].pc \in {"planned", "enable", "write", "undo"} => op[o].repo \in Repos
          /\ op[o].pc = "write" => op[o].next \in Files

Typed == TypeOK /\ op \in [Operators -> States] /\ Named

-----------------------------------------------------------------------------
(* Types.                                                                  *)

LEMMA IdleType == Idle \in States
<1>1. FirstRegistry \in Registries
  BY RegistryAssumption DEF FirstRegistry, Registries, Entries
<1>2. Untouched \in Snapshots
  BY DEF Untouched, Snapshots, Contents, Dirs
<1>3. QED  BY <1>1, <1>2 DEF Idle, States, Commands, Files

LEMMA HomeType == \A i \in Files : Home(i) \in Dirs
BY DEF Home, Dirs

LEMMA MutationType == \A r, i : Mutation(r, i) \in {"none", "create", "conflict"}
BY DEF Mutation

LEMMA TypedInit == Init => Typed
<1> SUFFICES ASSUME Init PROVE Typed
  OBVIOUS
<1>1. op \in [Operators -> States] /\ \A o \in Operators : op[o] = Idle
  BY IdleType DEF Init
<1>2. \A o \in Operators : op[o] \in States /\ op[o].pc = "idle"
  BY <1>1, IdleType DEF Idle
<1>3. registry \in Registries /\ faults \in 0..MaxFaults /\ edits \in 0..MaxEdits
  BY RegistryAssumption, ActivationAssumption DEF Init, FirstRegistry, Registries, Entries
<1>4. /\ file \in [Files -> Contents] /\ \A i \in Files : file[i] = "absent"
      /\ dirs \subseteq Dirs /\ observed \in [Repos -> Latest]
      /\ hook \in [Hooks -> [repo : Repos \cup {None}, age : Latest]]
  BY HomeType DEF Init, Contents, Latest, NoHook
<1>5. Named
  BY <1>2, <1>4, ActivationAssumption DEF Named, Files
<1>6. TypeOK
  BY <1>2, <1>3, <1>4 DEF Init, TypeOK, States, Verdicts
<1>7. QED  BY <1>1, <1>5, <1>6 DEF Typed

\* A step of the command of o that leaves it a command.
Moves(o, to) == op' = [op EXCEPT ![o] = to]

\* A command that is given or ends.
LEMMA TypedMove ==
    ASSUME Typed, NEW o \in Operators, NEW to \in States, Moves(o, to),
           to.pc \in {"planned", "enable", "write", "undo"} => to.repo \in Repos,
           to.pc = "write" => to.next \in Files,
           file' \in [Files -> Contents], file'[1] \notin Repos,
           file'[2] \notin {"profile", "trusted"}, kind' = kind,
           dirs' \subseteq Dirs, \A i \in Files : file'[i] # "absent" => Home(i) \in dirs',
           observed' \in [Repos -> Latest], unmarked' \subseteq Repos,
           hook' \in [Hooks -> [repo : Repos \cup {None}, age : Latest]],
           session' \in BOOLEAN, unseen' \in BOOLEAN, registry' \in Registries,
           verdict' \in Verdicts, faults' \in 0..MaxFaults, edits' \in 0..MaxEdits
    PROVE  Typed'
<1>1. /\ op' \in [Operators -> States]
      /\ \A q \in Operators : op'[q] = IF q = o THEN to ELSE op[q]
  BY DEF Moves, Typed
<1>2. \A q \in Operators : op'[q] \in States
  BY <1>1
<1>3. Named'
  BY <1>1 DEF Named, Typed
<1>4. Home(1)' = Home(1) /\ Home(2)' = Home(2)
  BY DEF Home
<1>5. TypeOK'
  BY <1>2, <1>4 DEF TypeOK, Typed, States, Files
<1>6. QED  BY <1>1, <1>3, <1>5 DEF Typed

\* What a command may become: any place, with its records as they were or
\* of the right kind.
LEMMA Becomes ==
    ASSUME Typed, NEW o \in Operators, NEW pc \in Commands
    PROVE  /\ op[o] \in States /\ op \in [Operators -> States]
           /\ [op[o] EXCEPT !.pc = pc] \in States
           /\ [op[o] EXCEPT !.pc = pc].pc = pc
           /\ [op[o] EXCEPT !.pc = pc].repo = op[o].repo
           /\ [op[o] EXCEPT !.pc = pc].next = op[o].next
           /\ [op[o] EXCEPT !.pc = pc].mine = op[o].mine
BY DEF Typed, States

LEMMA GotoMoves ==
    ASSUME Typed, NEW o \in Operators, NEW pc \in Commands, Goto(o, pc)
    PROVE  Moves(o, [op[o] EXCEPT !.pc = pc])
BY DEF Typed, Moves, Goto

\* What a put leaves: the journal and the hooks age when the allowlist goes.
LEMMA PutType ==
    ASSUME Typed, NEW i \in Files, NEW c \in Contents, Put(i, c),
           i = 1 => c \notin Repos, i = 2 => c \notin {"profile", "trusted"}
    PROVE  /\ file' \in [Files -> Contents] /\ file'[1] \notin Repos
           /\ file'[2] \notin {"profile", "trusted"}
           /\ \A k \in Files : file'[k] = IF k = i THEN c ELSE file[k]
           /\ observed' \in [Repos -> Latest]
           /\ hook' \in [Hooks -> [repo : Repos \cup {None}, age : Latest]]
<1>1. \A age \in Latest : Aged(age) \in Latest
  BY DEF Aged, Latest
<1>2. /\ file \in [Files -> Contents] /\ observed \in [Repos -> Latest]
      /\ hook \in [Hooks -> [repo : Repos \cup {None}, age : Latest]]
      /\ file[1] \notin Repos /\ file[2] \notin {"profile", "trusted"}
  BY DEF Typed, TypeOK, Named
<1>3. observed' \in [Repos -> Latest]
  BY <1>1, <1>2 DEF Put
<1>4. hook' \in [Hooks -> [repo : Repos \cup {None}, age : Latest]]
  BY <1>1, <1>2 DEF Put
<1>5. \A k \in Files : file'[k] = IF k = i THEN c ELSE file[k]
  BY <1>2 DEF Put
<1>6. QED  BY <1>2, <1>3, <1>4, <1>5 DEF Put, Files

LEMMA ExpectedType ==
    ASSUME NEW r \in Repos, NEW i \in Files
    PROVE  /\ Expected(r, i) \in Contents
           /\ i = 1 => Expected(r, i) \notin Repos
           /\ i = 2 => Expected(r, i) \notin {"profile", "trusted"}
           /\ Expected(r, i) \notin {"absent", "foreign", "drifted"}
BY ActivationAssumption DEF Expected, Contents, Files

LEMMA FaultType ==
    ASSUME Typed, NEW what, Fault(what)
    PROVE  faults' \in 0..MaxFaults
BY ActivationAssumption DEF Typed, TypeOK, Fault

\* The commands that only look, and their ends.
LEMMA TypedLook ==
    ASSUME Typed, NEW o \in Operators,
           \/ Enable(o) \/ Disable(o) \/ Enabled(o) \/ Kill(o)
           \/ \E r \in Repos : Plan(o, r)
    PROVE  Typed'
<1>1. /\ UNCHANGED <<disk, journal, host, edits>>
      /\ faults' \in 0..MaxFaults
  BY FaultType DEF Enable, Disable, Enabled, Kill, Plan, bounds, Typed, TypeOK
<1>2. \E to \in States :
          /\ Moves(o, to) /\ to.pc # "write"
          /\ to.pc \in {"planned", "enable", "undo"} => to.repo \in Repos
  <2>1. CASE End(o)
    <3>1. Idle.pc = "idle"
      BY DEF Idle
    <3>2. QED  BY <2>1, <3>1, IdleType DEF End, Moves
  <2>2. ASSUME NEW r \in Repos, Plan(o, r)
        PROVE  \E to \in States : Moves(o, to) /\ to.pc = "planned" /\ to.repo \in Repos
    <3> DEFINE to == [Idle EXCEPT !.pc = "planned", !.repo = r, !.approved = Mutations(r)]
    <3>1. Mutations(r) \in [Files -> {"none", "create", "conflict"}]
      BY MutationType DEF Mutations
    <3>2. to \in States /\ to.pc = "planned" /\ to.repo = r
      BY <3>1, IdleType DEF States, Commands
    <3> HIDE DEF to
    <3>3. Moves(o, to)
      BY <2>2 DEF Plan, Moves, to
    <3>4. QED  BY <3>2, <3>3
  <2>3. CASE Enable(o) /\ ~End(o)
    <3> DEFINE snap == [file |-> file, dirs |-> dirs]
               to == [op[o] EXCEPT !.pc = "enable", !.before = snap]
    <3>1. snap \in Snapshots
      BY DEF Typed, TypeOK, Snapshots
    <3>2. op[o] \in States /\ op[o].repo \in Repos /\ op \in [Operators -> States]
      BY <2>3 DEF Typed, Named, Enable, At
    <3>3. Moves(o, to)
      BY <2>3, <3>2 DEF Enable, Moves
    <3> HIDE DEF snap
    <3>4. to \in States /\ to.pc = "enable" /\ to.repo \in Repos
      BY <3>1, <3>2 DEF States, Commands
    <3> HIDE DEF to
    <3>5. QED  BY <3>3, <3>4
  <2>4. CASE Disable(o)
    <3> DEFINE there == {i \in Files : file[i] # "absent"}
               to == [Idle EXCEPT !.pc = DisableStart(there), !.mine = there]
    <3>1. Moves(o, to)
      BY <2>4 DEF Disable, Moves
    <3>2. DisableStart(there) \in {"disable", "remove"} /\ there \in SUBSET Files
      BY DEF DisableStart
    <3> HIDE DEF there
    <3>3. to \in States /\ to.pc \in {"disable", "remove"}
      BY <3>2, IdleType DEF States, Commands
    <3> HIDE DEF to
    <3>4. QED  BY <3>1, <3>3
  <2>5. QED  BY <2>1, <2>2, <2>3, <2>4 DEF Enabled, Kill
<1>3. QED  BY <1>1, <1>2, TypedMove DEF disk, journal, host, Typed, TypeOK, Named

LEMMA TypedEnableFile ==
    ASSUME Typed, NEW o \in Operators, EnableFile(o)
    PROVE  Typed'
<1> DEFINE i == op[o].next
<1>1. /\ UNCHANGED <<kind, file, observed, unmarked, hook, session, registry, unseen, verdict>>
      /\ edits' = edits /\ i \in Files /\ op[o].pc = "enable"
      /\ op[o] \in States /\ op \in [Operators -> States] /\ op[o].repo \in Repos
  BY DEF EnableFile, At, journal, host, NoFault, bounds, Typed, Named
<1>2. dirs \subseteq dirs' /\ dirs' \subseteq Dirs
  BY <1>1, HomeType DEF EnableFile, Typed, TypeOK
<1>3. faults' \in 0..MaxFaults
  BY FaultType DEF EnableFile, NoFault, bounds, Typed, TypeOK
<1>4. \E to \in States :
          /\ Moves(o, to) /\ to.repo \in Repos /\ (to.pc = "write" => to.next \in Files)
  <2>1. CASE op' = [op EXCEPT ![o].next = i + 1]
    <3>1. [op[o] EXCEPT !.next = i + 1] \in States
      BY <1>1 DEF States, Files
    <3>2. QED  BY <1>1, <2>1, <3>1 DEF Moves, States
  <2>2. CASE Goto(o, "undo")
    BY ZenonT(60), <1>1, <2>2, Becomes, GotoMoves DEF Commands
  <2>3. CASE op' = [op EXCEPT ![o].pc = "write", ![o].mine = @ \cup {i},
                              ![o].made = @ \cup ({Home(i)} \ dirs)]
    <3> DEFINE to == [op[o] EXCEPT !.pc = "write", !.mine = @ \cup {i},
                                   !.made = @ \cup ({Home(i)} \ dirs)]
    <3>1. Moves(o, to)
      BY <1>1, <2>3 DEF Moves
    <3>2. Home(i) \in Dirs
      BY <1>1, HomeType
    <3>3. to \in States /\ to.repo = op[o].repo /\ to.next = i
      BY <1>1, <3>2 DEF States, Commands
    <3> HIDE DEF to
    <3>4. QED  BY <1>1, <3>1, <3>3
  <2>4. QED  BY <2>1, <2>2, <2>3 DEF EnableFile
<1>5. QED  BY <1>1, <1>2, <1>3, <1>4, TypedMove DEF Typed, TypeOK, Named

LEMMA TypedWriteFile ==
    ASSUME Typed, NEW o \in Operators, WriteFile(o)
    PROVE  Typed'
<1> DEFINE i == op[o].next
<1>1. /\ UNCHANGED <<kind, dirs, unmarked, session, registry, unseen, verdict>>
      /\ edits' = edits /\ i \in Files /\ op[o].pc = "write"
      /\ op[o] \in States /\ op \in [Operators -> States] /\ op[o].repo \in Repos
  BY DEF WriteFile, At, host, NoFault, bounds, Typed, Named
<1>2. faults' \in 0..MaxFaults
  BY FaultType DEF WriteFile, NoFault, bounds, Typed, TypeOK
<1>3. \E to \in States :
          /\ Moves(o, to) /\ to.repo \in Repos /\ to.pc # "write"
  <2>1. CASE op' = [op EXCEPT ![o].pc = "enable", ![o].next = i + 1]
    <3>1. PICK n \in 1..3 : n = i + 1
      BY <1>1 DEF Files
    <3>2. /\ [op[o] EXCEPT !.pc = "enable", !.next = n] \in States
          /\ [op[o] EXCEPT !.pc = "enable", !.next = n].pc = "enable"
          /\ [op[o] EXCEPT !.pc = "enable", !.next = n].repo = op[o].repo
      BY <1>1 DEF States, Commands
    <3>3. Moves(o, [op[o] EXCEPT !.pc = "enable", !.next = n])
      BY <1>1, <2>1, <3>1 DEF Moves
    <3>4. QED  BY <1>1, <3>2, <3>3
  <2>2. CASE Goto(o, "undo")
    BY <1>1, <2>2, Becomes, GotoMoves DEF Commands
  <2>3. QED  BY <2>1, <2>2 DEF WriteFile
<1>4. /\ file' \in [Files -> Contents] /\ file'[1] \notin Repos
      /\ file'[2] \notin {"profile", "trusted"} /\ observed' \in [Repos -> Latest]
      /\ hook' \in [Hooks -> [repo : Repos \cup {None}, age : Latest]]
      /\ \A k \in Files : file'[k] # "absent" => Home(k) \in dirs'
  <2>1. CASE Home(i) \in dirs /\ Put(i, Expected(op[o].repo, i))
    <3>1. /\ Expected(op[o].repo, i) \in Contents
          /\ i = 1 => Expected(op[o].repo, i) \notin Repos
          /\ i = 2 => Expected(op[o].repo, i) \notin {"profile", "trusted"}
      BY <1>1, ExpectedType
    <3>2. QED  BY <1>1, <2>1, <3>1, PutType DEF Typed, TypeOK
  <2>2. CASE UNCHANGED <<file, observed, hook>>
    BY <1>1, <2>2 DEF Typed, TypeOK, Named
  <2>3. QED  BY <2>1, <2>2 DEF WriteFile
<1>5. QED  BY <1>1, <1>2, <1>3, <1>4, TypedMove DEF Typed, TypeOK

\* Files are taken away, by a rollback or by disable.
LEMMA TypedTakeAway ==
    ASSUME Typed, NEW o \in Operators, UndoFile(o) \/ Remove(o)
    PROVE  Typed'
<1>1. /\ UNCHANGED <<kind, dirs, unmarked, session, registry, unseen, verdict>>
      /\ edits' = edits /\ op[o].pc \in {"undo", "remove"}
      /\ op[o] \in States /\ op \in [Operators -> States]
      /\ op[o].pc = "undo" => op[o].repo \in Repos
  BY DEF UndoFile, Remove, At, host, NoFault, bounds, Typed, Named
<1>2. faults' \in 0..MaxFaults
  BY FaultType DEF UndoFile, Remove, NoFault, bounds, Typed, TypeOK
<1>3. PICK i \in Files :
          /\ Put(i, "absent") \/ UNCHANGED <<file, observed, hook>>
          /\ End(o) \/ op' = [op EXCEPT ![o].mine = @ \ {i}]
  BY <1>1 DEF UndoFile, Remove, States
<1>4. \E to \in States :
          /\ Moves(o, to) /\ to.pc \notin {"planned", "enable", "write"}
          /\ to.pc = "undo" => to.repo \in Repos
  <2>1. CASE End(o)
    <3>1. Idle.pc = "idle"
      BY DEF Idle
    <3>2. QED  BY <2>1, <3>1, IdleType DEF End, Moves
  <2>2. CASE op' = [op EXCEPT ![o].mine = @ \ {i}]
    <3>1. [op[o] EXCEPT !.mine = @ \ {i}] \in States
      BY <1>1 DEF States
    <3>2. QED  BY <1>1, <2>2, <3>1 DEF Moves, States
  <2>3. QED  BY <1>3, <2>1, <2>2
<1>5. /\ file' \in [Files -> Contents] /\ file'[1] \notin Repos
      /\ file'[2] \notin {"profile", "trusted"} /\ observed' \in [Repos -> Latest]
      /\ hook' \in [Hooks -> [repo : Repos \cup {None}, age : Latest]]
      /\ \A k \in Files : file'[k] # "absent" => Home(k) \in dirs'
  <2>1. CASE Put(i, "absent")
    <3>1. "absent" \in Contents /\ "absent" \notin Repos
      BY ActivationAssumption DEF Contents
    <3>2. QED  BY <1>1, <2>1, <3>1, PutType DEF Typed, TypeOK
  <2>2. CASE UNCHANGED <<file, observed, hook>>
    BY <1>1, <2>2 DEF Typed, TypeOK, Named
  <2>3. QED  BY <1>3, <2>1, <2>2
<1>6. QED  BY <1>1, <1>2, <1>4, <1>5, TypedMove DEF Typed, TypeOK

\* The rollback of directories leaves those that hold a file.
LEMMA TypedUndoDirs ==
    ASSUME Typed, NEW o \in Operators, UndoDirs(o)
    PROVE  Typed'
<1>1. /\ UNCHANGED <<kind, file, observed, unmarked, hook, session, registry, unseen, verdict,
                     faults, edits>>
      /\ dirs' = dirs \ {d \in op[o].made : Empty(d)} /\ End(o)
  BY DEF UndoDirs, journal, host, bounds
<1>2. \A i \in Files : file'[i] # "absent" => Home(i) \in dirs'
  BY <1>1 DEF Empty, Typed, TypeOK
<1>3. Moves(o, Idle) /\ Idle.pc = "idle"
  BY <1>1 DEF End, Moves, Idle
<1>4. dirs' \subseteq Dirs
  BY <1>1 DEF Typed, TypeOK
<1>5. QED  BY <1>1, <1>2, <1>3, <1>4, IdleType, TypedMove DEF Typed, TypeOK, Named

LEMMA TypedMark ==
    ASSUME Typed, NEW o \in Operators, Mark(o)
    PROVE  Typed'
<1>1. /\ UNCHANGED <<kind, file, dirs, hook, session, registry, unseen, verdict, edits>>
      /\ op[o].pc = "disable"
  BY DEF Mark, At, disk, host, NoFault, bounds
<1>2. faults' \in 0..MaxFaults
  BY FaultType DEF Mark, NoFault, bounds, Typed, TypeOK
<1>3. \E to \in States : Moves(o, to) /\ to.pc \in {"idle", "remove"}
  <2>1. CASE End(o)
    BY <2>1, IdleType DEF End, Moves, Idle
  <2>2. CASE Goto(o, "remove")
    BY ZenonT(60), <2>2, Becomes, GotoMoves DEF Commands
  <2>3. QED  BY <2>1, <2>2 DEF Mark
<1>4. observed' \in [Repos -> Latest] /\ unmarked' \subseteq Repos
  <2>1. Owned(2) => file[2] \in Repos
    BY DEF Owned, Typed, TypeOK, Named, Contents, Files
  <2>2. observed \in [Repos -> Latest] /\ unmarked \subseteq Repos
    BY DEF Typed, TypeOK
  <2>3. observed' \in [Repos -> Latest]
    BY <2>1, <2>2 DEF Mark, Latest
  <2>4. QED  BY <2>1, <2>2, <2>3 DEF Mark
<1>5. QED  BY <1>1, <1>2, <1>3, <1>4, TypedMove DEF Typed, TypeOK, Named

\* run and the guard leave the disk and the journal alone.
Guards(o) ==
    \/ Capture(o) \/ Launch(o) \/ Poll(o) \/ Look(o) \/ Stop(o) \/ Judge(o)
    \/ \E r \in Repos : Run(o, r)

LEMMA GuardMoves ==
    ASSUME Typed, NEW o \in Operators, Guards(o)
    PROVE  /\ UNCHANGED <<disk, journal, edits>> /\ faults' \in 0..MaxFaults
           /\ session' \in BOOLEAN /\ registry' = registry /\ unseen' \in BOOLEAN
           /\ verdict' \in Verdicts
           /\ op[o].pc \in Guarding \cup {"idle"}
           /\ \E to \in States : Moves(o, to) /\ to.pc \in Guarding \cup {"idle"}
<1>1. /\ UNCHANGED <<disk, journal, edits>> /\ registry' = registry
      /\ op[o].pc \in Guarding \cup {"idle"}
  BY DEF Guards, Capture, Launch, Poll, Look, Stop, Judge, Run, At, host, bounds, NoFault,
         Guarding
<1>2. faults' \in 0..MaxFaults
  BY FaultType DEF Guards, Capture, Launch, Poll, Look, Stop, Judge, Run, host, bounds, NoFault,
         Typed, TypeOK
<1>3. session' \in BOOLEAN /\ unseen' \in BOOLEAN /\ verdict' \in Verdicts
  BY DEF Guards, Capture, Launch, Poll, Look, Stop, Judge, Run, host, Typed, TypeOK, Verdicts
<1>4. \E to \in States : Moves(o, to) /\ to.pc \in Guarding \cup {"idle"}
  <2>1. CASE End(o)
    BY <2>1, IdleType DEF End, Moves, Idle
  <2>2. ASSUME NEW pc \in Guarding, Goto(o, pc)
        PROVE  \E to \in States : Moves(o, to) /\ to.pc \in Guarding \cup {"idle"}
    <3>1. pc \in Commands
      BY DEF Guarding, Commands
    <3>2. Moves(o, [op[o] EXCEPT !.pc = pc])
      BY <2>2, <3>1, GotoMoves
    <3>3. [op[o] EXCEPT !.pc = pc] \in States /\ [op[o] EXCEPT !.pc = pc].pc = pc
      BY <3>1, Becomes
    <3>4. QED  BY <3>2, <3>3
  <2>3. CASE op' = [op EXCEPT ![o].pc = "launch", ![o].base = registry]
    <3>1. op[o] \in States /\ op \in [Operators -> States] /\ registry \in Registries
      BY DEF Typed, TypeOK
    <3>2. [op[o] EXCEPT !.pc = "launch", !.base = registry] \in States
      BY <3>1 DEF States, Commands
    <3>3. QED  BY <2>3, <3>1, <3>2 DEF Moves, States, Guarding
  <2>4. ASSUME NEW r \in Repos, Run(o, r)
        PROVE  \E to \in States : Moves(o, to) /\ to.pc \in Guarding \cup {"idle"}
    <3>1. PICK pc \in {"wait", "capture"} : Moves(o, [Idle EXCEPT !.pc = pc])
      BY <2>4 DEF Run, Moves
    <3>2. [Idle EXCEPT !.pc = pc] \in States /\ [Idle EXCEPT !.pc = pc].pc = pc
      BY IdleType DEF States, Commands
    <3>3. QED  BY <3>1, <3>2 DEF Guarding
  <2>5. Capture(o) => End(o) \/ op' = [op EXCEPT ![o].pc = "launch", ![o].base = registry]
    BY DEF Capture
  <2>6. Launch(o) \/ Poll(o) \/ Stop(o) \/ Judge(o) =>
            End(o) \/ \E pc \in Guarding : Goto(o, pc)
    BY DEF Launch, Poll, Stop, Judge, Guarding
  <2>7. Look(o) => Goto(o, "wait") \/ Goto(o, "stop")
    BY DEF Look
  <2>8. QED  BY <2>1, <2>2, <2>3, <2>4, <2>5, <2>6, <2>7 DEF Guards, Guarding
<1>5. QED  BY <1>1, <1>2, <1>3, <1>4

LEMMA TypedGuard ==
    ASSUME Typed, NEW o \in Operators, Guards(o)
    PROVE  Typed'
<1>1. PICK to \in States : Moves(o, to) /\ to.pc \in Guarding \cup {"idle"}
  BY GuardMoves
<1>2. QED  BY <1>1, GuardMoves, TypedMove DEF Guarding, disk, journal, Typed, TypeOK, Named

\* Hooks, the host and other sessions of it.
LEMMA TypedHost ==
    ASSUME Typed,
           \/ \E h \in Hooks : HookStarts(h) \/ HookEnds(h)
           \/ HostWrites \/ OthersWrite \/ HostTrusts \/ HostEnds
    PROVE  Typed'
<1>1. /\ UNCHANGED <<op, kind, dirs, unmarked, verdict, faults>>
  BY DEF HookStarts, HookEnds, HostWrites, OthersWrite, HostTrusts, HostEnds, disk, journal,
         host, bounds
<1>2. /\ session' \in BOOLEAN /\ unseen' \in BOOLEAN /\ registry' \in Registries
      /\ edits' \in 0..MaxEdits
  <2>1. /\ session \in BOOLEAN /\ unseen \in BOOLEAN /\ registry \in Registries
        /\ edits \in 0..MaxEdits /\ MaxEdits \in Nat /\ NextRegistries \subseteq Registries
    BY ActivationAssumption DEF Typed, TypeOK, NextRegistries
  <2>2. CASE OthersWrite
    BY <2>1, <2>2 DEF OthersWrite
  <2>3. CASE HostWrites
    BY <2>1, <2>3 DEF HostWrites, bounds
  <2>4. CASE HostTrusts \/ HostEnds \/ \E h \in Hooks : HookStarts(h) \/ HookEnds(h)
    BY <2>1, <2>4 DEF HostTrusts, HostEnds, HookStarts, HookEnds, host, bounds
  <2>5. QED  BY <2>2, <2>3, <2>4
<1>3. observed' \in [Repos -> Latest]
  <2>1. ASSUME NEW h \in Hooks, HookEnds(h) PROVE observed' \in [Repos -> Latest]
    <3>1. hook[h].age \in Latest /\ observed \in [Repos -> Latest]
      BY DEF Typed, TypeOK
    <3>2. QED  BY <2>1, <3>1 DEF HookEnds
  <2>2. QED  BY <2>1 DEF HookStarts, HostWrites, OthersWrite, HostTrusts, HostEnds, journal,
                 Typed, TypeOK
<1>4. hook' \in [Hooks -> [repo : Repos \cup {None}, age : Latest]]
  <2>1. ASSUME NEW h \in Hooks, HookStarts(h) \/ HookEnds(h)
        PROVE  hook' \in [Hooks -> [repo : Repos \cup {None}, age : Latest]]
    BY <2>1 DEF HookStarts, HookEnds, NoHook, Latest, Typed, TypeOK
  <2>2. QED  BY <2>1 DEF HostWrites, OthersWrite, HostTrusts, HostEnds, journal, Typed, TypeOK
<1>5. /\ file' \in [Files -> Contents] /\ file'[1] \notin Repos
      /\ file'[2] \notin {"profile", "trusted"}
      /\ \A i \in Files : file'[i] # "absent" => file[i] # "absent"
  BY ActivationAssumption
     DEF HookStarts, HookEnds, HostWrites, OthersWrite, HostTrusts, HostEnds, disk, Typed, TypeOK,
         Named, Files, Contents
<1>6. \A i \in Files : Home(i)' = Home(i)
  BY <1>1 DEF Home
<1>7. TypeOK'
  BY <1>1, <1>2, <1>3, <1>4, <1>5, <1>6 DEF TypeOK, Typed
<1>8. QED  BY <1>1, <1>5, <1>7 DEF Typed, Named

\* What the user leaves at i.
Edited(i) == IF file[i] = "absent" THEN "foreign" ELSE IF Owned(i) THEN "drifted" ELSE "absent"

\* The user touches the files, and what a failed enable should leave.
LEMMA EditMoves ==
    ASSUME Typed, NEW i \in Files, UserEdits(i)
    PROVE  /\ UNCHANGED <<kind, unmarked, host, faults>> /\ edits' = edits + 1
           /\ dirs' = dirs \cup {Home(i)} /\ Put(i, Edited(i))
           /\ Edited(i) \in {"foreign", "drifted", "absent"}
           /\ \A k \in Files : file'[k] = IF k = i THEN Edited(i) ELSE file[k]
           /\ op' \in [Operators -> States]
           /\ \A o \in Operators :
                 /\ op'[o].pc = op[o].pc /\ op'[o].repo = op[o].repo
                 /\ op'[o].next = op[o].next /\ op'[o].mine = op[o].mine
                 /\ op'[o].made = op[o].made
                 /\ op[o].pc # "idle" =>
                       /\ \A k \in Files : op'[o].before.file[k] =
                              IF k = i THEN Edited(i) ELSE op[o].before.file[k]
                       /\ op'[o].before.dirs = op[o].before.dirs \cup {Home(i)}
<1>1. /\ UNCHANGED <<kind, unmarked, host, faults>> /\ edits' = edits + 1
      /\ dirs' = dirs \cup {Home(i)} /\ Put(i, Edited(i))
      /\ Edited(i) \in {"foreign", "drifted", "absent"}
  BY DEF UserEdits, Edited
<1>2. \A k \in Files : file'[k] = IF k = i THEN Edited(i) ELSE file[k]
  BY <1>1 DEF Put, Typed, TypeOK
<1>3. PICK c \in Contents : c = Edited(i)
  BY <1>1 DEF Contents
<1>4. PICK d \in Dirs : d = Home(i)
  BY HomeType
<1> DEFINE Snap(o) == IF op[o].pc = "idle" THEN op[o].before
                      ELSE [file |-> [op[o].before.file EXCEPT ![i] = c],
                            dirs |-> op[o].before.dirs \cup {d}]
<1>5. op' = [o \in Operators |-> [op[o] EXCEPT !.before = Snap(o)]]
  BY <1>2, <1>3, <1>4 DEF UserEdits, At
<1>6. ASSUME NEW o \in Operators
      PROVE  /\ op'[o] \in States
             /\ op'[o].pc = op[o].pc /\ op'[o].repo = op[o].repo
             /\ op'[o].next = op[o].next /\ op'[o].mine = op[o].mine
             /\ op'[o].made = op[o].made
             /\ op[o].pc # "idle" =>
                   /\ \A k \in Files : op'[o].before.file[k] =
                          IF k = i THEN Edited(i) ELSE op[o].before.file[k]
                   /\ op'[o].before.dirs = op[o].before.dirs \cup {Home(i)}
  <2>1. op[o] \in States /\ op[o].before \in Snapshots
    BY DEF Typed, States
  <2>2. Snap(o) \in Snapshots
    BY <2>1 DEF Snapshots
  <2>3. op[o].pc # "idle" =>
            /\ \A k \in Files : Snap(o).file[k] = IF k = i THEN c ELSE op[o].before.file[k]
            /\ Snap(o).dirs = op[o].before.dirs \cup {d}
    BY <2>1 DEF Snapshots
  <2>4. PICK snap \in Snapshots : snap = Snap(o)
    BY <2>2
  <2>5. op'[o] = [op[o] EXCEPT !.before = snap]
    BY <1>5, <2>4
  <2>6. QED  BY <1>3, <1>4, <2>1, <2>3, <2>4, <2>5 DEF States
<1>7. op' \in [Operators -> States]
  BY <1>5, <1>6
<1>8. QED  BY <1>1, <1>2, <1>6, <1>7

LEMMA TypedEdit ==
    ASSUME Typed, NEW i \in Files, UserEdits(i)
    PROVE  Typed'
<1>1. PICK c \in {"foreign", "drifted", "absent"} : c = Edited(i)
  BY EditMoves
<1>2. /\ file' \in [Files -> Contents] /\ file'[1] \notin Repos
      /\ file'[2] \notin {"profile", "trusted"}
      /\ observed' \in [Repos -> Latest]
      /\ hook' \in [Hooks -> [repo : Repos \cup {None}, age : Latest]]
      /\ \A k \in Files : file'[k] = IF k = i THEN c ELSE file[k]
  <2>1. c \in Contents /\ c \notin Repos /\ c \notin {"profile", "trusted"} /\ Put(i, c)
    BY <1>1, EditMoves, ActivationAssumption DEF Contents
  <2>2. QED  BY <2>1, PutType
<1>3. /\ UNCHANGED <<kind, unmarked, session, registry, unseen, verdict, faults>>
      /\ dirs' = dirs \cup {Home(i)}
  BY EditMoves DEF host
<1>4. dirs' \subseteq Dirs /\ \A k \in Files : file'[k] # "absent" => Home(k)' \in dirs'
  BY <1>2, <1>3, HomeType DEF Home, Typed, TypeOK
<1>5. edits' \in 0..MaxEdits
  BY ActivationAssumption DEF UserEdits, Typed, TypeOK
<1>6. op' \in [Operators -> States] /\ Named'
  BY <1>2, EditMoves DEF Typed, Named
<1>7. \A o \in Operators : op'[o] \in States
  BY <1>6
<1>8. TypeOK'
  BY <1>2, <1>3, <1>4, <1>5, <1>7 DEF TypeOK, Typed, States
<1>9. QED  BY <1>6, <1>8 DEF Typed

LEMMA TypedStep ==
    ASSUME Typed, [Next]_vars
    PROVE  Typed'
<1>1. ASSUME UNCHANGED vars PROVE Typed'
  BY <1>1 DEF vars, disk, journal, host, bounds, Typed, TypeOK, Named, Home
<1>2. ASSUME NEW o \in Operators,
             \/ Enable(o) \/ Disable(o) \/ Step(o) \/ Kill(o)
             \/ \E r \in Repos : Plan(o, r) \/ Run(o, r)
      PROVE  Typed'
  BY <1>2, TypedLook, TypedEnableFile, TypedWriteFile, TypedTakeAway, TypedUndoDirs, TypedMark,
     TypedGuard DEF Step, Guards
<1>3. QED  BY <1>1, <1>2, TypedHost, TypedEdit DEF Next

\* Every reachable state is well-typed: a file that is there has its directory,
\* and no command works for a repository it was not given (activation.py).
THEOREM ActivationTypes == Spec => []TypeOK
<1>1. Typed => TypeOK
  BY DEF Typed
<1>2. QED  BY <1>1, TypedInit, TypedStep, PTL DEF Spec

-----------------------------------------------------------------------------
(* Foreign files.  Only Quiet is needed: what a command relies on is still  *)
(* so when it writes, for any number of operators.                          *)

Others == {"foreign", "drifted"}

\* What command o has looked at and is going to replace or remove is its own.
Kept(o) ==
    /\ At(o, "write") => file[op[o].next] \notin Others
    /\ At(o, "disable") /\ 1 \in op[o].mine => file[1] \notin Others
    /\ At(o, "remove") => \A i \in op[o].mine : file[i] \notin Others

AllKept == \A o \in Operators : Kept(o)

\* Steps of a command but those that put a file.
Looks(o) ==
    \/ Enable(o) \/ Disable(o) \/ Enabled(o) \/ Kill(o) \/ EnableFile(o) \/ UndoDirs(o)
    \/ Mark(o) \/ Guards(o) \/ \E r \in Repos : Plan(o, r)

Puts(o) == WriteFile(o) \/ UndoFile(o) \/ Remove(o)

\* Steps that no command takes, and that leave the commands alone.
HostSteps ==
    \/ \E h \in Hooks : HookStarts(h) \/ HookEnds(h)
    \/ HostWrites \/ OthersWrite \/ HostTrusts \/ HostEnds \/ UNCHANGED vars

LEMMA StepCases ==
    ASSUME [Next]_vars
    PROVE  \/ \E o \in Operators : Looks(o) \/ Puts(o)
           \/ HostSteps
           \/ \E i \in Files : UserEdits(i)
BY DEF Next, Step, Looks, Puts, Guards, HostSteps

LEMMA OthersStay ==
    ASSUME Typed, NEW o \in Operators, Looks(o) \/ Puts(o)
    PROVE  \A q \in Operators \ {o} : op'[q] = op[q]
<1>1. op \in [Operators -> States]
  BY DEF Typed
<1>2. CASE Guards(o)
  BY <1>1, <1>2, GuardMoves DEF Moves
<1>3. CASE ~Guards(o)
  BY <1>1, <1>3 DEF Looks, Puts, Enable, Disable, Enabled, Kill, EnableFile, UndoDirs, Mark, Plan,
     WriteFile, UndoFile, Remove, Goto, End
<1>4. QED  BY <1>2, <1>3

LEMMA LooksKeepFiles == ASSUME Typed, NEW o \in Operators, Looks(o) PROVE file' = file
BY GuardMoves DEF Looks, Enable, Disable, Enabled, Kill, EnableFile, UndoDirs, Mark, Plan, disk

\* What a command puts, and where.
LEMMA PutMoves ==
    ASSUME Typed, NEW o \in Operators, Puts(o)
    PROVE  \/ file' = file /\ observed' = observed /\ hook' = hook
           \/ /\ WriteFile(o) /\ Put(op[o].next, Expected(op[o].repo, op[o].next))
              /\ op[o].next \in Files /\ op[o].repo \in Repos
           \/ \E i \in op[o].mine : i \in Files /\ Put(i, "absent") /\
                 \/ UndoFile(o) /\ op[o].repo \in Repos /\ file[i] = Expected(op[o].repo, i)
                 \/ Remove(o)
<1>1. op[o] \in States
  BY DEF Typed
<1>2. CASE WriteFile(o)
  BY <1>2 DEF WriteFile, Typed, Named, At
<1>3. CASE UndoFile(o)
  BY <1>1, <1>3 DEF UndoFile, Undoes, Typed, Named, At, States
<1>4. CASE Remove(o)
  BY <1>1, <1>4 DEF Remove, States
<1>5. QED  BY <1>2, <1>3, <1>4 DEF Puts

LEMMA PutAt ==
    ASSUME Typed, NEW i \in Files, NEW c, Put(i, c)
    PROVE  \A k \in Files : file'[k] = IF k = i THEN c ELSE file[k]
BY DEF Put, Typed, TypeOK

LEMMA TrustsAt ==
    ASSUME Typed, HostSteps
    PROVE  /\ op' = op /\ edits' \in {edits, edits + 1}
           /\ \/ file' = file
              \/ /\ HostTrusts /\ session /\ file[1] = "profile" /\ file'[1] = "trusted"
                 /\ file'[2] = file[2]
BY DEF HostSteps, HookStarts, HookEnds, HostWrites, OthersWrite, HostTrusts, HostEnds, disk, vars,
   bounds, Typed, TypeOK, Files

\* A file of others comes from the user alone.
LEMMA OnlyUsers ==
    ASSUME Typed, (\E o \in Operators : Looks(o) \/ Puts(o)) \/ HostSteps, NEW i \in Files
    PROVE  file[i] \notin Others => file'[i] \notin Others
<1>1. ASSUME NEW o \in Operators, Looks(o) PROVE file'[i] = file[i]
  BY <1>1, LooksKeepFiles
<1>2. ASSUME NEW o \in Operators, Puts(o) PROVE file[i] \notin Others => file'[i] \notin Others
  <2>1. \A k \in Files, r \in Repos : Expected(r, k) \notin Others
    BY ExpectedType DEF Others
  <2>2. QED  BY <1>2, <2>1, PutMoves, PutAt DEF Others
<1>3. CASE HostSteps
  BY <1>3, TrustsAt DEF Others, Files
<1>4. QED  BY <1>1, <1>2, <1>3

LEMMA KeptLooks ==
    ASSUME Typed, NEW o \in Operators, Kept(o), Looks(o)
    PROVE  Kept(o)'
<1>1. file' = file /\ op \in [Operators -> States] /\ op[o] \in States
  BY LooksKeepFiles DEF Typed
<1>2. CASE EnableFile(o)
  <2>1. PICK i \in Files : i = op[o].next
    BY <1>2 DEF EnableFile
  <2>2. Decision(o) = "create" => file[i] = "absent"
    BY <2>1 DEF Decision, Mutation
  <2>3. op'[o].pc = "write" => op'[o].next = i /\ Decision(o) = "create"
    BY <1>1, <1>2, <2>1 DEF EnableFile, Goto, At, States
  <2>4. op'[o].pc \in {"enable", "undo", "write"}
    BY <1>1, <1>2 DEF EnableFile, Goto, At, States
  <2>5. QED  BY <1>1, <2>2, <2>3, <2>4 DEF Kept, At, Others
<1>3. CASE Disable(o)
  <2> DEFINE there == {i \in Files : file[i] # "absent"}
  <2>1. \A i \in there : file[i] \notin Others
    BY <1>3 DEF Disable, Owned, Others
  <2>2. op'[o] = [Idle EXCEPT !.pc = DisableStart(there), !.mine = there]
    BY <1>1, <1>3 DEF Disable
  <2>3. DisableStart(there) \in {"disable", "remove"}
    BY DEF DisableStart
  <2> HIDE DEF there
  <2>4. op'[o].mine = there /\ op'[o].pc \in {"disable", "remove"}
    BY <2>2, <2>3 DEF Idle
  <2>5. QED  BY <1>1, <2>1, <2>4 DEF Kept, At
<1>4. CASE Mark(o)
  <2>1. \/ op'[o].pc = "idle"
        \/ op'[o].pc = "remove" /\ op'[o].mine = op[o].mine /\ Owned(2)
    BY <1>1, <1>4 DEF Mark, Goto, End, Idle, States
  <2>2. At(o, "disable") /\ op[o].mine \subseteq Files
    BY <1>1, <1>4 DEF Mark, States
  <2>3. QED  BY <1>1, <2>1, <2>2 DEF Kept, At, Owned, Others, Files
<1>5. CASE \/ Enable(o) \/ Enabled(o) \/ Kill(o) \/ UndoDirs(o)
           \/ \E r \in Repos : Plan(o, r)
  <2>1. Enabled(o) \/ Kill(o) \/ UndoDirs(o) => op'[o].pc = "idle"
    BY <1>1 DEF Enabled, Kill, UndoDirs, End, Idle
  <2>2. Enable(o) => op'[o].pc \in {"idle", "enable"}
    BY <1>1 DEF Enable, End, Idle, States
  <2>3. \A r \in Repos : Plan(o, r) => op'[o].pc = "planned"
    BY <1>1 DEF Plan, Idle
  <2>4. op'[o].pc \in {"idle", "planned", "enable"}
    BY <1>5, <2>1, <2>2, <2>3
  <2>5. QED  BY <2>4 DEF Kept, At
<1>6. CASE Guards(o)
  <2>1. op'[o].pc \in Guarding \cup {"idle"}
    BY <1>1, <1>6, GuardMoves DEF Moves
  <2>2. QED  BY <2>1 DEF Kept, At, Guarding
<1>7. QED  BY <1>2, <1>3, <1>4, <1>5, <1>6 DEF Looks

LEMMA KeptPuts ==
    ASSUME Typed, NEW o \in Operators, Kept(o), Puts(o)
    PROVE  Kept(o)'
<1>1. op \in [Operators -> States] /\ op[o] \in States /\ op[o].mine \subseteq Files
  BY DEF Typed, States
<1>2. CASE WriteFile(o) \/ UndoFile(o)
  <2>1. op'[o].pc \in {"idle", "enable", "undo"}
    BY <1>1, <1>2 DEF WriteFile, UndoFile, Goto, End, Idle, States, At
  <2>2. QED  BY <2>1 DEF Kept, At
<1>3. CASE Remove(o)
  <2>1. /\ op[o].pc = "remove"
        /\ \/ op'[o].pc = "idle"
           \/ op'[o].pc = "remove" /\ op'[o].mine \subseteq op[o].mine
    BY <1>1, <1>3 DEF Remove, End, Idle, States, At
  <2>2. \A i \in op[o].mine : file[i] \notin Others => file'[i] \notin Others
    BY <1>1, OnlyUsers
  <2>3. QED  BY <2>1, <2>2 DEF Kept, At
<1>4. QED  BY <1>2, <1>3 DEF Puts

LEMMA KeptStep ==
    ASSUME Quiet, Typed, AllKept, [Next]_vars
    PROVE  AllKept'
<1>1. ASSUME NEW q \in Operators, op'[q] = op[q], \A i \in Files : file[i] \notin Others =>
                                                                   file'[i] \notin Others
      PROVE  Kept(q)'
  <2>1. op[q] \in States /\ (op[q].pc = "write" => op[q].next \in Files)
    BY DEF Typed, Named
  <2>2. op[q].mine \subseteq Files /\ 1 \in Files
    BY <2>1 DEF States, Files
  <2>3. QED  BY <1>1, <2>1, <2>2 DEF AllKept, Kept, At
<1>2. ASSUME NEW o \in Operators, Looks(o) \/ Puts(o) PROVE AllKept'
  <2>1. Kept(o)'
    BY <1>2, KeptLooks, KeptPuts DEF AllKept
  <2>2. QED  BY <1>1, <1>2, <2>1, OthersStay, OnlyUsers DEF AllKept
<1>3. CASE HostSteps
  BY <1>1, <1>3, TrustsAt, OnlyUsers DEF AllKept
<1>4. ASSUME NEW i \in Files, UserEdits(i), NEW o \in Operators PROVE Kept(o)'
  <2>1. ~Relies(o, i)
    BY <1>4 DEF UserEdits
  <2>2. /\ op'[o].pc = op[o].pc /\ op'[o].next = op[o].next /\ op'[o].mine = op[o].mine
        /\ \A k \in Files : k # i => file'[k] = file[k]
    BY <1>4, EditMoves
  <2>3. op[o] \in States /\ (op[o].pc = "write" => op[o].next \in Files)
    BY DEF Typed, Named
  <2>4. op[o].mine \subseteq Files /\ 1 \in Files
    BY <2>3 DEF States, Files
  <2>5. QED  BY <2>1, <2>2, <2>3, <2>4 DEF AllKept, Kept, At, Relies, Files
<1>5. QED  BY <1>2, <1>3, <1>4, StepCases DEF AllKept

LEMMA ForeignStays ==
    ASSUME Typed, AllKept, [Next]_vars, NEW i \in Files, file[i] \in Others
    PROVE  file'[i] = file[i] \/ edits' # edits
<1>1. ASSUME NEW o \in Operators, Puts(o) PROVE file'[i] = file[i]
  <2>1. \A k \in Files, r \in Repos : Expected(r, k) \notin Others
    BY ExpectedType DEF Others
  <2>2. /\ WriteFile(o) => file[op[o].next] \notin Others
        /\ Remove(o) => \A k \in op[o].mine : file[k] \notin Others
    BY DEF WriteFile, Remove, AllKept, Kept
  <2>3. QED  BY <1>1, <2>1, <2>2, PutMoves, PutAt
<1>2. CASE HostSteps
  BY <1>2, TrustsAt DEF Others, Files
<1>3. ASSUME NEW k \in Files, UserEdits(k) PROVE edits' # edits
  BY <1>3, EditMoves DEF Typed, TypeOK
<1>4. QED  BY <1>1, <1>2, <1>3, StepCases, LooksKeepFiles

\* A file that is not the pilot's, or no longer is, is changed by its owner
\* alone, for any number of operators and whatever fails, if nobody edits a file
\* between a look at it and the write that relies on it (_planned_mutation, the
\* rollback of enable and the checks of disable, activation.py).
THEOREM ForeignTheorem ==
    ASSUME Quiet
    PROVE  Spec => ForeignIsKept
<1>1. Init => Typed /\ AllKept
  BY TypedInit DEF Init, AllKept, Kept, At, Idle
<1>2. Typed /\ AllKept /\ [Next]_vars => (Typed /\ AllKept)'
  BY TypedStep, KeptStep
<1>3. Typed /\ AllKept /\ [Next]_vars =>
          [\A i \in Files : file[i] \in {"foreign", "drifted"} =>
               file'[i] = file[i] \/ edits' # edits]_vars
  BY ForeignStays DEF Others
<1>4. QED  BY <1>1, <1>2, <1>3, PTL DEF Spec, ForeignIsKept

-----------------------------------------------------------------------------
(* One operator.  The code takes no lock, so two commands at once can       *)
(* mistake each other's files for those they found; alone, and Quiet, a     *)
(* command knows what it changed and that no hook runs meanwhile.           *)

Alone == \A p, q \in Operators : p = q

Enabling(o) == op[o].pc \in {"enable", "write", "undo"}
Handling(o) == Enabling(o) \/ op[o].pc \in {"disable", "remove"}

\* No hook runs under a command that changes files, and what it is about to
\* create is one of the files it would undo, and not there.
Calm(o) ==
    /\ Handling(o) => Closed
    /\ At(o, "planned") => op[o].mine = {} /\ op[o].made = {}
    /\ At(o, "write") => op[o].next \in op[o].mine /\ file[op[o].next] = "absent"

\* The steps of a command that put nothing, by what they leave of it.
Planned(o) == op'[o].pc = "planned" /\ op'[o].mine = {} /\ op'[o].made = {} /\ dirs' = dirs

Approved(o) ==
    /\ At(o, "planned") /\ op'[o].pc = "enable" /\ (Quiet => Closed)
    /\ op'[o].mine = op[o].mine /\ op'[o].made = op[o].made
    /\ op'[o].before = [file |-> file, dirs |-> dirs] /\ dirs' = dirs

GoesOn(o) ==
    /\ At(o, "enable") /\ op'[o].pc \in {"enable", "undo"} /\ dirs' = dirs
    /\ op'[o] = [op[o] EXCEPT !.pc = op'[o].pc, !.next = op'[o].next]

Prepares(o) ==
    LET i == op[o].next IN
    /\ At(o, "enable") /\ op'[o].pc = "write" /\ i \in Files /\ file[i] = "absent"
    /\ dirs' = dirs \cup {Home(i)}
    /\ op'[o] = [op[o] EXCEPT !.pc = "write", !.mine = @ \cup {i},
                              !.made = @ \cup ({Home(i)} \ dirs)]

Disables(o) ==
    /\ (Quiet => Closed) /\ op'[o].pc \in {"disable", "remove"}
    /\ op'[o].pc = "remove" => 2 \notin op'[o].mine

Marks(o) == Mark(o) /\ op'[o].pc = "remove" /\ op'[o].mine = op[o].mine /\ Owned(2)

LEMMA EnableFileCases ==
    ASSUME Typed, NEW o \in Operators, EnableFile(o)
    PROVE  GoesOn(o) \/ Prepares(o)
<1>1. op \in [Operators -> States] /\ op[o] \in States
  BY DEF Typed
<1>2. PICK i \in Files : i = op[o].next
  BY DEF EnableFile
<1>3. At(o, "enable")
  BY DEF EnableFile
<1>4. CASE Decision(o) = "none" /\ op' = [op EXCEPT ![o].next = i + 1] /\ dirs' = dirs
  <2>1. op'[o] = [op[o] EXCEPT !.next = i + 1]
    BY <1>1, <1>4
  <2>2. op'[o].pc = "enable" /\ op'[o].next = i + 1
    BY <1>1, <1>3, <2>1 DEF States, At
  <2>3. op'[o] = [op[o] EXCEPT !.pc = op'[o].pc, !.next = op'[o].next]
    BY <1>1, <1>3, <2>1, <2>2 DEF States, At
  <2>4. QED  BY <1>3, <1>4, <2>2, <2>3 DEF GoesOn
<1>5. CASE Goto(o, "undo") /\ dirs' = dirs
  <2>1. op'[o] = [op[o] EXCEPT !.pc = "undo"]
    BY <1>1, <1>5 DEF Goto
  <2>2. op'[o].pc = "undo" /\ op'[o].next = op[o].next
    BY <1>1, <2>1 DEF States
  <2>3. op'[o] = [op[o] EXCEPT !.pc = op'[o].pc, !.next = op'[o].next]
    BY <1>1, <2>1, <2>2 DEF States
  <2>4. QED  BY <1>3, <1>5, <2>2, <2>3 DEF GoesOn
<1>6. CASE /\ Decision(o) = "create" /\ dirs' = dirs \cup {Home(i)}
           /\ op' = [op EXCEPT ![o].pc = "write", ![o].mine = @ \cup {i},
                               ![o].made = @ \cup ({Home(i)} \ dirs)]
  <2>1. op'[o] = [op[o] EXCEPT !.pc = "write", !.mine = @ \cup {i},
                               !.made = @ \cup ({Home(i)} \ dirs)]
    BY <1>1, <1>6
  <2>2. op'[o].pc = "write"
    BY <1>1, <2>1 DEF States
  <2>3. file[i] = "absent"
    BY <1>2, <1>6 DEF Decision, Mutation
  <2>4. QED  BY <1>2, <1>3, <1>6, <2>1, <2>2, <2>3 DEF Prepares
<1>7. QED  BY <1>2, <1>4, <1>5, <1>6 DEF EnableFile

LEMMA LookCases ==
    ASSUME Typed, NEW o \in Operators, Looks(o)
    PROVE  \/ op'[o].pc \in Guarding \cup {"idle"}
           \/ Planned(o) \/ Approved(o) \/ GoesOn(o) \/ Prepares(o) \/ Disables(o) \/ Marks(o)
<1>1. op \in [Operators -> States] /\ op[o] \in States
  BY DEF Typed
<1>2. Enabled(o) \/ Kill(o) \/ UndoDirs(o) => op'[o].pc = "idle"
  BY <1>1 DEF Enabled, Kill, UndoDirs, End, Idle
<1>3. Guards(o) => op'[o].pc \in Guarding \cup {"idle"}
  BY <1>1, GuardMoves DEF Moves
<1>4. \A r \in Repos : Plan(o, r) => Planned(o)
  BY <1>1 DEF Plan, Idle, Planned, disk
<1>5. CASE Enable(o)
  <2>1. CASE End(o)
    BY <1>1, <2>1 DEF End, Idle
  <2>2. CASE op' = [op EXCEPT ![o].pc = "enable", ![o].before = [file |-> file, dirs |-> dirs]]
    <3>1. op'[o] = [op[o] EXCEPT !.pc = "enable", !.before = [file |-> file, dirs |-> dirs]]
      BY <1>1, <2>2
    <3>2. /\ op'[o].pc = "enable" /\ op'[o].mine = op[o].mine /\ op'[o].made = op[o].made
          /\ op'[o].before = [file |-> file, dirs |-> dirs]
      BY <1>1, <3>1 DEF States
    <3>3. QED  BY <1>5, <3>2 DEF Enable, Approved, disk
  <2>3. QED  BY <1>5, <2>1, <2>2 DEF Enable
<1>6. CASE Disable(o)
  <2> DEFINE there == {i \in Files : file[i] # "absent"}
  <2>1. op'[o] = [Idle EXCEPT !.pc = DisableStart(there), !.mine = there]
    BY <1>1, <1>6 DEF Disable
  <2>2. DisableStart(there) \in {"disable", "remove"}
        /\ (DisableStart(there) = "remove" => 2 \notin there)
    BY DEF DisableStart
  <2>3. Quiet => Closed
    BY <1>6 DEF Disable
  <2> HIDE DEF there
  <2>4. op'[o].mine = there /\ op'[o].pc = DisableStart(there)
    BY <2>1 DEF Idle
  <2>5. QED  BY <2>2, <2>3, <2>4 DEF Disables
<1>7. CASE Mark(o)
  BY <1>1, <1>7 DEF Mark, Marks, Goto, End, Idle, States
<1>8. QED  BY <1>2, <1>3, <1>4, <1>5, <1>6, <1>7, EnableFileCases DEF Looks

LEMMA PutHooks ==
    ASSUME Typed, NEW i \in Files, NEW c, Put(i, c), Closed
    PROVE  \A h \in Hooks : hook'[h] = NoHook
<1>1. \A h \in Hooks : hook[h] = NoHook
  BY DEF Closed
<1>2. [NoHook EXCEPT !.age = Aged(@)] = NoHook
  BY DEF NoHook, Aged
<1>3. \A h \in Hooks : [hook[h] EXCEPT !.age = Aged(@)] = NoHook
  BY <1>1, <1>2
<1>4. QED  BY <1>1, <1>3 DEF Put

\* The host does not start, nor a hook, but by a command that runs it.
LEMMA StaysClosed ==
    ASSUME Typed, Closed,
           \/ \E o \in Operators : Looks(o) /\ op'[o].pc \notin Guarding \cup {"idle"}
           \/ \E o \in Operators : Puts(o)
           \/ HostSteps
           \/ \E i \in Files : UserEdits(i)
    PROVE  Closed'
<1>1. ~session /\ \A h \in Hooks : hook[h] = NoHook
  BY DEF Closed
<1>2. ASSUME NEW o \in Operators, Looks(o), op'[o].pc \notin Guarding \cup {"idle"}
      PROVE  session' = session /\ hook' = hook
  <2>1. ~Guards(o)
    BY <1>2, GuardMoves DEF Moves, Typed
  <2>2. QED  BY <1>2, <2>1 DEF Looks, Enable, Disable, Enabled, Kill, EnableFile, UndoDirs, Mark,
                               Plan, host, journal
<1>3. ASSUME NEW o \in Operators, Puts(o)
      PROVE  session' = session /\ \A h \in Hooks : hook'[h] = NoHook
  <2>1. session' = session
    BY <1>3 DEF Puts, WriteFile, UndoFile, Remove, host
  <2>2. QED  BY <1>1, <1>3, <2>1, PutMoves, PutHooks
<1>4. ASSUME HostSteps PROVE session' = FALSE /\ \A h \in Hooks : hook'[h] = NoHook
  BY <1>1, <1>4 DEF HostSteps, HookStarts, HookEnds, HostWrites, OthersWrite, HostTrusts, HostEnds,
     journal, host, vars
<1>5. ASSUME NEW i \in Files, UserEdits(i)
      PROVE  session' = session /\ \A h \in Hooks : hook'[h] = NoHook
  <2>1. Put(i, Edited(i)) /\ session' = session
    BY <1>5, EditMoves DEF host
  <2>2. QED  BY <2>1, PutHooks
<1>6. QED  BY <1>1, <1>2, <1>3, <1>4, <1>5 DEF Closed

LEMMA CalmLooks ==
    ASSUME Quiet, Typed, NEW o \in Operators, Calm(o), Looks(o)
    PROVE  Calm(o)'
<1>1. op[o] \in States
  BY DEF Typed
<1>2. file' = file
  BY LooksKeepFiles
<1>3. CASE op'[o].pc \in Guarding \cup {"idle"}
  BY <1>3 DEF Guarding, Calm, Handling, Enabling, At
<1>4. CASE Planned(o)
  BY <1>4 DEF Planned, Calm, Handling, Enabling, At
<1>5. CASE Approved(o) \/ GoesOn(o) \/ Prepares(o) \/ Disables(o) \/ Marks(o)
  <2>1. Closed
    BY <1>5 DEF Approved, GoesOn, Prepares, Disables, Marks, Mark, Calm, Handling, Enabling, At
  <2>2. op'[o].pc \in {"enable", "undo", "write", "disable", "remove"}
    BY <1>5 DEF Approved, GoesOn, Prepares, Disables, Marks
  <2>3. op'[o].pc \notin Guarding \cup {"idle"}
    BY <2>2 DEF Guarding
  <2>4. Closed'
    BY <2>1, <2>3, StaysClosed
  <2>5. op'[o].pc = "write" => Prepares(o)
    BY <1>5 DEF Approved, GoesOn, Disables, Marks
  <2>6. Prepares(o) => op'[o].next \in op'[o].mine /\ file[op'[o].next] = "absent"
    BY <1>1 DEF Prepares, States
  <2>7. QED  BY <1>2, <2>2, <2>4, <2>5, <2>6 DEF Calm, At
<1>6. QED  BY <1>3, <1>4, <1>5, LookCases

LEMMA CalmPuts ==
    ASSUME Typed, NEW o \in Operators, Calm(o), Puts(o)
    PROVE  Calm(o)'
<1>1. op \in [Operators -> States] /\ op[o] \in States
  BY DEF Typed
<1>2. Closed
  BY DEF Puts, WriteFile, UndoFile, Remove, Calm, Handling, Enabling, At
<1>3. Closed'
  BY <1>2, StaysClosed
<1>4. WriteFile(o) => op'[o].pc \in {"enable", "undo"}
  BY <1>1 DEF WriteFile, Goto, States
<1>5. UndoFile(o) => op'[o].pc \in {"undo", "idle"}
  BY <1>1 DEF UndoFile, End, Idle, States, At
<1>6. Remove(o) => op'[o].pc \in {"remove", "idle"}
  BY <1>1 DEF Remove, End, Idle, States, At
<1>7. QED  BY <1>3, <1>4, <1>5, <1>6 DEF Puts, Calm, At

LEMMA CalmHost ==
    ASSUME Typed, NEW o \in Operators, Calm(o), HostSteps
    PROVE  Calm(o)'
<1>1. op' = op /\ (Closed => file' = file)
  BY TrustsAt DEF Closed
<1>2. Closed => Closed'
  BY StaysClosed
<1>3. QED  BY <1>1, <1>2 DEF Calm, Handling, Enabling, At

LEMMA CalmEdit ==
    ASSUME Quiet, Typed, NEW o \in Operators, Calm(o), NEW i \in Files, UserEdits(i)
    PROVE  Calm(o)'
<1>1. ~Relies(o, i)
  BY DEF UserEdits
<1>2. Closed => Closed'
  BY StaysClosed
<1>3. /\ op'[o].pc = op[o].pc /\ op'[o].next = op[o].next /\ op'[o].mine = op[o].mine
      /\ op'[o].made = op[o].made /\ \A k \in Files : k # i => file'[k] = file[k]
  BY EditMoves
<1>4. op[o].pc = "write" => op[o].next \in Files
  BY DEF Typed, Named
<1>5. QED  BY <1>1, <1>2, <1>3, <1>4 DEF Calm, Relies, Handling, Enabling, At

LEMMA CalmStep ==
    ASSUME Quiet, Alone, Typed, NEW o \in Operators, Calm(o), [Next]_vars
    PROVE  Calm(o)'
BY StepCases, CalmLooks, CalmPuts, CalmHost, CalmEdit DEF Alone

\* What o has not created is as it would be without it; what it has, and it
\* still is what it wrote, would not be there.
AsBefore(o, i) ==
    IF i \in op[o].mine /\ file[i] = Expected(op[o].repo, i)
    THEN op[o].before.file[i] = "absent"
    ELSE file[i] = op[o].before.file[i]

\* A command that enables can undo what it did.
WayBack(o) == Enabling(o) =>
    /\ \A i \in Files : AsBefore(o, i)
    /\ \A i \in Files : op[o].before.file[i] # "absent" => Home(i) \in op[o].before.dirs
    /\ dirs \subseteq op[o].before.dirs \cup op[o].made

LEMMA WayBackLooks ==
    ASSUME Typed, NEW o \in Operators, Calm(o), WayBack(o), Looks(o)
    PROVE  WayBack(o)'
<1>1. file' = file /\ kind' = kind /\ op[o] \in States /\ op \in [Operators -> States]
  <2>1. kind' = kind
    BY GuardMoves DEF Looks, Enable, Disable, Enabled, Kill, EnableFile, UndoDirs, Mark, Plan, disk
  <2>2. QED  BY <2>1, LooksKeepFiles DEF Typed
<1>2. CASE op'[o].pc \in Guarding \cup {"idle"} \/ Planned(o) \/ Disables(o) \/ Marks(o)
  BY <1>2 DEF Guarding, Planned, Disables, Marks, WayBack, Enabling
<1>3. CASE Approved(o)
  <2>1. op'[o].mine = {} /\ op'[o].before.file = file /\ op'[o].before.dirs = dirs /\ dirs' = dirs
    BY <1>3 DEF Approved, Calm
  <2>2. \A i \in Files : AsBefore(o, i)'
    BY <1>1, <2>1 DEF AsBefore
  <2>3. \A i \in Files : file[i] # "absent" => Home(i)' \in dirs
    BY <1>1 DEF Typed, TypeOK, Home
  <2>4. QED  BY <2>1, <2>2, <2>3 DEF WayBack
<1>4. CASE GoesOn(o)
  <2>1. op'[o].mine = op[o].mine /\ op'[o].made = op[o].made /\ op'[o].before = op[o].before
        /\ op'[o].repo = op[o].repo /\ dirs' = dirs
    BY <1>1, <1>4 DEF GoesOn, States
  <2>2. Enabling(o)
    BY <1>4 DEF GoesOn, Enabling, At
  <2>3. QED  BY <1>1, <2>1, <2>2 DEF WayBack, AsBefore, Home
<1>5. CASE Prepares(o)
  <2>1. PICK i \in Files : i = op[o].next
    BY <1>5 DEF Prepares
  <2>2. /\ op'[o].mine = op[o].mine \cup {i} /\ op'[o].made = op[o].made \cup ({Home(i)} \ dirs)
        /\ op'[o].before = op[o].before /\ op'[o].repo = op[o].repo
        /\ dirs' = dirs \cup {Home(i)} /\ file[i] = "absent" /\ op[o].repo \in Repos
    <3>1. op'[o] = [op[o] EXCEPT !.pc = "write", !.mine = @ \cup {i},
                                 !.made = @ \cup ({Home(i)} \ dirs)]
      BY <1>5, <2>1 DEF Prepares
    <3>2. QED  BY <1>1, <1>5, <2>1, <3>1 DEF Prepares, States, At, Typed, Named
  <2>3. Enabling(o) /\ file[i] # Expected(op[o].repo, i)
    BY <1>5, <2>2, ExpectedType DEF Prepares, Enabling, At
  <2>4. \A k \in Files : AsBefore(o, k)'
    BY <1>1, <2>2, <2>3 DEF WayBack, AsBefore
  <2>5. dirs' \subseteq op'[o].before.dirs \cup op'[o].made
    BY <2>2, <2>3 DEF WayBack
  <2>6. \A k \in Files : op'[o].before.file[k] # "absent" => Home(k)' \in op'[o].before.dirs
    BY <1>1, <2>2, <2>3 DEF WayBack, Home
  <2>7. QED  BY <2>4, <2>5, <2>6 DEF WayBack
<1>6. QED  BY <1>2, <1>3, <1>4, <1>5, LookCases

LEMMA WayBackWrite ==
    ASSUME Typed, NEW o \in Operators, Calm(o), WayBack(o), WriteFile(o)
    PROVE  WayBack(o)'
<1>1. op \in [Operators -> States] /\ op[o] \in States /\ Enabling(o)
  BY DEF Typed, WriteFile, Enabling, At
<1>2. PICK i \in Files : i = op[o].next
  BY DEF WriteFile, Typed, Named, At
<1>3. i \in op[o].mine /\ file[i] = "absent" /\ op[o].repo \in Repos
  BY <1>2 DEF Calm, WriteFile, Typed, Named, At
<1>4. /\ op'[o].mine = op[o].mine /\ op'[o].made = op[o].made /\ op'[o].before = op[o].before
      /\ op'[o].repo = op[o].repo /\ dirs' = dirs /\ kind' = kind
  BY <1>1 DEF WriteFile, Goto, States
<1>5. file' = file \/ Put(i, Expected(op[o].repo, i))
  BY <1>2 DEF WriteFile
<1>6. op[o].before.file[i] = "absent"
  BY <1>1, <1>3, ExpectedType DEF WayBack, AsBefore
<1>7. ASSUME NEW k \in Files PROVE AsBefore(o, k)'
  <2>1. file'[k] = file[k] \/ (k = i /\ file'[k] = Expected(op[o].repo, i))
    BY <1>5, PutAt
  <2>2. QED  BY <1>1, <1>3, <1>4, <1>6, <2>1 DEF WayBack, AsBefore, Expected
<1>8. QED  BY <1>1, <1>4, <1>7 DEF WayBack, Home

LEMMA WayBackUndo ==
    ASSUME Typed, NEW o \in Operators, WayBack(o), UndoFile(o)
    PROVE  WayBack(o)'
<1>1. op \in [Operators -> States] /\ op[o] \in States /\ Enabling(o) /\ op[o].repo \in Repos
  BY DEF Typed, Named, UndoFile, Enabling, At
<1>2. CASE End(o)
  BY <1>1, <1>2 DEF End, Idle, WayBack, Enabling
<1>3. ASSUME NEW i \in op[o].mine,
             IF Undoes(o, i) THEN Put(i, "absent") ELSE UNCHANGED <<file, observed, hook>>,
             op' = [op EXCEPT ![o].mine = @ \ {i}]
      PROVE  WayBack(o)'
  <2>1. i \in Files
    BY <1>1, <1>3 DEF States
  <2>2. /\ op'[o].mine = op[o].mine \ {i} /\ op'[o].made = op[o].made
        /\ op'[o].before = op[o].before /\ op'[o].repo = op[o].repo /\ dirs' = dirs
        /\ kind' = kind
    BY <1>1, <1>3 DEF UndoFile, States
  <2>3. file'[i] = op[o].before.file[i]
    <3>1. CASE Undoes(o, i)
      BY <1>1, <1>3, <2>1, <3>1, PutAt DEF Undoes, WayBack, AsBefore
    <3>2. CASE ~Undoes(o, i)
      BY <1>1, <1>3, <2>1, <3>2 DEF Undoes, WayBack, AsBefore
    <3>3. QED  BY <3>1, <3>2
  <2>4. \A k \in Files : k # i => file'[k] = file[k]
    BY <1>3, <2>1, PutAt
  <2>5. \A k \in Files : AsBefore(o, k)'
    BY <1>1, <2>2, <2>3, <2>4 DEF WayBack, AsBefore, Expected
  <2>6. QED  BY <1>1, <2>2, <2>5 DEF WayBack, Home
<1>4. QED  BY <1>2, <1>3 DEF UndoFile

LEMMA WayBackStep ==
    ASSUME Quiet, Alone, Typed, NEW o \in Operators, Calm(o), WayBack(o), [Next]_vars
    PROVE  WayBack(o)'
<1>1. CASE Looks(o)
  BY <1>1, WayBackLooks
<1>2. CASE Puts(o)
  <2>1. CASE Remove(o)
    <3>1. op'[o].pc \in {"remove", "idle"}
      BY <2>1 DEF Remove, End, Idle, States, At, Typed
    <3>2. QED  BY <3>1 DEF WayBack, Enabling
  <2>2. QED  BY <1>2, <2>1, WayBackWrite, WayBackUndo DEF Puts
<1>3. CASE HostSteps
  <2>1. op' = op /\ dirs' = dirs /\ kind' = kind
    BY <1>3 DEF HostSteps, HookStarts, HookEnds, HostWrites, OthersWrite, HostTrusts, HostEnds,
       disk, vars
  <2>2. Enabling(o) => file' = file
    BY <1>3, TrustsAt DEF Calm, Handling, Closed
  <2>3. QED  BY <2>1, <2>2 DEF WayBack, Enabling, AsBefore, Expected, Home
<1>4. ASSUME NEW i \in Files, UserEdits(i) PROVE WayBack(o)'
  <2>1. SUFFICES ASSUME op[o].pc \in {"enable", "write", "undo"} PROVE WayBack(o)'
    BY <1>4, EditMoves DEF WayBack, Enabling
  <2>2. /\ op'[o].pc = op[o].pc /\ op'[o].repo = op[o].repo /\ op'[o].mine = op[o].mine
        /\ op'[o].made = op[o].made /\ kind' = kind /\ dirs' = dirs \cup {Home(i)}
        /\ \A k \in Files : file'[k] = IF k = i THEN Edited(i) ELSE file[k]
        /\ \A k \in Files : op'[o].before.file[k] =
               IF k = i THEN Edited(i) ELSE op[o].before.file[k]
        /\ op'[o].before.dirs = op[o].before.dirs \cup {Home(i)}
    BY <1>4, <2>1, EditMoves
  <2>3. Enabling(o) /\ op[o].repo \in Repos
    BY <2>1 DEF Enabling, Typed, Named
  <2>4. Edited(i) # Expected(op[o].repo, i)
    BY <2>3, ExpectedType, <1>4, EditMoves
  <2>5. \A k \in Files : AsBefore(o, k)'
    BY <2>2, <2>3, <2>4 DEF WayBack, AsBefore
  <2>6. \A k \in Files : op'[o].before.file[k] # "absent" => Home(k)' \in op'[o].before.dirs
    BY <2>2, <2>3 DEF WayBack, Home
  <2>7. QED  BY <2>2, <2>3, <2>5, <2>6 DEF WayBack
<1>5. QED  BY <1>1, <1>2, <1>3, <1>4, StepCases DEF Alone

LEMMA LeavesNothing ==
    ASSUME Typed, NEW o \in Operators, WayBack(o), UndoDirs(o)
    PROVE  file' = op[o].before.file /\ dirs' \subseteq op[o].before.dirs
<1>1. op[o] \in States /\ Enabling(o) /\ op[o].mine = {} /\ file' = file
      /\ dirs' = dirs \ {d \in op[o].made : Empty(d)}
  BY DEF Typed, UndoDirs, Enabling, At
<1>2. op[o].before.file \in [Files -> Contents] /\ file \in [Files -> Contents]
  BY <1>1 DEF States, Snapshots, Typed, TypeOK
<1>3. \A i \in Files : file[i] = op[o].before.file[i]
  BY <1>1 DEF WayBack, AsBefore
<1>4. file' = op[o].before.file
  BY <1>1, <1>2, <1>3
<1>5. ASSUME NEW d \in dirs, d \notin op[o].before.dirs PROVE d \in op[o].made /\ Empty(d)
  BY <1>1, <1>3, <1>5 DEF WayBack, Empty
<1>6. QED  BY <1>1, <1>4, <1>5

\* A failed enable, wherever it failed and whatever the user did meanwhile,
\* leaves the files as they would be without it and no directory more: the
\* rollback of enable (activation.py) undoes just what the command did.
THEOREM FailedEnableTheorem ==
    ASSUME Quiet, Alone
    PROVE  Spec => FailedEnableLeavesNothing
<1> DEFINE Inv == Typed /\ \A o \in Operators : Calm(o) /\ WayBack(o)
<1>1. Init => Inv
  <2> SUFFICES ASSUME Init PROVE Inv
    OBVIOUS
  <2>1. \A o \in Operators : op[o].pc = "idle"
    BY DEF Init, Idle
  <2>2. QED  BY <2>1, TypedInit DEF Calm, WayBack, Handling, Enabling, At
<1>2. Inv /\ [Next]_vars => Inv'
  <2> SUFFICES ASSUME Inv, [Next]_vars PROVE Inv'
    OBVIOUS
  <2>1. Typed'
    BY TypedStep
  <2>2. \A o \in Operators : Calm(o)' /\ WayBack(o)'
    BY CalmStep, WayBackStep
  <2>3. QED  BY <2>1, <2>2
<1>3. Inv /\ [Next]_vars =>
          [\A o \in Operators : UndoDirs(o) =>
               /\ file' = op[o].before.file
               /\ dirs' \subseteq op[o].before.dirs]_vars
  BY LeavesNothing
<1>4. QED  BY <1>1, <1>2, <1>3, PTL DEF Spec, FailedEnableLeavesNothing

-----------------------------------------------------------------------------
(* The age of events.                                                      *)

\* An event is called current only while the allowlist it was recorded under
\* is there; an old one only for a lost marker or a changed allowlist.
Ages ==
    /\ \A r \in Repos : observed[r] = "current" => file[2] = r
    /\ \A r \in Repos : observed[r] = "old" => r \in unmarked \/ file[2] = "drifted"
    /\ \A h \in Hooks : hook[h] # NoHook =>
          /\ hook[h].repo \in Repos
          /\ \/ hook[h].age = "current" /\ file[2] = hook[h].repo
             \/ hook[h].age = "old" /\ file[2] = "drifted"

Marked == \A r \in Repos : observed[r] = "current" => r \in unmarked

\* Before the allowlist is removed its marker was written or lost; one that
\* an enable wrote, and would undo, has no events.
Cleared(o) ==
    /\ At(o, "remove") /\ 2 \in op[o].mine => Marked
    /\ Enabling(o) /\ 2 \in op[o].mine => \A r \in Repos : observed[r] # "current"

AllAges == Ages /\ \A o \in Operators : Kept(o) /\ Calm(o) /\ Cleared(o)

\* A put that changes the allowlist when no hook runs, no unmarked repository
\* has a current event and the allowlist had not drifted.
LEMMA PutAges ==
    ASSUME Typed, NEW c, Put(2, c), Closed, Ages, Marked, file[2] # "drifted",
           unmarked' = unmarked
    PROVE  Ages' /\ \A r \in Repos : observed'[r] # "current"
<1>1. observed' = [r \in Repos |-> Aged(observed[r])] /\ \A r \in Repos : observed[r] \in Latest
  BY DEF Put, Typed, TypeOK
<1>2. \A r \in Repos : observed'[r] # "current"
  BY <1>1 DEF Aged
<1>3. \A r \in Repos : observed'[r] = "old" => r \in unmarked'
  BY <1>1 DEF Aged, Marked, Ages
<1>4. \A h \in Hooks : hook'[h] = NoHook
  BY PutHooks DEF Files
<1>5. QED  BY <1>2, <1>3, <1>4 DEF Ages

\* Steps that leave the allowlist and the journal alone.
LEMMA SameAges ==
    ASSUME Ages, file'[2] = file[2], observed' = observed, unmarked' = unmarked, hook' = hook
    PROVE  Ages'
BY DEF Ages

LEMMA MarkAges ==
    ASSUME Typed, NEW o \in Operators, Ages, Mark(o)
    PROVE  Ages' /\ (Marks(o) => Marked')
<1>1. /\ file' = file /\ hook' = hook /\ observed \in [Repos -> Latest]
  BY DEF Mark, disk, Typed, TypeOK
<1>2. CASE ~Owned(2)
  BY <1>1, <1>2 DEF Mark, Ages, Marks
<1>3. CASE Owned(2)
  <2>1. file[2] \in Repos /\ file[2] # "drifted"
    BY <1>3 DEF Owned, Typed, TypeOK, Named, Contents, Files
  <2>2. CASE /\ observed' = [observed EXCEPT ![file[2]] = IF @ = "none" THEN @ ELSE "disabled"]
             /\ unmarked' = unmarked \ {file[2]}
    <3>1. /\ observed'[file[2]] \in {"none", "disabled"}
          /\ \A r \in Repos : r # file[2] => observed'[r] = observed[r]
      BY <1>1, <2>1, <2>2
    <3>2. \A r \in Repos : observed'[r] # "current"
      BY <3>1 DEF Ages
    <3>3. \A r \in Repos : observed'[r] = "old" => r \in unmarked'
      BY <2>1, <2>2, <3>1 DEF Ages
    <3>4. QED  BY <1>1, <3>2, <3>3 DEF Ages, Marked
  <2>3. CASE observed' = observed /\ unmarked' = unmarked \cup {file[2]}
    BY <1>1, <2>3 DEF Ages, Marked
  <2>4. QED  BY <1>3, <2>2, <2>3 DEF Mark
<1>4. QED  BY <1>2, <1>3

LEMMA AgesLooks ==
    ASSUME Typed, NEW o \in Operators, Ages, Calm(o), Cleared(o), Looks(o)
    PROVE  Ages' /\ Cleared(o)'
<1>1. file' = file /\ op[o] \in States
  BY LooksKeepFiles DEF Typed
<1>2. CASE Mark(o)
  <2>1. op'[o].pc \in Guarding \cup {"idle"} \/ Marks(o)
    BY <1>2, <1>1 DEF Mark, Marks, Goto, End, Idle, States, Typed
  <2>2. QED  BY <1>2, <2>1, MarkAges DEF Marks, Cleared, Enabling, Guarding, At
<1>3. CASE ~Mark(o)
  <2>1. observed' = observed /\ unmarked' = unmarked /\ hook' = hook
    BY <1>3, GuardMoves DEF Looks, Enable, Disable, Enabled, Kill, EnableFile, UndoDirs, Plan,
       journal
  <2>2. Ages'
    BY <1>1, <2>1, SameAges
  <2>3. CASE op'[o].pc \in Guarding \cup {"idle"}
    BY <2>2, <2>3 DEF Guarding, Cleared, Enabling, At
  <2>4. CASE Planned(o) \/ Approved(o) \/ Disables(o)
    BY <2>2, <2>4 DEF Planned, Approved, Disables, Calm, Cleared, Enabling, At
  <2>5. CASE GoesOn(o)
    <3>1. op'[o].mine = op[o].mine /\ op[o].pc = "enable" /\ op'[o].pc # "remove"
      BY <1>1, <2>5 DEF GoesOn, States, At
    <3>2. QED  BY <2>1, <2>2, <3>1 DEF Cleared, Enabling, At
  <2>6. CASE Prepares(o)
    <3>1. /\ op'[o].mine = op[o].mine \cup {op[o].next} /\ op[o].pc = "enable"
          /\ op'[o].pc = "write" /\ file[op[o].next] = "absent"
      BY <1>1, <2>6 DEF Prepares, States, At
    <3>2. op[o].next = 2 => \A r \in Repos : observed[r] # "current"
      BY <3>1, ActivationAssumption DEF Ages
    <3>3. QED  BY <2>1, <2>2, <3>1, <3>2 DEF Cleared, Enabling, At
  <2>7. Marks(o) => Mark(o)
    BY DEF Marks
  <2>8. QED  BY <1>3, <2>2, <2>3, <2>4, <2>5, <2>6, <2>7, LookCases
<1>4. QED  BY <1>2, <1>3

LEMMA AgesPuts ==
    ASSUME Typed, NEW o \in Operators, Ages, Kept(o), Calm(o), Cleared(o), Puts(o)
    PROVE  Ages' /\ Cleared(o)'
<1>1. op \in [Operators -> States] /\ op[o] \in States /\ op[o].mine \subseteq Files
  BY DEF Typed, States
<1>2. Closed /\ unmarked' = unmarked
  BY DEF Puts, WriteFile, UndoFile, Remove, Calm, Handling, Enabling, At
<1>3. /\ op'[o].mine \subseteq op[o].mine \/ op'[o].pc = "idle"
      /\ Enabling(o)' => Enabling(o)
      /\ At(o, "remove")' => At(o, "remove")
  <2>1. WriteFile(o) => /\ op[o].pc = "write" /\ op'[o].pc \in {"enable", "undo"}
                        /\ op'[o].mine = op[o].mine
    BY <1>1 DEF WriteFile, Goto, States, At
  <2>2. UndoFile(o) => /\ op[o].pc = "undo" /\ op'[o].pc \in {"undo", "idle"}
                       /\ op'[o].mine \subseteq op[o].mine \/ op'[o].pc = "idle"
    BY <1>1 DEF UndoFile, End, Idle, States, At
  <2>3. Remove(o) => /\ op[o].pc = "remove" /\ op'[o].pc \in {"remove", "idle"}
                     /\ op'[o].mine \subseteq op[o].mine \/ op'[o].pc = "idle"
    BY <1>1 DEF Remove, End, Idle, States, At
  <2>4. QED  BY <2>1, <2>2, <2>3 DEF Puts, Enabling, At
<1>4. CASE file'[2] = file[2] /\ observed' = observed /\ hook' = hook
  <2>1. Ages'
    BY <1>2, <1>4, SameAges
  <2>2. QED  BY <1>2, <1>3, <1>4, <2>1 DEF Cleared, Marked, Enabling, At
<1>5. ASSUME NEW c, Put(2, c), Marked, file[2] # "drifted" PROVE Ages' /\ Cleared(o)'
  BY <1>2, <1>5, PutAges DEF Cleared, Marked
<1>6. ASSUME NEW c, Put(1, c)
      PROVE  file'[2] = file[2] /\ observed' = observed /\ hook' = hook
  BY <1>6, PutAt DEF Put, Files
<1>7. CASE WriteFile(o) /\ Put(2, Expected(op[o].repo, 2)) /\ op[o].next = 2
  <2>1. file[2] = "absent"
    BY <1>7 DEF WriteFile, Calm
  <2>2. Marked /\ file[2] # "drifted"
    BY <2>1, ActivationAssumption DEF Ages, Marked
  <2>3. QED  BY <1>5, <1>7, <2>2
<1>8. ASSUME UndoFile(o), Put(2, "absent"), 2 \in op[o].mine, op[o].repo \in Repos,
             file[2] = Expected(op[o].repo, 2)
      PROVE  Ages' /\ Cleared(o)'
  <2>1. file[2] # "drifted"
    BY <1>8, ExpectedType DEF Files
  <2>2. Marked
    BY <1>8 DEF Cleared, Marked, UndoFile, Enabling, At
  <2>3. QED  BY <1>5, <1>8, <2>1, <2>2
<1>9. ASSUME Remove(o), Put(2, "absent"), 2 \in op[o].mine PROVE Ages' /\ Cleared(o)'
  <2>1. Marked /\ file[2] # "drifted"
    BY <1>9 DEF Cleared, Kept, Remove, Others
  <2>2. QED  BY <1>5, <1>9, <2>1
<1>10. QED
  BY <1>4, <1>6, <1>7, <1>8, <1>9, PutMoves DEF Files

LEMMA AgesHost ==
    ASSUME Typed, Ages, HostSteps
    PROVE  Ages' /\ \A o \in Operators : Calm(o) /\ Cleared(o) => Cleared(o)'
<1>1. op' = op /\ file'[2] = file[2] /\ unmarked' = unmarked
  <2>1. op' = op /\ file'[2] = file[2]
    BY TrustsAt
  <2>2. unmarked' = unmarked
    BY DEF HostSteps, HookStarts, HookEnds, HostWrites, OthersWrite, HostTrusts, HostEnds,
       journal, vars
  <2>3. QED  BY <2>1, <2>2
<1>2. observed \in [Repos -> Latest]
  BY DEF Typed, TypeOK
<1>3. ASSUME observed' = observed, hook' = hook
      PROVE  Ages' /\ \A o \in Operators : Calm(o) /\ Cleared(o) => Cleared(o)'
  BY <1>1, <1>3, SameAges DEF Cleared, Marked, Enabling, At
<1>4. ASSUME NEW h \in Hooks, HookStarts(h)
      PROVE  Ages' /\ \A o \in Operators : Calm(o) /\ Cleared(o) => Cleared(o)'
  <2>1. observed' = observed /\ file[2] \in Repos
    BY <1>4 DEF HookStarts
  <2>2. \A g \in Hooks : hook'[g] = IF g = h THEN [repo |-> file[2], age |-> "current"]
                                              ELSE hook[g]
    BY <1>4 DEF HookStarts, Typed, TypeOK
  <2>3. Ages'
    BY <1>1, <2>1, <2>2 DEF Ages
  <2>4. QED  BY <1>1, <2>1, <2>3 DEF Cleared, Marked, Enabling, At
<1>5. ASSUME NEW h \in Hooks, HookEnds(h)
      PROVE  Ages' /\ \A o \in Operators : Calm(o) /\ Cleared(o) => Cleared(o)'
  <2>1. ~Closed /\ hook[h] # NoHook
    BY <1>5 DEF HookEnds, Closed
  <2>2. \A g \in Hooks : hook'[g] = IF g = h THEN NoHook ELSE hook[g]
    BY <1>5 DEF HookEnds, Typed, TypeOK
  <2>3. \A r \in Repos : \/ observed'[r] = observed[r]
                         \/ r = hook[h].repo /\ observed'[r] = hook[h].age
    BY <1>2, <1>5 DEF HookEnds
  <2>4. Ages'
    BY <1>1, <2>1, <2>2, <2>3 DEF Ages
  <2>5. \A o \in Operators : Calm(o) => ~At(o, "remove") /\ ~Enabling(o)
    BY <2>1 DEF Calm, Handling, At
  <2>6. QED  BY <1>1, <2>4, <2>5 DEF Cleared, Enabling, At
<1>6. QED
  BY <1>3, <1>4, <1>5 DEF HostSteps, HostWrites, OthersWrite, HostTrusts, HostEnds, journal, vars

LEMMA AgesEdit ==
    ASSUME Quiet, Typed, Ages, NEW i \in Files, UserEdits(i)
    PROVE  Ages' /\ \A o \in Operators : Cleared(o) => Cleared(o)'
<1>1. /\ unmarked' = unmarked /\ Put(i, Edited(i))
      /\ \A o \in Operators : op'[o].pc = op[o].pc /\ op'[o].mine = op[o].mine
  BY EditMoves
<1>2. \A k \in Files : file'[k] = IF k = i THEN Edited(i) ELSE file[k]
  BY EditMoves
<1>3. CASE i = 1
  <2>1. file'[2] = file[2] /\ observed' = observed /\ hook' = hook
    BY <1>1, <1>2, <1>3 DEF Put, Files
  <2>2. QED  BY <1>1, <2>1, SameAges DEF Cleared, Marked, Enabling, At
<1>4. CASE i = 2
  <2>1. /\ observed' = [r \in Repos |-> Aged(observed[r])]
        /\ hook' = [h \in Hooks |-> [hook[h] EXCEPT !.age = Aged(@)]]
    BY <1>1, <1>4 DEF Put
  <2>2. \A r \in Repos : observed'[r] # "current"
    BY <2>1 DEF Aged
  <2>3. file[2] # "drifted" /\ file'[2] = Edited(2)
    BY <1>2, <1>4 DEF UserEdits
  <2>4. ASSUME Owned(2) PROVE Ages'
    <3>1. file'[2] = "drifted"
      BY <2>3, <2>4 DEF Edited, Owned
    <3>2. ASSUME NEW h \in Hooks, hook'[h] # NoHook
          PROVE  hook'[h].repo \in Repos /\ hook'[h].age = "old"
      <4>1. hook[h] \in [repo : Repos \cup {None}, age : Latest]
        BY DEF Typed, TypeOK
      <4>2. hook'[h] = [hook[h] EXCEPT !.age = Aged(@)]
        BY <2>1
      <4>3. hook[h] # NoHook
        BY <3>2, <4>2 DEF NoHook, Aged
      <4>4. hook[h].repo \in Repos /\ hook[h].age \in {"current", "old"}
        BY <4>3 DEF Ages
      <4>5. QED  BY <4>1, <4>2, <4>4 DEF Aged
    <3>3. QED  BY <2>2, <3>1, <3>2 DEF Ages
  <2>5. ASSUME ~Owned(2) PROVE Ages'
    <3>1. file[2] \notin Repos
      BY <2>5, ActivationAssumption DEF Owned
    <3>2. \A h \in Hooks : hook[h] = NoHook
      BY <2>3, <3>1 DEF Ages
    <3>3. [NoHook EXCEPT !.age = Aged(@)] = NoHook
      BY DEF NoHook, Aged
    <3>4. \A h \in Hooks : hook'[h] = NoHook
      BY <2>1, <3>2, <3>3
    <3>5. \A r \in Repos : observed[r] # "current"
      BY <3>1 DEF Ages
    <3>6. \A r \in Repos : observed'[r] = "old" => r \in unmarked
      BY <2>1, <2>3, <3>5 DEF Ages, Aged
    <3>7. QED  BY <1>1, <2>2, <3>4, <3>6 DEF Ages
  <2>6. Ages'
    BY <2>4, <2>5
  <2>7. QED  BY <1>1, <2>2, <2>6 DEF Cleared, Marked, Enabling, At
<1>5. QED  BY <1>3, <1>4 DEF Files

LEMMA AgesStep ==
    ASSUME Quiet, Alone, Typed, AllAges, [Next]_vars
    PROVE  AllAges'
<1>1. \A o \in Operators : Kept(o)' /\ Calm(o)'
  BY KeptStep, CalmStep DEF AllAges, AllKept
<1>2. ASSUME NEW o \in Operators, Looks(o) \/ Puts(o) PROVE AllAges'
  <2>1. Ages' /\ Cleared(o)'
    BY <1>2, AgesLooks, AgesPuts DEF AllAges
  <2>2. QED  BY <1>1, <2>1 DEF AllAges, Alone
<1>3. CASE HostSteps
  BY <1>1, <1>3, AgesHost DEF AllAges
<1>4. ASSUME NEW i \in Files, UserEdits(i) PROVE AllAges'
  BY <1>1, <1>4, AgesEdit DEF AllAges
<1>5. QED  BY <1>2, <1>3, <1>4, StepCases

\* What plan and status call active has run a hook since it was enabled, the
\* lost markers apart: the evidence is an event that a later disable cancels
\* and that no earlier activation could leave (activation.py, hooks/pilot.py).
THEOREM ObservedTheorem ==
    ASSUME Quiet, Alone
    PROVE  Spec => []ActiveIsObserved
<1>1. Init => Typed /\ AllAges
  <2> SUFFICES ASSUME Init PROVE Typed /\ AllAges
    OBVIOUS
  <2>1. \A o \in Operators : op[o].pc = "idle"
    BY DEF Init, Idle
  <2>2. (\A r \in Repos : observed[r] = "none") /\ \A h \in Hooks : hook[h] = NoHook
    BY DEF Init
  <2>3. QED  BY <2>1, <2>2, TypedInit DEF AllAges, Ages, Kept, Calm, Cleared, Handling, Enabling, At
<1>2. Typed /\ AllAges /\ [Next]_vars => (Typed /\ AllAges)'
  BY TypedStep, AgesStep
<1>3. Typed /\ AllAges => ActiveIsObserved
  <2> SUFFICES ASSUME Typed, Ages, NEW r \in Repos \ unmarked, Active(r)
               PROVE  observed[r] = "current"
    BY DEF AllAges, ActiveIsObserved
  <2>1. file[2] = r
    BY DEF Active, InPlace, Mutation, Expected, Files
  <2>2. observed[r] \in {"current", "old"}
    BY DEF Active, Typed, TypeOK, Latest
  <2>3. QED  BY <2>1, <2>2, ActivationAssumption DEF Ages
<1>4. QED  BY <1>1, <1>2, <1>3, PTL DEF Spec

-----------------------------------------------------------------------------
(* The hook command.  This part is about HookEntry, whose processes        *)
(* load the allowlist that an enable has written, and about nothing of the *)
(* above: it has constants and variables of its own.                       *)

CONSTANTS Uses, WorkFiles, Supported, MixedUp, Paths, Inside, Patterns, NoPath

VARIABLES allowlist, present, reads

Hook == INSTANCE HookEntry WITH Files <- WorkFiles

\* What HookEntry assumes of its constants.
HookAssumptions ==
    Hook!PathsAssumption /\ Hook!UsesAssumption /\ Hook!NoneAssumption

\* Whatever is taken for evidence of a source, the call was directed at it alone.
LEMMA EvidenceIsAimedAt ==
    ASSUME HookAssumptions, NEW u \in Uses, NEW S, Hook!EvidencePath(u, S) \in Sources
    PROVE  Hook!EvidencePath(u, S) \in Hook!Aims(u)
<1> DEFINE f == Hook!EvidencePath(u, S)
<1>1. f # NoPath
    BY DEF HookAssumptions, Hook!UsesAssumption, Hook!PathsAssumption
<1>2. CASE u.tool \in Hook!DirectReads
    <2>1. f = u.path /\ u.tool \notin Hook!Shells
        BY <1>1, <1>2 DEF Hook!EvidencePath, Hook!DirectReads, Hook!Shells
    <2> QED BY <2>1 DEF Hook!Aims
<1>3. CASE u.tool \notin Hook!DirectReads
    <2>1. u.tool \in Hook!Shells /\ f = Hook!ShellEvidencePath(u)
        BY <1>1, <1>3 DEF Hook!EvidencePath
    <2>2. ~u.opaque /\ Len(u.words) = 2 /\ f = u.words[2]
        BY <1>1, <2>1 DEF Hook!ShellEvidencePath
    <2>3. 2..2 = {2}
        OBVIOUS
    <2>4. Hook!Arguments(u.words) = {f}
        BY <2>2, <2>3 DEF Hook!Arguments
    <2> QED BY <2>1, <2>2, <2>4 DEF Hook!Aims
<1> QED BY <1>2, <1>3
-----------------------------------------------------------------------------

Past(h) == h.pc \in {"core", "emit"}

\* What is known of a process h and the call c it runs for.
Told(h, c) ==
    /\ h.pc # "idle" /\ h.event # h.expected => h.form \in MixedUp
    /\ c.state = CASE h.pc # "idle" /\ h.event = "PreToolUse" -> "asked"
                   [] h.pc # "idle" /\ h.event = "PostToolUse" -> "over"
                   [] h.pc # "idle" /\ h.event \notin Hook!ToolEvents -> "none"
                   [] h.pc = "idle" -> IF c.state = "running" THEN "running" ELSE "none"
    /\ c.state # "none" => c.use \in Uses
    /\ h.pc \in {"read", "load", "parse", "core"} => h.under = "open"
    /\ h.pc = "parse" \/ Past(h) => h.list \in Allowlists /\ h.list.version = Session

\* The allowlist and the class a tool event is decided with.
Listed(h, c) ==
    h.event \in Hook!ToolEvents => c.use.tool \in h.list.tools
Classified(h, c) ==
    h.event \in Hook!ToolEvents /\ h.class = "read" => Hook!ClassifyTool(c.use) = "read"

\* Why a process lets a call run.
Justified(h, c) ==
    h.event = "PreToolUse" /\ h.answer \in {"pass", "continue"} =>
        /\ "unreadable" \notin MixedUp =>
              h.list \in Allowlists /\ h.list.version = Session /\ c.use.tool \in h.list.tools
        /\ h.home /\ h.under # "open" => Hook!ClassifyTool(c.use) = "read"

LetsCompact(h) ==
    h.event = "PreCompact" /\ h.expected = "PreCompact" /\ h.form # "lost" /\ h.answer # "mute"
        => h.answer = "continue"

Sound(h, c) ==
    /\ Told(h, c)
    /\ Past(h) => Listed(h, c) /\ Classified(h, c) /\ h.event = h.expected
    /\ h.pc \in {"emit", "ended"} => Justified(h, c) /\ LetsCompact(h)

AllSound == \A p \in Procs : Sound(proc[p], call[p])

HookTyped == HookAssumptions /\ Hook!TypeOK /\ AllSound

\* Nothing but the record of process p and its call changes.
LEMMA ProcessStep ==
    ASSUME HookTyped, NEW p \in Procs, NEW h \in Hook!Processes, NEW c \in Hook!Calls, Sound(h, c),
           proc' = [proc EXCEPT ![p] = h], call' = [call EXCEPT ![p] = c]
    PROVE  /\ AllSound' /\ proc' \in [Procs -> Hook!Processes] /\ call' \in [Procs -> Hook!Calls]
           /\ \A q \in Procs :
                 proc'[q].pc # "idle" /\ proc'[q].event \in Hook!ToolEvents => call'[q].use \in Uses
<1>1. proc' \in [Procs -> Hook!Processes] /\ call' \in [Procs -> Hook!Calls]
    BY DEF HookTyped, Hook!TypeOK
<1>2. proc'[p] = h /\ call'[p] = c
    BY DEF HookTyped, Hook!TypeOK
<1>3. \A q \in Procs : q # p => proc'[q] = proc[q] /\ call'[q] = call[q]
    BY DEF HookTyped, Hook!TypeOK
<1>4. AllSound'
    BY <1>2, <1>3 DEF HookTyped, AllSound
<1>5. \A q \in Procs : Sound(proc'[q], call'[q])
    BY <1>4 DEF AllSound
<1>6. ASSUME NEW q \in Procs, proc'[q].pc # "idle", proc'[q].event \in Hook!ToolEvents
      PROVE  call'[q].use \in Uses
    BY <1>5, <1>6 DEF Sound, Told, Hook!ToolEvents
<1> QED BY <1>1, <1>4, <1>6

LEMMA HookIdleType ==
    /\ Hook!Idle \in Hook!Processes /\ Hook!NoCall \in Hook!Calls
    /\ Sound(Hook!Idle, Hook!NoCall)
BY
   DEF Hook!Idle, Hook!Processes, Hook!NoCall, Hook!Calls, Hook!Events, Hook!ToolEvents,
       Hook!Forms, Hook!Classes, Hook!Answers, Hook!Gates,
       Sound, Told, Past

LEMMA EmittedType ==
    ASSUME NEW event \in Hook!Events, NEW b \in BOOLEAN
    PROVE  /\ Hook!Emitted(event, b) \in Hook!Answers
           /\ event = "PreCompact" => Hook!Emitted(event, b) = "continue"
           /\ event = "PreToolUse" => (Hook!Emitted(event, b) \in {"pass", "continue"} <=> b)
BY DEF Hook!Emitted, Hook!Events, Hook!ToolEvents, Hook!Answers

\* A process that ends with an answer.
LEMMA EndsSound ==
    ASSUME HookTyped, NEW p \in Procs, proc[p].pc \notin {"idle", "ended"},
           NEW answer \in Hook!Answers, Hook!EndsWith(p, answer),
           LetsCompact([proc[p] EXCEPT !.answer = answer]),
           Justified([proc[p] EXCEPT !.answer = answer], call[p])
    PROVE  \E h \in Hook!Processes : Sound(h, call[p]) /\ proc' = [proc EXCEPT ![p] = h]
<1>1. PICK said \in {answer, "mute"} :
          proc' = [proc EXCEPT ![p].pc = "ended", ![p].answer = said]
    BY DEF Hook!EndsWith
<1> DEFINE g == [proc[p] EXCEPT !.answer = answer]
           h == [proc[p] EXCEPT !.pc = "ended", !.answer = said]
<1>2. proc[p] \in Hook!Processes /\ Sound(proc[p], call[p]) /\ said \in Hook!Answers
    BY DEF HookTyped, Hook!TypeOK, AllSound, Hook!Answers
<1>3. /\ h \in Hook!Processes /\ h.pc = "ended" /\ h.answer = said
      /\ h.event = proc[p].event /\ h.expected = proc[p].expected /\ h.form = proc[p].form
      /\ h.home = proc[p].home /\ h.under = proc[p].under /\ h.list = proc[p].list
    BY <1>2, ZenonT(60) DEF Hook!Processes
<1>4. /\ g.answer = answer
      /\ g.event = proc[p].event /\ g.expected = proc[p].expected /\ g.form = proc[p].form
      /\ g.home = proc[p].home /\ g.under = proc[p].under /\ g.list = proc[p].list
    BY <1>2, ZenonT(60) DEF Hook!Processes
<1> HIDE DEF g
<1>5. Told(h, call[p])
    BY <1>2, <1>3 DEF Told, Past, Sound
<1>6. LetsCompact(h)
    <2>1. LetsCompact(g)
        BY DEF g
    <2> QED BY <1>1, <1>3, <1>4, <2>1 DEF LetsCompact
<1>7. Justified(h, call[p])
    <2>1. Justified(g, call[p])
        BY DEF g
    <2> QED BY <1>1, <1>3, <1>4, <2>1 DEF Justified
<1>8. Sound(h, call[p])
    BY <1>3, <1>5, <1>6, <1>7 DEF Sound, Past
<1>9. proc' = [proc EXCEPT ![p] = h]
    BY <1>1
<1> QED BY <1>3, <1>8, <1>9

\* A process that gets its decision.
LEMMA DecidesSound ==
    ASSUME HookTyped, NEW p \in Procs, Hook!At(p, "core"), NEW b \in BOOLEAN, Hook!Decides(p, b),
           proc[p].event = "PreToolUse" /\ b =>
               ~proc[p].home \/ gate = "open" \/ proc[p].class = "read"
    PROVE  \E h \in Hook!Processes : Sound(h, call[p]) /\ proc' = [proc EXCEPT ![p] = h]
<1> DEFINE h == [proc[p] EXCEPT !.pc = "emit", !.under = gate,
                                !.answer = Hook!Emitted(proc[p].event, b)]
<1>0. proc[p] \in Hook!Processes /\ proc[p].event \in Hook!Events /\ Sound(proc[p], call[p])
      /\ proc[p].pc = "core" /\ gate \in Hook!Gates
    BY DEF HookTyped, Hook!TypeOK, AllSound, Hook!At, Hook!Processes
<1>1. /\ h \in Hook!Processes /\ h.pc = "emit" /\ h.answer = Hook!Emitted(proc[p].event, b)
      /\ h.event = proc[p].event /\ h.expected = proc[p].expected /\ h.form = proc[p].form
      /\ h.home = proc[p].home /\ h.under = gate /\ h.list = proc[p].list
      /\ h.class = proc[p].class
    BY <1>0, EmittedType DEF Hook!Processes
<1>2. Told(h, call[p]) /\ Listed(h, call[p]) /\ Classified(h, call[p]) /\ h.event = h.expected
    BY <1>0, <1>1 DEF Sound, Told, Past, Listed, Classified
<1>3. LetsCompact(h)
    BY <1>0, <1>1, EmittedType DEF LetsCompact
<1>4. Justified(h, call[p])
    <2>1. h.list \in Allowlists /\ h.list.version = Session
        BY <1>1, <1>2 DEF Told, Past
    <2>2. h.event = "PreToolUse" /\ h.answer \in {"pass", "continue"} => b
        BY <1>0, <1>1, EmittedType
    <2> QED BY <1>1, <1>2, <2>1, <2>2 DEF Justified, Listed, Classified, Hook!ToolEvents
<1>5. proc' = [proc EXCEPT ![p] = h]
    BY DEF Hook!Decides
<1> QED BY <1>1, <1>2, <1>3, <1>4, <1>5 DEF Sound, Past

\* A step of process p on its own record.
LEMMA OwnStep ==
    ASSUME HookTyped, NEW p \in Procs, UNCHANGED <<allowlist, present, gate, reads, call, touched>>,
           \E h \in Hook!Processes : Sound(h, call[p]) /\ proc' = [proc EXCEPT ![p] = h]
    PROVE  HookTyped'
<1>1. PICK h \in Hook!Processes : Sound(h, call[p]) /\ proc' = [proc EXCEPT ![p] = h]
    OBVIOUS
<1>2. call[p] \in Hook!Calls /\ call' = [call EXCEPT ![p] = call[p]]
    BY DEF HookTyped, Hook!TypeOK
<1> QED BY <1>1, <1>2, ProcessStep DEF HookTyped, Hook!TypeOK

\* Nothing changes but what is around the processes.
LEMMA WorldStep ==
    ASSUME HookTyped, UNCHANGED <<proc, call>>,
           allowlist' \in Allowlists \cup {None}, present' \subseteq WorkFiles,
           gate' \in Hook!Gates, reads' \subseteq Paths, touched' \subseteq Sources
    PROVE  HookTyped'
BY DEF HookTyped, Hook!TypeOK, AllSound, Allowlists, Hook!Allowlists

LEMMA FailsStep ==
    ASSUME HookTyped, NEW p \in Procs, proc[p].pc \in Hook!Trying, Hook!Fails(p)
    PROVE  \E h \in Hook!Processes : Sound(h, call[p]) /\ proc' = [proc EXCEPT ![p] = h]
<1> DEFINE answer == IF proc[p].expected = "PreCompact" /\ Hook!Observed(p) \in {None, "PreCompact"}
                     THEN "continue" ELSE "error"
           g == [proc[p] EXCEPT !.answer = answer]
<1>1. proc[p] \in Hook!Processes /\ Sound(proc[p], call[p]) /\ proc[p].event \in Hook!Events
    BY DEF HookTyped, Hook!TypeOK, AllSound, Hook!Processes
<1>2. /\ g.answer = answer
      /\ g.event = proc[p].event /\ g.expected = proc[p].expected /\ g.form = proc[p].form
      /\ g.home = proc[p].home /\ g.under = proc[p].under /\ g.list = proc[p].list
    BY <1>1, ZenonT(60) DEF Hook!Processes
<1>3. LetsCompact(g)
    BY <1>2 DEF LetsCompact, Hook!Observed
<1>4. ASSUME proc[p].event = "PreToolUse", answer \in {"pass", "continue"}
      PROVE  "unreadable" \in MixedUp /\ proc[p].under = "open"
    <2>1. proc[p].expected = "PreCompact" /\ proc[p].form = "unreadable"
        BY <1>1, <1>4 DEF HookAssumptions, Hook!NoneAssumption, HookTyped, Hook!Observed
    <2>2. proc[p].form \in MixedUp /\ ~Past(proc[p])
        BY <1>1, <1>4, <2>1 DEF Sound, Told, Hook!Trying
    <2> QED BY <1>1, <2>1, <2>2 DEF Sound, Told, Past, Hook!Trying
<1>5. Justified(g, call[p])
    BY <1>2, <1>4 DEF Justified
<1>6. answer \in Hook!Answers /\ Hook!EndsWith(p, answer) /\ proc[p].pc \notin {"idle", "ended"}
    BY DEF Hook!Fails, Hook!Answers, Hook!Trying
<1> HIDE DEF answer
<1> QED BY <1>3, <1>5, <1>6, EndsSound

LEMMA ParseStep == ASSUME HookTyped, NEW p \in Procs, Hook!Parse(p) PROVE HookTyped'
<1>0. proc[p] \in Hook!Processes /\ call[p] \in Hook!Calls /\ Sound(proc[p], call[p])
      /\ proc[p].pc = "parse" /\ proc[p].event \in Hook!Events
    BY DEF Hook!Parse, Hook!At, HookTyped, Hook!TypeOK, AllSound, Hook!Processes
<1>1. CASE Hook!Fails(p)
    BY <1>0, <1>1, FailsStep, OwnStep DEF Hook!Parse, Hook!Trying
<1>2. CASE Hook!Parses(p) /\ Hook!EndsWith(p, Hook!Emitted(proc[p].event, FALSE))
    <2> DEFINE answer == Hook!Emitted(proc[p].event, FALSE)
               g == [proc[p] EXCEPT !.answer = answer]
    <2>1. g.answer = answer /\ g.event = proc[p].event /\ answer \in Hook!Answers
        BY <1>0, EmittedType DEF Hook!Processes
    <2>2. LetsCompact(g) /\ Justified(g, call[p])
        BY <1>0, <2>1, EmittedType DEF LetsCompact, Justified
    <2> HIDE DEF answer
    <2> QED BY <1>0, <1>2, <2>1, <2>2, EndsSound, OwnStep DEF Hook!Parse, answer
<1>3. CASE /\ Hook!Parses(p) /\ Hook!Covered(p) /\ ~Hook!Fails(p)
          /\ ~Hook!EndsWith(p, Hook!Emitted(proc[p].event, FALSE))
    <2> DEFINE c == IF proc[p].event \in Hook!ToolEvents
                    THEN Hook!ToolClassOf(call[p].use, present) ELSE "unknown"
               e == IF proc[p].event \in Hook!ToolEvents
                    THEN Hook!EvidencePath(call[p].use, present) ELSE NoPath
               h == [proc[p] EXCEPT !.pc = "core", !.class = c, !.evidence = e]
    <2>1. c \in Hook!Classes /\ e \in Paths \cup {NoPath}
        <3>1. \A u, S : Hook!ToolClassOf(u, S) \in Hook!Classes
            BY
               DEF Hook!ToolClassOf, Hook!ClassifyTool, Hook!ClassifyShell, Hook!ClassifyGit,
                   Hook!Classes
        <3>2. \A u, S : Hook!EvidencePath(u, S) \in Paths \cup {NoPath}
            BY DEF HookAssumptions, Hook!PathsAssumption, Hook!EvidencePath, HookTyped
        <3> QED BY <3>1, <3>2 DEF Hook!Classes
    <2>2. /\ h \in Hook!Processes /\ h.pc = "core" /\ h.list = proc[p].list
          /\ h.event = proc[p].event /\ h.expected = proc[p].expected /\ h.form = proc[p].form
          /\ h.under = proc[p].under /\ h.class = c
        BY <1>0, <2>1 DEF Hook!Processes
    <2>3. Told(h, call[p]) /\ Listed(h, call[p]) /\ h.event = h.expected
        BY <1>0, <1>3, <2>2 DEF Sound, Told, Past, Listed, Hook!Parses, Hook!Covered
    <2>4. Classified(h, call[p])
        BY <2>2 DEF Classified, Hook!ToolClassOf
    <2>5. proc' = [proc EXCEPT ![p] = h]
        BY <1>3 DEF Hook!Parse
    <2>6. Sound(h, call[p])
        BY <2>2, <2>3, <2>4 DEF Sound, Past
    <2> QED BY <2>2, <2>5, <2>6, OwnStep DEF Hook!Parse
<1> QED BY <1>1, <1>2, <1>3 DEF Hook!Parse

\* The host starts a process for an event, with what it knows of the call.
LEMMA StartSound ==
    ASSUME HookTyped, NEW p \in Procs, NEW event \in Hook!Events, NEW form \in Hook!Forms,
           NEW ok \in BOOLEAN,
           Hook!Sends(p, event, form, ok), NEW c \in Hook!Calls,
           call' = [call EXCEPT ![p] = c],
           c.state = CASE event = "PreToolUse" -> "asked" [] event = "PostToolUse" -> "over"
                       [] event \notin Hook!ToolEvents -> "none",
           c.state # "none" => c.use \in Uses,
           UNCHANGED <<allowlist, present, gate, reads>>, touched' \subseteq Sources
    PROVE  HookTyped'
<1>1. PICK expected \in Hook!Events :
          /\ Hook!Starts(p, expected, event, form, ok)
          /\ event # expected => form \in MixedUp
    BY DEF Hook!Sends, Hook!Events
<1>2. PICK home \in BOOLEAN :
          proc' = [proc EXCEPT ![p] =
            [Hook!Idle EXCEPT !.pc = "read", !.expected = expected, !.event = event,
                         !.form = form, !.home = home, !.ok = ok]]
    BY <1>1 DEF Hook!Starts
<1> DEFINE h == [Hook!Idle EXCEPT !.pc = "read", !.expected = expected, !.event = event,
                             !.form = form, !.home = home, !.ok = ok]
<1>3. /\ h \in Hook!Processes /\ h.pc = "read" /\ h.expected = expected /\ h.event = event
      /\ h.form = form /\ h.under = "open"
    BY HookIdleType DEF Hook!Processes, Hook!Idle
<1>4. Sound(h, c)
    BY <1>1, <1>3 DEF Sound, Told, Past, Hook!ToolEvents
<1> HIDE DEF h
<1>5. proc' = [proc EXCEPT ![p] = h]
    BY <1>2 DEF h
<1> QED BY <1>3, <1>4, <1>5, ProcessStep DEF HookTyped, Hook!TypeOK

\* What becomes of the call of a process that is no more.
LEMMA LeftSound ==
    ASSUME NEW h, NEW b \in Hook!Calls, Sound(h, b),
           NEW c, c = Hook!NoCall \/ (b.state = "asked" /\ c = [b EXCEPT !.state = "running"])
    PROVE  c \in Hook!Calls /\ Sound(Hook!Idle, c)
<1>1. CASE c = Hook!NoCall
    BY <1>1, HookIdleType
<1>2. CASE b.state = "asked" /\ c = [b EXCEPT !.state = "running"]
    <2>1. b.use \in Uses /\ c \in Hook!Calls /\ c.use = b.use /\ c.state = "running"
        BY <1>2 DEF Sound, Told, Hook!Calls
    <2>2. Told(Hook!Idle, c)
        BY <2>1 DEF Told, Past, Hook!Idle
    <2> QED BY <2>1, <2>2 DEF Sound, Past, Hook!Idle
<1> QED BY <1>1, <1>2

LEMMA HostStep == ASSUME HookTyped, NEW p \in Procs, Hook!Host(p) PROVE HookTyped'
<1>0. proc[p] \in Hook!Processes /\ call[p] \in Hook!Calls /\ Sound(proc[p], call[p])
    BY DEF HookTyped, Hook!TypeOK, AllSound
<1>1. ASSUME NEW u \in Uses, Hook!HostAsks(p, u) PROVE HookTyped'
    <2> DEFINE c == [use |-> u, state |-> "asked"]
    <2>1. c \in Hook!Calls
        BY DEF Hook!Calls
    <2>2. PICK form \in Hook!Forms : Hook!Sends(p, "PreToolUse", form, TRUE)
        BY <1>1 DEF Hook!HostAsks
    <2> QED BY <1>1, <2>1, <2>2, StartSound
               DEF Hook!HostAsks, Hook!Events, Hook!ToolEvents, HookTyped, Hook!TypeOK
<1>2. ASSUME NEW ok \in BOOLEAN, Hook!HostReports(p, ok) PROVE HookTyped'
    <2> DEFINE c == [call[p] EXCEPT !.state = "over"]
    <2>1. call[p].state = "running" /\ call[p].use \in Uses
        BY <1>0, <1>2 DEF Hook!HostReports, Sound, Told
    <2>2. c \in Hook!Calls /\ c.state = "over" /\ c.use \in Uses
        BY <1>0, <2>1 DEF Hook!Calls
    <2>3. PICK form \in Hook!Forms : Hook!Sends(p, "PostToolUse", form, ok)
        BY <1>2 DEF Hook!HostReports
    <2>4. touched' \subseteq Sources
        BY <1>2 DEF Hook!Aims, Hook!HostReports, HookTyped, Hook!TypeOK
    <2>5. call' = [call EXCEPT ![p] = c] /\ UNCHANGED <<allowlist, present, gate, reads>>
        BY <1>2 DEF Hook!HostReports
    <2>6. "PostToolUse" \in Hook!Events /\ "PostToolUse" \in Hook!ToolEvents
        BY DEF Hook!Events, Hook!ToolEvents
    <2> HIDE DEF c
    <2> QED BY <2>2, <2>3, <2>4, <2>5, <2>6, StartSound
<1>3. CASE Hook!HostCompacts(p)
    <2>1. PICK event \in Hook!Events \ Hook!ToolEvents, form \in Hook!Forms :
              Hook!Sends(p, event, form, TRUE)
        BY <1>3 DEF Hook!HostCompacts
    <2>2. call[p].state = "none" /\ call' = [call EXCEPT ![p] = call[p]]
        BY <1>3 DEF Hook!HostCompacts, HookTyped, Hook!TypeOK
    <2> QED BY <1>0, <1>3, <2>1, <2>2, StartSound
               DEF Hook!HostCompacts, Hook!ToolEvents, HookTyped, Hook!TypeOK
<1>4. CASE Hook!HostTakes(p)
    <2> DEFINE taken == IF Hook!Passes(p) THEN [call[p] EXCEPT !.state = "running"]
                        ELSE Hook!NoCall
    <2>1. PICK c : call' = [call EXCEPT ![p] = c] /\ (c = taken \/ c \in Hook!Left(p))
        <3>1. CASE proc[p].answer = "mute"
            BY <1>4, <3>1 DEF Hook!HostTakes
        <3>2. CASE proc[p].answer # "mute"
            <4>1. call' = [call EXCEPT ![p] = taken]
                BY <1>4, <3>2 DEF Hook!HostTakes
            <4> QED BY <4>1
        <3> QED BY <3>1, <3>2
    <2>2. c = Hook!NoCall \/ (call[p].state = "asked" /\ c = [call[p] EXCEPT !.state = "running"])
        BY <2>1 DEF Hook!Left, Hook!Passes
    <2>3. c \in Hook!Calls /\ Sound(Hook!Idle, c)
        BY <1>0, <2>2, LeftSound
    <2>4. proc' = [proc EXCEPT ![p] = Hook!Idle]
        BY <1>4 DEF Hook!HostTakes
    <2> QED BY <1>4, <2>1, <2>3, <2>4, HookIdleType, ProcessStep
               DEF Hook!HostTakes, HookTyped, Hook!TypeOK
<1> QED BY <1>1, <1>2, <1>3, <1>4 DEF Hook!Host

LEMMA RunStep == ASSUME HookTyped, NEW p \in Procs, Hook!Run(p) PROVE HookTyped'
<1>0. proc[p] \in Hook!Processes /\ call[p] \in Hook!Calls /\ Sound(proc[p], call[p])
      /\ proc[p].event \in Hook!Events
    BY DEF HookTyped, Hook!TypeOK, AllSound, Hook!Processes
<1>1. CASE Hook!Load(p)
    <2>1. CASE Hook!Fails(p)
        BY <1>1, <2>1, FailsStep, OwnStep DEF Hook!Load, Hook!At, Hook!Trying
    <2>2. CASE ~Hook!Fails(p)
        <3> DEFINE h == [proc[p] EXCEPT !.pc = "parse", !.list = allowlist]
        <3>1. allowlist \in Allowlists /\ allowlist.version = Session
              /\ proc' = [proc EXCEPT ![p] = h] /\ proc[p].pc = "load"
            BY <1>1, <2>2 DEF Hook!Load, Hook!At, HookTyped, Hook!TypeOK,
                               Allowlists, Hook!Allowlists
        <3>2. h \in Hook!Processes /\ h.pc = "parse" /\ h.list = allowlist
              /\ h.event = proc[p].event /\ h.expected = proc[p].expected
              /\ h.form = proc[p].form /\ h.under = proc[p].under
            BY <1>0, <3>1 DEF Hook!Processes, Allowlists, Hook!Allowlists
        <3>3. Sound(h, call[p])
            BY <1>0, <3>1, <3>2 DEF Sound, Told, Past
        <3> HIDE DEF h
        <3> QED BY <1>1, <3>1, <3>2, <3>3, OwnStep DEF Hook!Load
    <2> QED BY <2>1, <2>2
<1>2. CASE Hook!Parse(p)
    BY <1>2, ParseStep
<1>3. CASE Hook!CoreInactive(p) \/ Hook!CorePreToolUse(p) \/ Hook!CoreFails(p)
    <2>1. /\ Hook!At(p, "core") /\ UNCHANGED <<allowlist, present, gate, reads, call, touched>>
          /\ \E b \in BOOLEAN : /\ Hook!Decides(p, b)
                                /\ proc[p].event = "PreToolUse" /\ b =>
                                     ~proc[p].home \/ gate = "open" \/ proc[p].class = "read"
        BY <1>3 DEF Hook!CoreInactive, Hook!CorePreToolUse, Hook!CoreFails
    <2>2. \E h \in Hook!Processes : Sound(h, call[p]) /\ proc' = [proc EXCEPT ![p] = h]
        BY <2>1, DecidesSound
    <2> QED BY <2>1, <2>2, OwnStep
<1>4. CASE Hook!CorePostToolUse(p) \/ Hook!CoreCompaction(p)
    <2>1. Hook!At(p, "core") /\ Hook!Decides(p, TRUE) /\ proc[p].event # "PreToolUse" /\ call' = call
        BY <1>4 DEF Hook!CorePostToolUse, Hook!CoreCompaction, Hook!ToolEvents
    <2>2. PICK h \in Hook!Processes : Sound(h, call[p]) /\ proc' = [proc EXCEPT ![p] = h]
        BY <2>1, DecidesSound
    <2>3. call' = [call EXCEPT ![p] = call[p]]
        BY <2>1 DEF HookTyped, Hook!TypeOK
    <2>4. allowlist' = allowlist /\ present' = present
          /\ reads' \subseteq Paths /\ touched' \subseteq Sources /\ gate' \in Hook!Gates
        <3>1. CASE Hook!CorePostToolUse(p)
            <4>1. proc[p].evidence \in present => proc[p].evidence \in Paths
                BY DEF HookAssumptions, Hook!UsesAssumption, HookTyped, Hook!TypeOK
            <4> QED BY <3>1, <4>1 DEF Hook!CorePostToolUse, HookTyped, Hook!TypeOK
        <3>2. CASE Hook!CoreCompaction(p)
            BY <1>0, <3>2
               DEF Hook!CoreCompaction, HookTyped, Hook!TypeOK, Hook!Gates, Hook!Events,
                   Hook!ToolEvents
        <3> QED BY <1>4, <3>1, <3>2
    <2> QED BY <1>0, <2>2, <2>3, <2>4, ProcessStep DEF HookTyped, Hook!TypeOK
<1>5. CASE Hook!Emit(p)
    <2>1. proc[p].pc = "emit" /\ Hook!EndsWith(p, proc[p].answer) /\ proc[p].answer \in Hook!Answers
        BY <1>0, <1>5 DEF Hook!Emit, Hook!At, Hook!Processes
    <2>2. [proc[p] EXCEPT !.answer = proc[p].answer] = proc[p]
        BY <1>0 DEF Hook!Processes
    <2>3. LetsCompact(proc[p]) /\ Justified(proc[p], call[p])
        BY <1>0, <2>1 DEF Sound
    <2>4. \E h \in Hook!Processes : Sound(h, call[p]) /\ proc' = [proc EXCEPT ![p] = h]
        BY <2>1, <2>2, <2>3, EndsSound
    <2> QED BY <1>5, <2>4, OwnStep DEF Hook!Emit
<1>6. CASE Hook!Throws(p)
    BY <1>6, FailsStep, OwnStep DEF Hook!Throws
<1>7. CASE Hook!Killed(p)
    <2>1. PICK c \in Hook!Left(p) : call' = [call EXCEPT ![p] = c]
        BY <1>7 DEF Hook!Killed
    <2>2. c \in Hook!Calls /\ Sound(Hook!Idle, c)
        BY <1>0, <2>1, LeftSound DEF Hook!Left
    <2> QED BY <1>7, <2>1, <2>2, HookIdleType, ProcessStep DEF Hook!Killed, HookTyped, Hook!TypeOK
<1>8. CASE Hook!Peek(p)
    <2>1. CASE proc[p].form = "lost"
        <3> DEFINE g == [proc[p] EXCEPT !.answer = "error"]
        <3>1. g.answer = "error" /\ g.form = proc[p].form
            BY <1>0 DEF Hook!Processes
        <3>2. LetsCompact(g) /\ Justified(g, call[p])
            BY <2>1, <3>1 DEF LetsCompact, Justified
        <3> HIDE DEF g
        <3>3. proc[p].pc \notin {"idle", "ended"} /\ Hook!EndsWith(p, "error")
              /\ "error" \in Hook!Answers
            BY <1>8, <2>1 DEF Hook!Peek, Hook!At, Hook!Answers
        <3>4. \E h \in Hook!Processes : Sound(h, call[p]) /\ proc' = [proc EXCEPT ![p] = h]
            BY <3>2, <3>3, EndsSound DEF g
        <3> QED BY <1>8, <3>4, OwnStep DEF Hook!Peek
    <2>2. CASE proc[p].form # "lost"
        <3> DEFINE h == [proc[p] EXCEPT !.pc = "load"]
        <3>1. proc' = [proc EXCEPT ![p] = h] /\ proc[p].pc = "read"
            BY <1>8, <2>2 DEF Hook!Peek, Hook!At
        <3>2. h \in Hook!Processes /\ h.pc = "load" /\ h.event = proc[p].event
              /\ h.expected = proc[p].expected /\ h.form = proc[p].form /\ h.under = proc[p].under
            BY <1>0 DEF Hook!Processes
        <3>3. Sound(h, call[p])
            BY <1>0, <3>1, <3>2 DEF Sound, Told, Past
        <3> HIDE DEF h
        <3> QED BY <1>8, <3>1, <3>2, <3>3, OwnStep DEF Hook!Peek
    <2> QED BY <2>1, <2>2
<1> QED BY <1>1, <1>2, <1>3, <1>4, <1>5, <1>6, <1>7, <1>8 DEF Hook!Run

LEMMA HookTypedStep == HookTyped /\ [Hook!Next]_(Hook!vars) => HookTyped'
<1> SUFFICES ASSUME HookTyped, [Hook!Next]_(Hook!vars) PROVE HookTyped'
    OBVIOUS
<1>1. ASSUME NEW p \in Procs, Hook!Run(p) \/ Hook!Host(p) PROVE HookTyped'
    BY <1>1, RunStep, HostStep
<1>2. CASE Hook!Validate \/ Hook!Reallow \/ UNCHANGED Hook!vars
    BY <1>2, WorldStep
       DEF Hook!Validate, Hook!Reallow, Hook!vars, HookTyped, Hook!TypeOK, Hook!Gates,
           Allowlists, Hook!Allowlists
<1>3. ASSUME NEW f \in WorkFiles, Hook!Create(f) \/ Hook!Delete(f) PROVE HookTyped'
    BY <1>3, WorldStep
       DEF Hook!Create, Hook!Delete, HookTyped, Hook!TypeOK, Allowlists, Hook!Allowlists
<1> QED BY <1>1, <1>2, <1>3 DEF Hook!Next

LEMMA HookTypedAlways ==
    ASSUME HookAssumptions PROVE Hook!Spec => []HookTyped
<1>1. Hook!Init => HookTyped
    <2> SUFFICES ASSUME Hook!Init PROVE HookTyped
        OBVIOUS
    <2>1. proc \in [Procs -> Hook!Processes] /\ call \in [Procs -> Hook!Calls]
        BY HookIdleType DEF Hook!Init
    <2>2. \A p \in Procs : proc[p] = Hook!Idle /\ call[p] = Hook!NoCall /\ proc[p].pc = "idle"
        BY DEF Hook!Init, Hook!Idle
    <2>3. AllSound
        BY <2>2, HookIdleType DEF AllSound
    <2> QED BY <2>1, <2>2, <2>3 DEF Hook!Init, HookTyped, Hook!TypeOK, Hook!Gates
<1> QED BY <1>1, HookTypedStep, PTL DEF Hook!Spec

\* Every reachable state of the hook command is well-typed.
THEOREM HookTypes ==
    ASSUME HookAssumptions PROVE Hook!Spec => []Hook!TypeOK
<1>1. HookTyped => Hook!TypeOK
    BY DEF HookTyped
<1> QED BY <1>1, HookTypedAlways, PTL

\* What passes behind the gate that is shut is what the classifier takes for a
\* read.  Whether that changes nothing is a question about the tools: TLC
\* answers it for the uses of the run, and not for every command there is.
ReadsBehindShutGate ==
    \A p \in Procs :
        Passes(p) /\ proc[p].home /\ proc[p].under # "open"
            => Hook!ClassifyTool(call[p].use) = "read"

\* No hook lets a call from the repository pass behind the shut gate that the
\* classifier does not take for a read, for any tools and commands, any number
\* of hooks at a time, whatever fails and whatever the operator does between
\* the parse, the decision and the answer (cli.py, classify_tool,
\* _pre_tool_use).
THEOREM ShutGateTheorem ==
    ASSUME HookAssumptions PROVE Hook!Spec => []ReadsBehindShutGate
<1>1. HookTyped => ReadsBehindShutGate
    <2> SUFFICES ASSUME HookTyped, NEW p \in Procs, Passes(p), proc[p].home, proc[p].under # "open"
                 PROVE  Hook!ClassifyTool(call[p].use) = "read"
        BY DEF ReadsBehindShutGate
    <2>1. Sound(proc[p], call[p]) /\ proc[p].pc = "ended" /\ call[p].state = "asked"
        BY DEF HookTyped, AllSound, Passes, Ended
    <2>2. proc[p].event = "PreToolUse"
        BY <2>1 DEF Sound, Told, Hook!ToolEvents
    <2> QED BY <2>1, <2>2 DEF Sound, Justified, Passes
<1> QED BY <1>1, HookTypedAlways, PTL

\* Unless the command of PreCompact gets events of other kinds that cannot even
\* be told, a failure anywhere after the input was read and looked into lets the
\* host compact, if an answer can be written at all, and a failure anywhere lets
\* no tool pass but those the allowlist the hook has loaded lists for this host
\* (_run_hook).
THEOREM FailureTheorem ==
    ASSUME HookAssumptions, "unreadable" \notin MixedUp
    PROVE  Hook!Spec => []FailsTheRightWay
<1>1. HookTyped => FailsTheRightWay
    <2> SUFFICES ASSUME HookTyped, NEW p \in Procs, proc[p].pc = "ended"
                 PROVE  /\ LetsCompact(proc[p])
                        /\ Passes(p) => /\ proc[p].list \in Allowlists
                                        /\ proc[p].list.version = Session
                                        /\ call[p].use.tool \in proc[p].list.tools
        BY DEF FailsTheRightWay, LetsCompact, Passes, Ended
    <2>1. Sound(proc[p], call[p])
        BY DEF HookTyped, AllSound
    <2>2. Passes(p) => proc[p].event = "PreToolUse"
        BY <2>1 DEF Sound, Told, Hook!ToolEvents, Passes
    <2> QED BY <2>1, <2>2 DEF Sound, Justified, Passes
<1> QED BY <1>1, HookTypedAlways, PTL

-----------------------------------------------------------------------------
(* What opens the gate.                                                    *)

\* While the host compacts, no call is under way and no other hook runs.
Exclusive ==
    \A p \in Procs : proc[p].pc # "idle" /\ proc[p].event \notin Hook!ToolEvents =>
        \A q \in Procs : call[q].state = "none" /\ (q # p => proc[q].pc = "idle")

\* What a successful call was directed at stays touched until its hook is done,
\* and what is stored of it is touched.
Witnessed ==
    /\ \A p \in Procs :
          proc[p].event = "PostToolUse" =>
              /\ proc[p].ok /\ proc[p].pc \in {"read", "load", "parse", "core"}
                    => Hook!Aims(call[p].use) \subseteq touched
              /\ proc[p].pc = "core" /\ proc[p].evidence \in Sources
                    => proc[p].evidence \in Hook!Aims(call[p].use)
    /\ reads \cap Sources \subseteq touched

EvInv == Exclusive /\ Witnessed

\* A process goes on or ends, and nothing that was touched is forgotten.
LEMMA QuietStep ==
    ASSUME HookTyped, EvInv, NEW p \in Procs, NEW h, NEW c,
           proc' = [proc EXCEPT ![p] = h], call' = [call EXCEPT ![p] = c],
           h.pc # "idle" /\ h.event \notin Hook!ToolEvents =>
               proc[p].pc # "idle" /\ h.event = proc[p].event,
           c.state = "none" \/ call[p].state # "none",
           h.event = "PostToolUse" /\ h.pc \in {"read", "load", "parse", "core"} =>
               /\ proc[p].pc \in {"read", "load", "parse", "core"} /\ proc[p].event = "PostToolUse"
               /\ h.ok = proc[p].ok /\ c = call[p]
               /\ h.pc = "core" /\ h.evidence \in Sources => h.evidence \in Hook!Aims(c.use),
           proc[p].pc # "idle" /\ h.pc # "idle" => h.event = proc[p].event,
           proc[p].pc = "idle" => h.pc = "idle",
           touched \subseteq touched', reads' \cap Sources \subseteq touched'
    PROVE  EvInv'
<1>1. proc'[p] = h /\ call'[p] = c
    BY DEF HookTyped, Hook!TypeOK
<1>2. \A q \in Procs : q # p => proc'[q] = proc[q] /\ call'[q] = call[q]
    BY DEF HookTyped, Hook!TypeOK
<1>3. Exclusive'
    BY <1>1, <1>2 DEF EvInv, Exclusive
<1>4. Witnessed'
    BY <1>1, <1>2 DEF EvInv, Witnessed
<1> QED BY <1>3, <1>4 DEF EvInv

LEMMA RunKeepsEvidence ==
    ASSUME HookTyped, EvInv, NEW p \in Procs, Hook!Run(p) PROVE EvInv'
<1>0. proc[p] \in Hook!Processes /\ call[p] \in Hook!Calls /\ Sound(proc[p], call[p])
      /\ call = [call EXCEPT ![p] = call[p]]
    BY DEF HookTyped, Hook!TypeOK, AllSound
<1>1. ASSUME NEW answer, Hook!EndsWith(p, answer), proc[p].pc \in Hook!Trying \cup {"read"},
             UNCHANGED <<call, touched, reads>>
      PROVE  EvInv'
    <2>0. PICK said : proc' = [proc EXCEPT ![p].pc = "ended", ![p].answer = said]
        BY <1>1 DEF Hook!EndsWith
    <2> DEFINE h == [proc[p] EXCEPT !.pc = "ended", !.answer = said]
    <2>1. h.pc = "ended" /\ h.event = proc[p].event
        BY <1>0 DEF Hook!Processes
    <2>2. proc' = [proc EXCEPT ![p] = h] /\ call' = [call EXCEPT ![p] = call[p]]
        BY <1>0, <1>1, <2>0
    <2> HIDE DEF h
    <2> QED BY <1>1, <2>1, <2>2, QuietStep DEF EvInv, Witnessed, Hook!Trying
<1>2. CASE Hook!Load(p)
    <2>1. CASE Hook!Fails(p)
        BY <1>1, <1>2, <2>1 DEF Hook!Load, Hook!Fails, Hook!At, Hook!Trying
    <2>2. CASE ~Hook!Fails(p)
        <3> DEFINE h == [proc[p] EXCEPT !.pc = "parse", !.list = allowlist]
        <3>1. h.pc = "parse" /\ h.event = proc[p].event /\ h.ok = proc[p].ok
            BY <1>0 DEF Hook!Processes
        <3>2. proc' = [proc EXCEPT ![p] = h] /\ call' = [call EXCEPT ![p] = call[p]]
              /\ proc[p].pc = "load" /\ touched' = touched /\ reads' = reads
            BY <1>0, <1>2, <2>2 DEF Hook!Load, Hook!At
        <3> HIDE DEF h
        <3> QED BY <3>1, <3>2, QuietStep DEF EvInv, Witnessed
    <2> QED BY <2>1, <2>2
<1>3. CASE Hook!Parse(p)
    <2>0. proc[p].pc = "parse" /\ UNCHANGED <<call, touched, reads>>
        BY <1>3 DEF Hook!Parse, Hook!At
    <2>1. CASE Hook!Fails(p)
        BY <1>1, <2>0, <2>1 DEF Hook!Fails, Hook!Trying
    <2>2. CASE Hook!EndsWith(p, Hook!Emitted(proc[p].event, FALSE))
        BY <1>1, <2>0, <2>2 DEF Hook!Trying
    <2>3. CASE ~Hook!Fails(p) /\ ~Hook!EndsWith(p, Hook!Emitted(proc[p].event, FALSE))
        <3> DEFINE u == call[p].use
                   c == IF proc[p].event \in Hook!ToolEvents
                        THEN Hook!ToolClassOf(u, present) ELSE "unknown"
                   e == IF proc[p].event \in Hook!ToolEvents
                        THEN Hook!EvidencePath(u, present) ELSE NoPath
                   h == [proc[p] EXCEPT !.pc = "core", !.class = c, !.evidence = e]
        <3>1. h.pc = "core" /\ h.event = proc[p].event /\ h.ok = proc[p].ok /\ h.evidence = e
            BY <1>0 DEF Hook!Processes
        <3>2. proc' = [proc EXCEPT ![p] = h]
            BY <1>3, <2>3 DEF Hook!Parse
        <3>3. ASSUME proc[p].event = "PostToolUse", e \in Sources PROVE e \in Hook!Aims(u)
            <4>1. u \in Uses /\ e = Hook!EvidencePath(u, present)
                BY <1>0, <2>0, <3>3 DEF Sound, Told, Hook!ToolEvents
            <4> QED BY <3>3, <4>1, EvidenceIsAimedAt DEF HookTyped
        <3> HIDE DEF h
        <3> QED BY <1>0, <2>0, <3>1, <3>2, <3>3, QuietStep DEF EvInv, Witnessed
    <2> QED BY <2>1, <2>2, <2>3
<1>4. ASSUME NEW b, Hook!Decides(p, b), proc[p].pc = "core", call' = call,
             touched' = touched, reads' \cap Sources \subseteq touched
      PROVE  EvInv'
    <2> DEFINE h == [proc[p] EXCEPT !.pc = "emit", !.under = gate,
                                    !.answer = Hook!Emitted(proc[p].event, b)]
    <2>1. h.pc = "emit" /\ h.event = proc[p].event
        BY <1>0 DEF Hook!Processes
    <2>2. proc' = [proc EXCEPT ![p] = h] /\ call' = [call EXCEPT ![p] = call[p]]
        BY <1>0, <1>4 DEF Hook!Decides
    <2> HIDE DEF h
    <2> QED BY <1>4, <2>1, <2>2, QuietStep
<1>5. CASE Hook!CoreInactive(p) \/ Hook!CorePreToolUse(p) \/ Hook!CoreFails(p)
    <2>1. /\ proc[p].pc = "core" /\ call' = call /\ touched' = touched /\ reads' = reads
          /\ \E b \in BOOLEAN : Hook!Decides(p, b)
        BY <1>5 DEF Hook!CoreInactive, Hook!CorePreToolUse, Hook!CoreFails, Hook!At
    <2> QED BY <1>4, <2>1 DEF EvInv, Witnessed
<1>6. CASE Hook!CorePostToolUse(p)
    <2>1. /\ proc[p].pc = "core" /\ call' = call /\ touched' = touched /\ Hook!Decides(p, TRUE)
          /\ proc[p].event = "PostToolUse"
          /\ reads' = reads \/ (proc[p].ok /\ reads' = reads \cup {proc[p].evidence})
        BY <1>6 DEF Hook!CorePostToolUse, Hook!At
    <2>2. reads' \cap Sources \subseteq touched
        BY <2>1 DEF EvInv, Witnessed
    <2> QED BY <1>4, <2>1, <2>2
<1>7. CASE Hook!CoreCompaction(p)
    <2> DEFINE h == [proc[p] EXCEPT !.pc = "emit", !.under = gate,
                                    !.answer = Hook!Emitted(proc[p].event, TRUE)]
    <2>1. h.pc = "emit" /\ h.event = proc[p].event /\ h.event \notin Hook!ToolEvents
        BY <1>0, <1>7 DEF Hook!Processes, Hook!CoreCompaction
    <2>2. proc' = [proc EXCEPT ![p] = h] /\ call' = call /\ proc[p].pc = "core"
        BY <1>7 DEF Hook!CoreCompaction, Hook!Decides, Hook!At
    <2>3. proc'[p] = h /\ \A q \in Procs : q # p => proc'[q] = proc[q] /\ proc[q].pc = "idle"
        BY <2>1, <2>2 DEF EvInv, Exclusive, HookTyped, Hook!TypeOK
    <2>4. Exclusive'
        BY <2>1, <2>2, <2>3 DEF EvInv, Exclusive
    <2>5. reads' \cap Sources \subseteq touched'
        BY <1>7 DEF Hook!CoreCompaction, EvInv, Witnessed
    <2>6. Witnessed'
        BY <2>1, <2>3, <2>5 DEF Witnessed
    <2> QED BY <2>4, <2>6 DEF EvInv
<1>8. CASE Hook!Emit(p) \/ Hook!Throws(p)
    BY <1>1, <1>8 DEF Hook!Emit, Hook!Throws, Hook!Fails, Hook!At, Hook!Trying
<1>9. CASE Hook!Killed(p)
    <2>1. PICK c \in Hook!Left(p) : call' = [call EXCEPT ![p] = c]
        BY <1>9 DEF Hook!Killed
    <2>2. c.state = "none" \/ call[p].state # "none"
        BY <2>1 DEF Hook!Left, Hook!NoCall
    <2>3. /\ proc' = [proc EXCEPT ![p] = Hook!Idle]
          /\ touched' = touched /\ reads' = reads /\ Hook!Idle.pc = "idle"
        BY <1>9 DEF Hook!Killed, Hook!Idle
    <2> QED BY <2>1, <2>2, <2>3, QuietStep DEF EvInv, Witnessed
<1>10. CASE Hook!Peek(p)
    <2>1. CASE proc[p].form = "lost"
        BY <1>1, <1>10, <2>1 DEF Hook!Peek, Hook!At
    <2>2. CASE proc[p].form # "lost"
        <3> DEFINE h == [proc[p] EXCEPT !.pc = "load"]
        <3>1. h.pc = "load" /\ h.event = proc[p].event /\ h.ok = proc[p].ok
            BY <1>0 DEF Hook!Processes
        <3>2. proc' = [proc EXCEPT ![p] = h] /\ call' = [call EXCEPT ![p] = call[p]]
              /\ proc[p].pc = "read" /\ touched' = touched /\ reads' = reads
            BY <1>0, <1>10, <2>2 DEF Hook!Peek, Hook!At
        <3> HIDE DEF h
        <3> QED BY <3>1, <3>2, QuietStep DEF EvInv, Witnessed
    <2> QED BY <2>1, <2>2
<1> QED BY <1>2, <1>3, <1>5, <1>6, <1>7, <1>8, <1>9, <1>10 DEF Hook!Run

LEMMA HostKeepsEvidence ==
    ASSUME HookTyped, EvInv, NEW p \in Procs, Hook!Host(p) PROVE EvInv'
<1>0. proc[p] \in Hook!Processes /\ call[p] \in Hook!Calls /\ Sound(proc[p], call[p])
      /\ call = [call EXCEPT ![p] = call[p]] /\ reads \cap Sources \subseteq touched
    BY DEF HookTyped, Hook!TypeOK, AllSound, EvInv, Witnessed
<1>1. ASSUME NEW event, NEW form, NEW ok, Hook!Sends(p, event, form, ok)
      PROVE  /\ proc'[p].pc = "read" /\ proc'[p].event = event /\ proc'[p].ok = ok
             /\ \A q \in Procs : q # p => proc'[q] = proc[q]
    <2>1. PICK expected : Hook!Starts(p, expected, event, form, ok)
        BY <1>1 DEF Hook!Sends
    <2>2. PICK home \in BOOLEAN :
              proc' = [proc EXCEPT ![p] =
                [Hook!Idle EXCEPT !.pc = "read", !.expected = expected, !.event = event,
                                  !.form = form, !.home = home, !.ok = ok]]
        BY <2>1 DEF Hook!Starts
    <2> DEFINE h == [Hook!Idle EXCEPT !.pc = "read", !.expected = expected, !.event = event,
                                      !.form = form, !.home = home, !.ok = ok]
    <2>3. h.pc = "read" /\ h.event = event /\ h.ok = ok
        BY DEF Hook!Idle
    <2> HIDE DEF h
    <2>4. proc' = [proc EXCEPT ![p] = h]
        BY <2>2 DEF h
    <2> QED BY <2>3, <2>4 DEF HookTyped, Hook!TypeOK
<1>2. ASSUME NEW u \in Uses, Hook!HostAsks(p, u) PROVE EvInv'
    <2>1. /\ proc'[p].pc = "read" /\ proc'[p].event = "PreToolUse"
          /\ \A q \in Procs : q # p => proc'[q] = proc[q] /\ call'[q] = call[q]
        BY <1>1, <1>2 DEF Hook!HostAsks, HookTyped, Hook!TypeOK
    <2>2. /\ \A q \in Procs : proc[q].pc = "idle" \/ proc[q].event \in Hook!ToolEvents
          /\ touched' = touched /\ reads' = reads
        BY <1>2 DEF Hook!HostAsks, Hook!At
    <2>3. Exclusive'
        BY <2>1, <2>2 DEF Exclusive, Hook!ToolEvents
    <2>4. Witnessed'
        BY <2>1, <2>2 DEF EvInv, Witnessed
    <2> QED BY <2>3, <2>4 DEF EvInv
<1>3. ASSUME NEW ok \in BOOLEAN, Hook!HostReports(p, ok) PROVE EvInv'
    <2>1. /\ proc'[p].pc = "read" /\ proc'[p].event = "PostToolUse" /\ proc'[p].ok = ok
          /\ \A q \in Procs : q # p => proc'[q] = proc[q] /\ call'[q] = call[q]
          /\ call[p].state = "running" /\ call'[p].use = call[p].use
        BY <1>0, <1>1, <1>3 DEF Hook!HostReports, HookTyped, Hook!TypeOK, Hook!Calls
    <2>2. /\ touched' = IF ok THEN touched \cup Hook!Aims(call[p].use) ELSE touched
          /\ reads' = reads
        BY <1>3 DEF Hook!HostReports
    <2>3. \A q \in Procs : proc[q].pc = "idle" \/ proc[q].event \in Hook!ToolEvents
        BY <2>1 DEF EvInv, Exclusive
    <2>4. Exclusive'
        BY <2>1, <2>3 DEF Exclusive, Hook!ToolEvents
    <2>5. Witnessed'
        BY <1>0, <2>1, <2>2 DEF EvInv, Witnessed
    <2> QED BY <2>4, <2>5 DEF EvInv
<1>4. CASE Hook!HostCompacts(p)
    <2>1. PICK event \in Hook!Events \ Hook!ToolEvents :
              \E form \in Hook!Forms : Hook!Sends(p, event, form, TRUE)
        BY <1>4 DEF Hook!HostCompacts
    <2>2. /\ proc'[p].pc = "read" /\ proc'[p].event = event
          /\ \A q \in Procs : q # p => proc'[q] = proc[q]
        BY <1>1, <2>1
    <2>3. /\ \A q \in Procs : proc[q].pc = "idle" /\ call'[q].state = "none"
          /\ touched' = touched /\ reads' = reads /\ call' = call
        BY <1>4 DEF Hook!HostCompacts, Hook!At
    <2>4. Exclusive'
        BY <2>2, <2>3 DEF Exclusive
    <2>5. Witnessed'
        BY <2>1, <2>2, <2>3 DEF EvInv, Witnessed, Hook!ToolEvents
    <2> QED BY <2>4, <2>5 DEF EvInv
<1>5. CASE Hook!HostTakes(p)
    <2>1. PICK c : /\ call' = [call EXCEPT ![p] = c]
                   /\ c.state = "none" \/ call[p].state # "none"
        BY <1>5 DEF Hook!HostTakes, Hook!Left, Hook!NoCall, Hook!Passes
    <2>2. /\ proc' = [proc EXCEPT ![p] = Hook!Idle]
          /\ Hook!Idle.pc = "idle" /\ reads' = reads /\ touched' = touched
        BY <1>5 DEF Hook!HostTakes, Hook!Idle
    <2> QED BY <1>0, <2>1, <2>2, QuietStep
<1> QED BY <1>2, <1>3, <1>4, <1>5 DEF Hook!Host

LEMMA EvStep == HookTyped /\ EvInv /\ [Hook!Next]_(Hook!vars) => EvInv'
<1> SUFFICES ASSUME HookTyped, EvInv, [Hook!Next]_(Hook!vars) PROVE EvInv'
    OBVIOUS
<1>1. ASSUME NEW p \in Procs, Hook!Run(p) \/ Hook!Host(p) PROVE EvInv'
    BY <1>1, RunKeepsEvidence, HostKeepsEvidence
<1>2. ASSUME UNCHANGED <<reads, proc, call, touched>> PROVE EvInv'
    BY <1>2 DEF EvInv, Exclusive, Witnessed
<1>3. CASE Hook!Validate \/ Hook!Reallow \/ UNCHANGED Hook!vars
    BY <1>2, <1>3 DEF Hook!Validate, Hook!Reallow, Hook!vars
<1>4. ASSUME NEW f \in WorkFiles, Hook!Create(f) \/ Hook!Delete(f) PROVE EvInv'
    BY <1>2, <1>4 DEF Hook!Create, Hook!Delete
<1> QED BY <1>1, <1>3, <1>4 DEF Hook!Next

LEMMA EvAlways ==
    ASSUME HookAssumptions PROVE Hook!Spec => []EvInv
<1>1. Hook!Init => EvInv
    BY DEF Hook!Init, EvInv, Exclusive, Witnessed, Hook!Idle
<1> QED BY <1>1, EvStep, HookTypedAlways, PTL DEF Hook!Spec

\* The gate opens only when, since the recovery, every source was what some call
\* was directed at alone and that succeeded (_evidence_path), however hooks
\* interleave with the operator and files come and go.
THEOREM OpeningTheorem ==
    ASSUME HookAssumptions PROVE Hook!Spec => OpensAfterCalls
<1>1. ASSUME HookTyped, EvInv, [Hook!Next]_(Hook!vars)
      PROVE  [gate # "open" /\ gate' = "open" => Sources \subseteq touched]_<<gate, touched>>
    <2> SUFFICES ASSUME Hook!Next, gate # "open", gate' = "open" PROVE Sources \subseteq touched
        BY <1>1 DEF Hook!vars
    <2>1. ASSUME NEW p \in Procs, Hook!Run(p) \/ Hook!Host(p) PROVE FALSE
        <3>1. gate' = gate \/ Hook!CoreCompaction(p)
            BY <2>1
               DEF Hook!Run, Hook!Host, Hook!Load, Hook!Parse, Hook!CoreInactive,
                   Hook!CorePreToolUse, Hook!CorePostToolUse, Hook!CoreFails, Hook!Emit, Hook!Peek,
                   Hook!Throws, Hook!Killed, Hook!HostAsks, Hook!HostReports,
                   Hook!HostCompacts, Hook!HostTakes
        <3>2. proc[p].event \in Hook!Events
            BY <1>1 DEF HookTyped, Hook!TypeOK, Hook!Processes
        <3> QED BY <3>1, <3>2 DEF Hook!CoreCompaction, Hook!Events
    <2>2. Hook!Validate
        BY <1>1, <2>1 DEF Hook!Next, Hook!Reallow, Hook!Create, Hook!Delete
    <2> QED BY <1>1, <2>2 DEF Hook!Validate, EvInv, Witnessed
<1> QED BY <1>1, HookTypedAlways, EvAlways, PTL DEF Hook!Spec, OpensAfterCalls

-----------------------------------------------------------------------------
(* The gate the hooks answer by is the one of Gate, which Lifecycle stores. *)

Promised == INSTANCE Gate WITH wanted <- Sources

\* Whatever the hooks store and the operator validates, as HookEntry has it, is
\* a step of the gate that the lifecycle is touched to keep: what is proved here
\* of the answers is proved for a gate that is shut and opened as it is there.
THEOREM HookGateTheorem ==
    ASSUME HookAssumptions PROVE Hook!Spec => Promised!Spec
<1>1. ASSUME HookTyped, [Hook!Next]_(Hook!vars)
      PROVE  [Promised!Next]_(Promised!vars)
    <2>1. UNCHANGED <<gate, reads>> => UNCHANGED Promised!vars
        BY DEF Promised!vars
    <2>2. ASSUME NEW p \in Procs, Hook!Run(p) PROVE [Promised!Next]_(Promised!vars)
        <3>1. \/ UNCHANGED <<gate, reads>>
              \/ Hook!CorePostToolUse(p) \/ Hook!CoreCompaction(p)
            BY <2>2 DEF Hook!Run, Hook!Peek, Hook!Load, Hook!Parse, Hook!CoreInactive,
                        Hook!CorePreToolUse, Hook!CoreFails, Hook!Emit, Hook!Throws, Hook!Killed
        <3>2. CASE Hook!CorePostToolUse(p)
            <4>1. gate \in Hook!Gates
                BY <1>1 DEF HookTyped, Hook!TypeOK
            <4>2. UNCHANGED <<gate, reads>> \/ Promised!Observe
                BY <3>2, <4>1 DEF Hook!CorePostToolUse, Hook!Gates, Promised!Observe
            <4> QED BY <2>1, <4>2 DEF Promised!Next
        <3>3. CASE Hook!CoreCompaction(p)
            <4>1. proc[p].event \in Hook!Events
                BY <1>1 DEF HookTyped, Hook!TypeOK, Hook!Processes
            <4>2. UNCHANGED <<gate, reads>> \/ Promised!Capture \/ Promised!Resume
                BY <3>3, <4>1 DEF Hook!CoreCompaction, Hook!Events, Hook!ToolEvents,
                                  Promised!Capture, Promised!Resume, Promised!Shut
            <4> QED BY <2>1, <4>2 DEF Promised!Next
        <3> QED BY <2>1, <3>1, <3>2, <3>3
    <2>3. ASSUME NEW p \in Procs, Hook!Host(p) PROVE UNCHANGED <<gate, reads>>
        BY <2>3 DEF Hook!Host, Hook!HostAsks, Hook!HostReports, Hook!HostCompacts,
                    Hook!HostTakes
    <2>4. CASE Hook!Validate
        BY <2>4 DEF Hook!Validate, Promised!Next, Promised!Open
    <2>5. ASSUME NEW f \in WorkFiles, Hook!Create(f) \/ Hook!Delete(f)
          PROVE  UNCHANGED <<gate, reads>>
        BY <2>5 DEF Hook!Create, Hook!Delete
    <2>6. CASE Hook!Reallow \/ UNCHANGED Hook!vars
        BY <2>1, <2>6 DEF Hook!Reallow, Hook!vars
    <2> QED BY <1>1, <2>1, <2>2, <2>3, <2>4, <2>5, <2>6 DEF Hook!Next
<1>2. Hook!Init => Promised!Init
    BY DEF Hook!Init, Promised!Init
<1> QED BY <1>1, <1>2, HookTypedAlways, PTL DEF Hook!Spec, Promised!Spec
=============================================================================
