--------------------------- MODULE StateStoreProofs ---------------------------
(***************************************************************************)
(* Theorems about StateStore for any number of processes, keys and kills:  *)
(* types, and, unless the operator purges beside running hooks, mutual     *)
(* exclusion inside the process lock, the refinement of the atomic store,  *)
(* and that state is only left behind beside its marker.                   *)
(*                                                                         *)
(* Mutual exclusion rests on one fact: who purges is alone, and otherwise  *)
(* every open lock file is the one the path names.  The refinement rests   *)
(* on exclusion: what append_event computed from the ring stays true until *)
(* it moves the new ring into place.                                       *)
(***************************************************************************)
EXTENDS StateStore, TLAPS

-----------------------------------------------------------------------------
(* Types.                                                                  *)

Requested ==
    \A p \in Procs :
        /\ proc[p].op = "append" => proc[p].key \in Keys
        /\ proc[p].op = "write" => proc[p].value \in Values
        /\ proc[p].pc = "load" => proc[p].op = "append"
        /\ proc[p].pc \in {"temp", "replace"} => proc[p].op \in {"write", "append"}
        /\ proc[p].pc \in {"own", "mark", "marked"} => proc[p].op \in {"write", "append"}

Typed == TypeOK /\ Requested

LEMMA RingsEmpty == <<>> \in Rings
<1>1. Retention \in Nat
    BY StoreAssumption
<1>2. <<>> \in [1..0 -> Keys] /\ 0 \in 0..Retention
    BY <1>1
<1> QED BY <1>2 DEF Rings

\* The ring with one more event, cut to Retention, is a ring.
LEMMA RingStep ==
    ASSUME NEW r \in Rings, NEW k \in Keys
    PROVE  Newest(Append(r, k)) \in Rings
<1>1. Retention \in Nat \ {0}
    BY StoreAssumption
<1>2. PICK n \in 0..Retention : r \in [1..n -> Keys]
    BY DEF Rings
<1>3. n \in Nat /\ r \in Seq(Keys) /\ Len(r) = n
    BY <1>1, <1>2
<1> DEFINE a == Append(r, k)
<1>4. a \in Seq(Keys) /\ Len(a) = n + 1
    BY <1>3
<1> HIDE DEF a
<1>5. CASE n + 1 <= Retention
    <2>1. Newest(a) = a
        BY <1>4, <1>5 DEF Newest
    <2>2. a \in [1..(n + 1) -> Keys] /\ n + 1 \in 0..Retention
        BY <1>1, <1>3, <1>4, <1>5
    <2> QED BY <2>1, <2>2 DEF Rings, a
<1>6. CASE ~(n + 1 <= Retention)
    <2>1. n = Retention
        BY <1>1, <1>2, <1>6
    <2>2. Newest(a) = SubSeq(a, 2, n + 1)
        BY <1>1, <1>3, <1>4, <1>6, <2>1 DEF Newest
    <2>3. SubSeq(a, 2, n + 1) \in [1..n -> Keys]
        <3>1. SubSeq(a, 2, n + 1) = [i \in 1..n |-> a[i + 1]]
            BY <1>3, <1>4
        <3>2. \A i \in 1..n : a[i + 1] \in Keys
            BY <1>3, <1>4
        <3> QED BY <3>1, <3>2
    <2> QED BY <1>2, <2>2, <2>3 DEF Rings, a
<1> QED BY <1>5, <1>6

LEMMA IdleTyped == Idle \in Processes
    BY RingsEmpty DEF Idle, Processes, Phases, Ops

LEMMA TypedInit == Init => Typed
<1> SUFFICES ASSUME Init PROVE Typed
    OBVIOUS
<1>1. proc \in [Procs -> Processes]
    BY IdleTyped DEF Init
<1>2. TypeOK
    <2>1. ring \in Rings /\ temps \subseteq Procs /\ 0 \in 0..MaxKills
        BY StoreAssumption, RingsEmpty DEF Init
    <2>2. flock \in [Inodes -> Procs \cup {Free}]
        BY DEF Init
    <2> QED BY <1>1, <2>1, <2>2 DEF Init, TypeOK
<1>3. Requested
    BY DEF Init, Requested, Idle
<1> QED BY <1>2, <1>3 DEF Typed

LEMMA TypedStep == Typed /\ [Next]_vars => Typed'
<1> SUFFICES ASSUME Typed, [Next]_vars PROVE Typed'
    OBVIOUS
<1> USE DEF Typed, TypeOK, Requested, At, Goto, files
<1>0. CASE UNCHANGED vars
    BY <1>0 DEF vars
<1> SUFFICES ASSUME NEW p \in Procs, Start(p) \/ Advance(p) \/ Kill(p) PROVE Typed'
    BY <1>0 DEF Next
<1>i. Idle.op = "read" /\ Idle.pc = "idle"
    BY DEF Idle
<1>1. ASSUME NEW op \in Ops, NEW v \in Values \cup {None}, NEW k \in Keys \cup {None},
             OpenLock(p, op, v, k), op = "append" => k \in Keys,
             op = "write" => v \in Values
      PROVE Typed'
    <2>1. PICK i \in Inodes : /\ lockPath' = i
                              /\ proc' = [proc EXCEPT ![p] = [Idle EXCEPT !.pc = "lock",
                                     !.op = op, !.value = v, !.key = k, !.inode = i]]
                              /\ UNCHANGED <<flock, files, kills>>
        BY <1>1 DEF OpenLock, Unused
    <2> DEFINE new == [Idle EXCEPT !.pc = "lock", !.op = op, !.value = v, !.key = k,
                                   !.inode = i]
    <2>2. new \in Processes /\ new.op = op /\ new.key = k /\ new.value = v /\ new.pc = "lock"
        BY RingsEmpty DEF Idle, Processes, Phases
    <2>3. proc' = [proc EXCEPT ![p] = new]
        BY <2>1
    <2> HIDE DEF new
    <2>4. proc' \in [Procs -> Processes]
        BY <2>2, <2>3
    <2>5. Requested'
        BY <1>1, <2>2, <2>3
    <2> QED BY <2>1, <2>4, <2>5
<1>2. CASE Start(p)
    <2>1. CASE StartRead(p)
        <3> DEFINE new == [Idle EXCEPT
                !.inode = lockPath, !.pc = IF lockPath = None THEN "assert" ELSE "lock"]
        <3>1. new \in Processes /\ new.op = "read" /\ new.pc \in {"assert", "lock"}
            BY RingsEmpty DEF Idle, Processes, Phases, Ops
        <3>2. proc' = [proc EXCEPT ![p] = new]
            BY <2>1 DEF StartRead
        <3> HIDE DEF new
        <3> QED BY <2>1, <3>1, <3>2 DEF StartRead
    <2> QED BY <1>1, <1>2, <2>1 DEF Start, StartWrite, StartAppend, StartPurge, Ops
<1>3. CASE Acquire(p)
    <2>1. PICK pc \in {"assert", "list", "own"} :
              /\ proc' = [proc EXCEPT ![p].pc = pc]
              /\ pc = "own" => proc[p].op \notin {"read", "purge"}
        BY <1>3 DEF Acquire
    <2>2. flock' \in [Inodes -> Procs \cup {Free}]
        BY <1>3 DEF Acquire
    <2>3. proc' \in [Procs -> Processes]
        BY <2>1 DEF Processes, Phases
    <2>4. Requested'
        BY <2>1 DEF Processes, Ops
    <2> QED BY <1>3, <2>2, <2>3, <2>4 DEF Acquire
<1>4. CASE Release(p)
    BY <1>4, IdleTyped, <1>i DEF Release
<1>5. CASE EnsureOwned(p)
    BY <1>5 DEF EnsureOwned, Owned, Processes, Phases, Ops
<1>6. CASE MarkTemp(p)
    BY <1>6 DEF MarkTemp, CreateTemp, Processes, Phases
<1>7. CASE MarkReplace(p)
    BY <1>7 DEF MarkReplace, Owned, Processes, Phases, Ops
<1>8. CASE LoadRing(p)
    <2>1. Newest(Append(ring, proc[p].key)) \in Rings
        BY <1>8, RingStep DEF LoadRing
    <2>2. PICK pc \in {"unlock", "temp"}, got \in Rings :
              proc' = [proc EXCEPT ![p].pc = pc, ![p].got = got]
        <3>1. proc[p].got \in Rings
            BY DEF Processes
        <3> QED BY <1>8, <2>1, <3>1 DEF LoadRing
    <2>3. proc' \in [Procs -> Processes]
        <3> DEFINE new == [proc[p] EXCEPT !.pc = pc, !.got = got]
        <3>1. new \in Processes
            BY ZenonT(60) DEF Processes, Phases
        <3>2. proc' = [proc EXCEPT ![p] = new]
            BY <2>2
        <3> QED BY <3>1, <3>2
    <2>4. Requested'
        BY <1>8, <2>2 DEF LoadRing, Processes
    <2> QED BY <1>8, <2>3, <2>4 DEF LoadRing
<1>9. CASE WriteTemp(p)
    BY <1>9 DEF WriteTemp, CreateTemp, Processes, Phases
<1>10. CASE Replace(p)
    BY <1>10 DEF Replace, Processes, Phases
<1>11. CASE AssertOwner(p) \/ Fetch(p)
    BY <1>11 DEF AssertOwner, Fetch, Processes, Phases
<1>12. CASE List(p)
    <2>1. PICK pc \in {"unlink", "remove", "unlock"}, todo \in SUBSET Entries :
              proc' = [proc EXCEPT ![p].pc = pc, ![p].todo = todo]
        <3>1. Present \in SUBSET Entries /\ {} \in SUBSET Entries
            BY DEF Present
        <3> QED BY <1>12, <3>1 DEF List
    <2>2. proc' \in [Procs -> Processes]
        <3> DEFINE new == [proc[p] EXCEPT !.pc = pc, !.todo = todo]
        <3>1. new \in Processes
            BY ZenonT(60) DEF Processes, Phases
        <3>2. proc' = [proc EXCEPT ![p] = new]
            BY <2>1
        <3> QED BY <3>1, <3>2
    <2>3. Requested'
        BY <2>1 DEF Processes
    <2> QED BY <1>12, <2>2, <2>3 DEF List
<1>13. ASSUME NEW e \in Entries, Remove(p, e) PROVE Typed'
    BY <1>13, RingsEmpty DEF Remove, Processes
<1>14. CASE RemoveDirectory(p)
    BY <1>14 DEF RemoveDirectory, Processes, Phases
<1>15. CASE FreeLock(p)
    <2>1. flock' \in [Inodes -> Procs \cup {Free}]
        BY <1>15 DEF FreeLock
    <2>2. proc' \in [Procs -> Processes]
        BY <1>15 DEF FreeLock, Processes
    <2>3. Requested'
        BY <1>15 DEF FreeLock, Processes
    <2> QED BY <1>15, <2>1, <2>2, <2>3 DEF FreeLock
<1>16. CASE UnlinkLock(p)
    BY <1>16, IdleTyped, <1>i DEF UnlinkLock
<1>17. CASE Kill(p)
    BY <1>17, IdleTyped, <1>i, StoreAssumption DEF Kill
<1> QED
    BY <1>2, <1>3, <1>4, <1>5, <1>6, <1>7, <1>8, <1>9, <1>10, <1>11, <1>12, <1>13,
       <1>14, <1>15, <1>16, <1>17 DEF Advance

LEMMA TypedAlways == Spec => []Typed
    BY TypedInit, TypedStep, PTL DEF Spec

\* Every reachable state of the store is well-typed: the ring never holds
\* more than Retention events, whoever is killed where (append_event, purge).
THEOREM StoreTypes == Spec => []TypeOK
<1>1. Typed => TypeOK
    BY DEF Typed
<1> QED BY <1>1, TypedAlways, PTL

-----------------------------------------------------------------------------
(* Exclusion, unless the operator purges at any time.                      *)

Writing == {"own", "mark", "marked", "load", "temp", "replace"}
Purgings == {"lock", "list", "remove", "unlock", "unlink"}

\* Who purges is alone, and whoever has the lock file open has the one there is.
Excluded ==
    \A p \in Procs :
        /\ At(p, "idle") => proc[p].op = "read" /\ proc[p].inode = None
        /\ proc[p].op = "purge" => /\ Purging = "alone" /\ proc[p].pc \in Purgings
                                   /\ \A q \in Procs : q # p => At(q, "idle")
                                   /\ proc[p].inode = None => At(p, "unlink")
        /\ proc[p].op # "purge" =>
               proc[p].pc \in {"idle", "lock", "assert", "fetch", "unlock"} \cup Writing
        /\ proc[p].inode # None => proc[p].inode = lockPath
        /\ proc[p].pc \in {"lock"} \cup Writing => proc[p].inode # None
        /\ Inside(p) => flock[lockPath] = p

LEMMA ExcludedStep ==
    ASSUME Purging # "anytime", Typed, Excluded, [Next]_vars PROVE Excluded'
<1> USE DEF Typed, TypeOK, Requested, Excluded, Inside, At, Goto, files, Writing, Purgings
<1>0. CASE UNCHANGED vars
    BY <1>0 DEF vars
<1> SUFFICES ASSUME NEW p \in Procs, (Undisturbed /\ Start(p)) \/ Advance(p) \/ Kill(p)
             PROVE  Excluded'
    BY <1>0 DEF Next
<1>1. ASSUME NEW op \in {"write", "append", "purge"}, NEW v, NEW k, OpenLock(p, op, v, k),
             \A q \in Procs : proc[q].op # "purge",
             op = "purge" => Purging = "alone" /\ \A q \in Procs : At(q, "idle")
      PROVE Excluded'
    <2>1. PICK i \in Inodes :
            /\ lockPath' = i /\ (lockPath = None \/ lockPath = i) /\ UNCHANGED flock
            /\ proc' = [proc EXCEPT ![p] = [Idle EXCEPT !.pc = "lock", !.op = op,
                                     !.value = v, !.key = k, !.inode = i]]
        <3>1. PICK i \in IF lockPath = None THEN Unused ELSE {lockPath} :
                /\ lockPath' = i /\ UNCHANGED flock
                /\ proc' = [proc EXCEPT ![p] = [Idle EXCEPT !.pc = "lock", !.op = op,
                                         !.value = v, !.key = k, !.inode = i]]
            BY <1>1 DEF OpenLock
        <3>2. i \in Inodes /\ (lockPath = None \/ lockPath = i)
            BY DEF Unused
        <3> QED BY <3>1, <3>2
    <2> DEFINE new == [Idle EXCEPT !.pc = "lock", !.op = op, !.value = v, !.key = k,
                                   !.inode = i]
    <2>2. new.op = op /\ new.pc = "lock" /\ new.inode = i
        BY DEF Idle
    <2>3. proc' = [proc EXCEPT ![p] = new] /\ i # None
        BY <2>1, StoreAssumption
    <2> HIDE DEF new
    <2> QED BY <1>1, <2>1, <2>2, <2>3
<1>2. CASE Undisturbed /\ Start(p)
    <2>1. At(p, "idle")
        BY <1>2 DEF Start, StartWrite, StartAppend, StartRead, StartPurge
    <2>2. \A q \in Procs : proc[q].op # "purge"
        <3>1. Purging \in {"never", "alone"}
            BY StoreAssumption
        <3>2. \A q \in Procs : ~(proc[q].op = "purge" /\ ~At(q, "idle"))
            BY <1>2, <2>1, <3>1 DEF Undisturbed, Purges
        <3> QED BY <3>2
    <2>3. CASE StartRead(p)
        <3> DEFINE new == [Idle EXCEPT
                !.inode = lockPath, !.pc = IF lockPath = None THEN "assert" ELSE "lock"]
        <3>1. /\ new.op = "read" /\ new.inode = lockPath
              /\ new.pc = IF lockPath = None THEN "assert" ELSE "lock"
            BY DEF Idle
        <3>2. proc' = [proc EXCEPT ![p] = new] /\ UNCHANGED <<lockPath, flock>>
            BY <2>3 DEF StartRead
        <3> HIDE DEF new
        <3> QED BY <2>2, <3>1, <3>2
    <2>4. CASE StartPurge(p)
        <3>1. Purging = "alone" /\ \A q \in Procs : At(q, "idle")
            BY <2>4, StoreAssumption DEF StartPurge
        <3> QED BY <1>1, <2>2, <2>4, <3>1 DEF StartPurge
    <2> QED BY <1>1, <1>2, <2>2, <2>3, <2>4 DEF Start, StartWrite, StartAppend
<1>3. CASE Acquire(p)
    <2>1. PICK pc \in {"assert", "list", "own"} :
            /\ proc' = [proc EXCEPT ![p].pc = pc]
            /\ pc = "list" <=> proc[p].op = "purge"
        BY <1>3 DEF Acquire
    <2>2. flock' = [flock EXCEPT ![proc[p].inode] = p] /\ UNCHANGED lockPath
          /\ flock[proc[p].inode] = Free /\ proc[p].pc = "lock"
        BY <1>3 DEF Acquire, Locked
    <2>3. proc[p].inode = lockPath /\ proc[p].inode # None /\ proc[p].inode \in Inodes
        BY <2>2 DEF Processes
    <2>4. \A q \in Procs : ~Inside(q)
        BY <2>2, <2>3, StoreAssumption
    <2> QED BY <2>1, <2>2, <2>3, <2>4 DEF Processes
<1>4. CASE Release(p)
    BY <1>4 DEF Release, Idle, Processes
<1>5. CASE EnsureOwned(p)
    BY <1>5 DEF EnsureOwned, Owned, Processes
<1>6. CASE MarkTemp(p) \/ WriteTemp(p)
    BY <1>6 DEF MarkTemp, WriteTemp, CreateTemp, Processes
<1>7. CASE MarkReplace(p)
    BY <1>7 DEF MarkReplace, Owned, Processes
<1>8. CASE LoadRing(p)
    BY <1>8 DEF LoadRing, Processes
<1>9. CASE Replace(p)
    BY <1>9 DEF Replace, Processes
<1>10. CASE AssertOwner(p) \/ Fetch(p)
    BY <1>10 DEF AssertOwner, Fetch, Processes
<1>11. ASSUME At(p, "list") \/ At(p, "remove") \/ At(p, "unlink")
       PROVE  proc[p].op = "purge" /\ \A q \in Procs : q # p => At(q, "idle")
    BY <1>11
<1>12. CASE List(p) \/ RemoveDirectory(p)
    <2>1. PICK pc \in Purgings : \E todo :
            /\ proc' = [proc EXCEPT ![p].pc = pc, ![p].todo = todo]
            /\ pc # "lock" /\ UNCHANGED <<lockPath, flock>>
            /\ (At(p, "list") \/ At(p, "remove"))
        <3>1. CASE List(p)
            BY <3>1 DEF List
        <3>2. CASE RemoveDirectory(p)
            <4>1. proc[p] = [proc[p] EXCEPT !.todo = proc[p].todo]
                BY DEF Processes
            <4>2. PICK pc \in {"unlink", "unlock"} : proc' = [proc EXCEPT ![p].pc = pc]
                BY <3>2 DEF RemoveDirectory
            <4>3. proc' = [proc EXCEPT ![p].pc = pc, ![p].todo = proc[p].todo]
                BY <4>1, <4>2
            <4> QED BY ZenonT(60), <3>2, <4>3 DEF RemoveDirectory
        <3> QED BY <1>12, <3>1, <3>2
    <2> QED BY <1>11, <2>1 DEF Processes
<1>13. CASE FreeLock(p)
    BY <1>11, <1>13 DEF FreeLock, Processes
<1>14. CASE UnlinkLock(p)
    BY <1>11, <1>14 DEF UnlinkLock, Idle, Processes
<1>15. ASSUME NEW e \in Entries, Remove(p, e) PROVE Excluded'
    BY <1>11, <1>15 DEF Remove, Processes
<1>16. CASE Kill(p)
    BY <1>16 DEF Kill, Idle, Processes
<1> QED
    BY <1>2, <1>3, <1>4, <1>5, <1>6, <1>7, <1>8, <1>9, <1>10, <1>12, <1>13, <1>14, <1>15,
       <1>16 DEF Advance

LEMMA ExcludedAlways == ASSUME Purging # "anytime" PROVE Spec => []Excluded
<1>1. Init => Excluded
    BY StoreAssumption DEF Init, Excluded, Idle, Inside, Writing, At
<1>2. Typed /\ Excluded /\ [Next]_vars => Excluded'
    BY ExcludedStep
<1> QED BY <1>1, <1>2, TypedAlways, PTL DEF Spec

\* Any number of processes, killed anywhere, are never two inside the process lock
\* (_process_lock over flock), when the operator purges while no hook runs, or never.
THEOREM ExclusionTheorem == ASSUME Purging # "anytime" PROVE Spec => []MutualExclusion
<1>1. Excluded => MutualExclusion
    BY StoreAssumption DEF Excluded, MutualExclusion, Inside
<1> QED BY <1>1, ExcludedAlways, PTL

-----------------------------------------------------------------------------
(* Refinement of the atomic store.                                         *)

\* What an append computed is still what the ring asks for.
Current ==
    \A p \in Procs :
        proc[p].pc \in {"temp", "replace"} /\ proc[p].op = "append" =>
            /\ ~Holds(ring, proc[p].key)
            /\ proc[p].got = Newest(Append(ring, proc[p].key))

\* Only the replacing step of the process inside changes what is stored, or a purge.
LEMMA StoreStep ==
    ASSUME [Next]_vars
    PROVE  \/ UNCHANGED <<current, ring>>
           \/ \E p \in Procs : Replace(p) \/ \E e \in Entries : Remove(p, e)
<1> USE DEF files
<1>0. CASE UNCHANGED vars
    BY <1>0 DEF vars
<1> SUFFICES ASSUME NEW p \in Procs, Start(p) \/ Advance(p) \/ Kill(p), ~Replace(p),
                    ~\E e \in Entries : Remove(p, e)
             PROVE  UNCHANGED <<current, ring>>
    BY <1>0 DEF Next
<1> QED
    BY DEF Start, StartWrite, StartAppend, StartRead, StartPurge, OpenLock, Advance, Acquire,
        Release, EnsureOwned, MarkTemp, MarkReplace, LoadRing, WriteTemp, CreateTemp,
        AssertOwner, Fetch, List, RemoveDirectory, FreeLock, UnlinkLock, Kill

LEMMA CurrentStep ==
    ASSUME Purging # "anytime", Typed, Excluded, Current, [Next]_vars PROVE Current'
<1> USE DEF Typed, TypeOK, Requested, Current, At, Goto, files
<1>0. CASE UNCHANGED vars
    BY <1>0 DEF vars
<1> SUFFICES ASSUME NEW p \in Procs, Start(p) \/ Advance(p) \/ Kill(p) PROVE Current'
    BY <1>0 DEF Next
<1>1. ASSUME NEW op, NEW v, NEW k, OpenLock(p, op, v, k) PROVE Current'
    BY <1>1 DEF OpenLock, Idle, Processes
<1>2. CASE Start(p)
    <2>1. CASE StartRead(p)
        BY <2>1 DEF StartRead, Idle, Processes
    <2>2. (\E op, v, k : OpenLock(p, op, v, k)) \/ StartRead(p)
        BY <1>2 DEF Start, StartWrite, StartAppend, StartPurge
    <2> QED BY <1>1, <2>1, <2>2
<1>3. CASE Acquire(p)
    BY <1>3 DEF Acquire, Processes
<1>4. CASE Release(p)
    BY <1>4 DEF Release, Idle, Processes
<1>5. CASE EnsureOwned(p)
    BY <1>5 DEF EnsureOwned, Owned, Processes
<1>6. CASE MarkTemp(p) \/ WriteTemp(p)
    BY <1>6 DEF MarkTemp, WriteTemp, CreateTemp, Processes
<1>7. CASE MarkReplace(p)
    BY <1>7 DEF MarkReplace, Owned, Processes
<1>8. CASE LoadRing(p)
    BY <1>8 DEF LoadRing, Processes
<1>9. CASE Replace(p)
    <2>1. proc' = [proc EXCEPT ![p].pc = "unlock"]
        BY <1>9 DEF Replace
    <2> SUFFICES ASSUME NEW q \in Procs, q # p, proc[q].pc \in {"temp", "replace"}
                 PROVE FALSE
        BY <2>1 DEF Processes
    <2>2. Inside(p) /\ Inside(q)
        BY <1>9 DEF Replace, Excluded, Inside, Writing
    <2> QED BY <2>2 DEF Excluded
<1>10. CASE AssertOwner(p) \/ Fetch(p)
    BY <1>10 DEF AssertOwner, Fetch, Processes
<1>11. CASE List(p) \/ RemoveDirectory(p) \/ FreeLock(p) \/ UnlinkLock(p)
    <2>1. /\ UNCHANGED ring
          /\ \A q \in Procs : q # p => proc'[q] = proc[q]
          /\ proc'[p].pc \notin {"temp", "replace"}
        BY <1>11 DEF List, RemoveDirectory, FreeLock, UnlinkLock, Idle, Processes
    <2> QED BY <2>1
<1>12. ASSUME NEW e \in Entries, Remove(p, e) PROVE Current'
    <2>1. \A q \in Procs : proc[q].pc \notin {"temp", "replace"}
        BY <1>12 DEF Remove, Excluded, Writing
    <2>2. \A q \in Procs : proc'[q].pc = proc[q].pc
        BY <1>12 DEF Remove, Processes
    <2> QED BY <2>1, <2>2
<1>13. CASE Kill(p)
    BY <1>13 DEF Kill, Idle, Processes
<1> QED
    BY <1>2, <1>3, <1>4, <1>5, <1>6, <1>7, <1>8, <1>9, <1>10, <1>11, <1>12, <1>13 DEF Advance

LEMMA ReplaceRefines ==
    ASSUME Typed, Current, NEW p \in Procs, Replace(p)
    PROVE  [Atomic!Next]_<<current, ring>>
<1> USE DEF Typed, TypeOK, Requested, At
<1>1. CASE p \in temps /\ proc[p].op = "write"
    BY <1>1 DEF Replace, Atomic!Next, Atomic!Write
<1>2. CASE p \in temps /\ proc[p].op = "append"
    <2>1. ring' = Newest(Append(ring, proc[p].key)) /\ current' = current
        BY <1>2 DEF Replace, Current
    <2>2. ~Holds(ring, proc[p].key) /\ proc[p].key \in Keys
        BY <1>2 DEF Replace, Current
    <2>3. Atomic!Append1(proc[p].key)
        BY <2>1, <2>2 DEF Atomic!Append1, Atomic!Newest, Atomic!Holds, Newest, Holds
    <2> QED BY <2>2, <2>3 DEF Atomic!Next
<1>3. CASE ~(p \in temps /\ proc[p].op \in {"write", "append"})
    BY <1>3 DEF Replace
<1> QED BY <1>1, <1>2, <1>3

LEMMA RemoveRefines ==
    ASSUME Excluded, NEW p \in Procs, NEW e \in Entries, Remove(p, e)
    PROVE  [Atomic!Next]_<<current, ring>>
<1>1. Purging # "never"
    BY DEF Excluded, Remove, At, Writing
<1>2. CASE e = "current"
    BY <1>1, <1>2 DEF Remove, Atomic!Next, Atomic!Dispose
<1>3. CASE e = "events"
    BY <1>1, <1>3 DEF Remove, Atomic!Next, Atomic!Dispose
<1>4. CASE e \notin {"current", "events"}
    BY <1>4 DEF Remove
<1> QED BY <1>2, <1>3, <1>4

\* write_current and append_event are atomic to each other and to kills, unless the
\* operator purges beside running hooks: whatever processes do at once, the state
\* and the ring only change as if each whole operation were one step, and a purge
\* disposes of one of them at a time.
THEOREM RefinementTheorem == ASSUME Purging # "anytime" PROVE Spec => Implements
<1>1. Init => Atomic!Init
    BY DEF Init, Atomic!Init
<1>2. Init => Current
    BY DEF Init, Current, Idle
<1>3. Typed /\ Excluded /\ Current /\ [Next]_vars => Current'
    BY CurrentStep
<1>4. Typed /\ Excluded /\ Current /\ [Next]_vars => [Atomic!Next]_<<current, ring>>
    BY StoreStep, ReplaceRefines, RemoveRefines
<1> QED
    BY <1>1, <1>2, <1>3, <1>4, TypedAlways, ExcludedAlways, PTL
    DEF Spec, Implements, Atomic!Spec

-----------------------------------------------------------------------------
(* State and marker.                                                       *)

Listed(p) ==
    /\ current # None => "current" \in proc[p].todo
    /\ ring # <<>> => "events" \in proc[p].todo

StateMarked == (current # None \/ ring # <<>>) => marker

\* Whoever is past the marker has one, a purge still has to remove all that is
\* stored, and but for a purge at work what is stored is marked.
Marked ==
    /\ \A p \in Procs : proc[p].pc \in {"load", "temp", "replace"} => marker
    /\ \A p \in Procs : At(p, "remove") => Listed(p)
    /\ (\A p \in Procs : ~At(p, "remove")) => StateMarked

LEMMA MarkedStep ==
    ASSUME Purging # "anytime", "purge" \notin Killable, Typed, Excluded, Marked, [Next]_vars
    PROVE  Marked'
<1> USE DEF Typed, TypeOK, Goto, files
<1>0. CASE UNCHANGED vars
    BY <1>0 DEF vars, Marked, Listed, StateMarked, At
<1> SUFFICES ASSUME NEW p \in Procs, Start(p) \/ Advance(p) \/ Kill(p) PROVE Marked'
    BY <1>0 DEF Next
<1>1. \A q \in Procs : At(q, "list") \/ At(q, "remove") =>
          proc[q].op = "purge" /\ \A r \in Procs : r # q => At(r, "idle")
    BY DEF Excluded, At, Writing
\* A step that leaves the files: p stays out of the removing, and past the marker
\* only with one.
<1>2. ASSUME UNCHANGED <<marker, current, ring>>, ~At(p, "remove"),
             \A q \in Procs : q # p => proc'[q] = proc[q],
             proc'[p].pc # "remove",
             proc'[p].pc \in {"load", "temp", "replace"} => marker
      PROVE  Marked'
    BY <1>2 DEF Marked, Listed, StateMarked, At
<1>3. CASE Start(p)
    <2>1. PICK new : /\ proc' = [proc EXCEPT ![p] = new] /\ new.pc \in {"lock", "assert"}
                     /\ At(p, "idle") /\ UNCHANGED files
        <3>1. ASSUME NEW op, NEW v, NEW k, OpenLock(p, op, v, k)
              PROVE  \E new : proc' = [proc EXCEPT ![p] = new] /\ new.pc = "lock"
            <4>1. PICK i : proc' = [proc EXCEPT ![p] = [Idle EXCEPT !.pc = "lock", !.op = op,
                                                !.value = v, !.key = k, !.inode = i]]
                BY <3>1 DEF OpenLock
            <4> DEFINE new == [Idle EXCEPT !.pc = "lock", !.op = op, !.value = v, !.key = k,
                                           !.inode = i]
            <4>2. proc' = [proc EXCEPT ![p] = new] /\ new.pc = "lock"
                BY <4>1 DEF Idle
            <4> QED BY <4>2
        <3>2. CASE StartRead(p)
            <4> DEFINE new == [Idle EXCEPT
                    !.inode = lockPath, !.pc = IF lockPath = None THEN "assert" ELSE "lock"]
            <4>1. new.pc \in {"lock", "assert"} /\ proc' = [proc EXCEPT ![p] = new]
                BY <3>2 DEF StartRead, Idle
            <4> QED BY <3>2, <4>1 DEF StartRead
        <3> QED BY <1>3, <3>1, <3>2
                DEF Start, StartWrite, StartAppend, StartPurge, OpenLock
    <2> QED BY <1>2, <2>1 DEF At
<1>4. CASE Acquire(p)
    BY <1>2, <1>4 DEF Acquire, At, Processes
<1>5. CASE Release(p)
    BY <1>2, <1>5 DEF Release, At, Idle, Processes
<1>6. CASE EnsureOwned(p)
    BY <1>2, <1>6 DEF EnsureOwned, Owned, At, Processes
<1>7. CASE MarkTemp(p)
    BY <1>2, <1>7 DEF MarkTemp, CreateTemp, At, Processes
<1>8. CASE MarkReplace(p)
    <2>1. /\ UNCHANGED <<current, ring>> /\ (marker => marker')
          /\ \A q \in Procs : q # p => proc'[q] = proc[q]
          /\ ~At(p, "remove") /\ proc'[p].pc # "remove"
          /\ proc'[p].pc \in {"load", "temp", "replace"} => marker'
        BY <1>8 DEF MarkReplace, Owned, At, Processes
    <2> QED BY <2>1 DEF Marked, Listed, StateMarked, At
<1>9. CASE LoadRing(p)
    <2>1. marker /\ ~At(p, "remove")
        BY <1>9 DEF LoadRing, Marked, At
    <2> QED BY <1>2, <1>9, <2>1 DEF LoadRing, At, Processes
<1>10. CASE WriteTemp(p)
    <2>1. marker /\ ~At(p, "remove")
        BY <1>10 DEF WriteTemp, Marked, At
    <2> QED BY <1>2, <1>10, <2>1 DEF WriteTemp, CreateTemp, At, Processes
<1>11. CASE Replace(p)
    <2>1. /\ marker /\ marker' /\ proc'[p].pc = "unlock"
          /\ \A q \in Procs : q # p => proc'[q] = proc[q]
        BY <1>11 DEF Replace, Marked, At, Processes
    <2>2. \A q \in Procs : ~At(q, "remove")
        BY <1>1, <1>11 DEF Replace, At
    <2> QED BY <2>1, <2>2 DEF Marked, Listed, StateMarked, At
<1>12. CASE AssertOwner(p) \/ Fetch(p)
    BY <1>2, <1>12 DEF AssertOwner, Fetch, At, Processes
<1>13. CASE List(p)
    <2>1. /\ At(p, "list") /\ UNCHANGED files
          /\ \A q \in Procs : q # p => At(q, "idle") /\ proc'[q] = proc[q]
          /\ proc'[p].pc \in {"unlink", "remove", "unlock"}
          /\ proc'[p].pc = "remove" => proc'[p].todo = Present
        BY <1>1, <1>13 DEF List, Processes
    <2>2. StateMarked
        BY <2>1 DEF Marked, At
    <2>3. /\ current # None => "current" \in Present
          /\ ring # <<>> => "events" \in Present
        BY DEF Present, Entries
    <2> QED BY <2>1, <2>2, <2>3 DEF Marked, Listed, StateMarked, At
<1>14. ASSUME NEW e \in Entries, Remove(p, e) PROVE Marked'
    <2>1. /\ \A q \in Procs : q # p => At(q, "idle") /\ proc'[q] = proc[q]
          /\ proc'[p].pc = "remove" /\ proc'[p].todo = proc[p].todo \ {e}
          /\ current' = (IF e = "current" THEN None ELSE current)
          /\ ring' = (IF e = "events" THEN <<>> ELSE ring)
        BY <1>1, <1>14 DEF Remove, At, Processes
    <2>2. Listed(p)
        BY <1>14 DEF Remove, Marked
    <2> QED BY <2>1, <2>2 DEF Marked, Listed, At
<1>15. CASE RemoveDirectory(p)
    <2>1. /\ \A q \in Procs : q # p => At(q, "idle") /\ proc'[q] = proc[q]
          /\ proc'[p].pc \in {"unlink", "unlock"}
          /\ UNCHANGED <<marker, current, ring>>
        BY <1>1, <1>15 DEF RemoveDirectory, Processes
    <2>2. current = None /\ ring = <<>>
        BY <1>15 DEF RemoveDirectory, Marked, Listed
    <2> QED BY <2>1, <2>2 DEF Marked, Listed, StateMarked, At
<1>16. CASE FreeLock(p)
    BY <1>2, <1>16 DEF FreeLock, At, Processes
<1>17. CASE UnlinkLock(p)
    BY <1>2, <1>17 DEF UnlinkLock, At, Idle, Processes
<1>18. CASE Kill(p)
    <2>1. ~At(p, "remove")
        BY <1>1, <1>18 DEF Kill
    <2> QED BY <1>2, <1>18, <2>1 DEF Kill, Idle, At, Processes
<1> QED
    BY <1>3, <1>4, <1>5, <1>6, <1>7, <1>8, <1>9, <1>10, <1>11, <1>12, <1>13, <1>14, <1>15,
       <1>16, <1>17, <1>18 DEF Advance

\* State is only ever left behind beside a valid marker (_ensure_owned, purge), if
\* the operator purges while no hook runs and the purge is not killed; hooks
\* may be killed anywhere.
THEOREM MarkedTheorem ==
    ASSUME Purging # "anytime", "purge" \notin Killable
    PROVE  Spec => []OnlyMarkedState
<1>1. Init => Marked
    BY DEF Init, Marked, Listed, StateMarked, Idle, At
<1>2. Typed /\ Excluded /\ Marked /\ [Next]_vars => Marked'
    BY MarkedStep
<1>3. Excluded /\ Marked => OnlyMarkedState
    <2> SUFFICES ASSUME Excluded, Marked, \A p \in Procs : ~Purges(p)
                 PROVE  StateMarked
        BY DEF OnlyMarkedState, StateMarked
    <2>1. \A p \in Procs : ~At(p, "remove")
        BY DEF Excluded, Purges, At, Writing
    <2> QED BY <2>1 DEF Marked
<1> QED BY <1>1, <1>2, <1>3, TypedAlways, ExcludedAlways, PTL DEF Spec
=============================================================================
