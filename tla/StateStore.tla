------------------------------ MODULE StateStore ------------------------------
(***************************************************************************)
(* StateStore of context_compaction/storage.py, as several processes use   *)
(* it: the process lock, the ownership marker, atomic replacement, the     *)
(* event ring and purge.                                                   *)
(*                                                                         *)
(* The lock is flock on a file beside the state directory.  flock locks    *)
(* the inode a process has opened, and purge unlinks the file, so the path *)
(* and the inodes are modelled apart.  One action is one system call that  *)
(* another process can notice; a process that holds the lock can be killed *)
(* between any two of them, and the kernel then frees its lock.            *)
(***************************************************************************)
EXTENDS Integers, Sequences, FiniteSets

CONSTANTS
    Procs,
    Values,         \* states that may be written
    Keys,           \* dedupe keys of events
    None,
    Retention,      \* events kept (200 in the code)
    Inodes,         \* inodes of lock files
    Free,
    Purging,        \* may the operator run purge-state?  "never", "alone"
                    \* (while no hook runs) or "anytime"
    Killable,       \* operations whose process may be killed
    MaxKills        \* bound: killed processes

ASSUME StoreAssumption ==
    /\ Retention \in Nat \ {0}
    /\ MaxKills \in Nat
    /\ Purging \in {"never", "alone", "anytime"}
    /\ Killable \subseteq {"write", "append", "read", "purge"}
    /\ None \notin Values \cup Inodes
    /\ Free \notin Procs

VARIABLES
    lockPath,   \* the inode the lock path names, or None
    flock,      \* flock[i]: the process that holds the lock of inode i
    dir,        \* does the state directory exist?
    marker,     \* owner.json
    current,    \* current.json
    ring,       \* events.json; empty when there is no file
    temps,      \* processes with a temporary file in the directory
    litter,     \* is there a temporary file of a killed process?
    proc,       \* the processes
    kills

vars == <<lockPath, flock, dir, marker, current, ring, temps, litter, proc, kills>>
files == <<dir, marker, current, ring, temps, litter>>

Ops == {"write", "append", "read", "purge"}
Phases == {"idle", "lock", "own", "mark", "marked", "load", "temp", "replace",
           "assert", "fetch", "list", "remove", "rmdir", "unlock", "unlink"}
Entries == {"owner", "current", "events", "temp"}
Rings == UNION {[1..n -> Keys] : n \in 0..Retention}

Idle == [pc |-> "idle", op |-> "read", value |-> None, key |-> None, inode |-> None,
         got |-> <<>>, todo |-> {}]

Processes ==
    [pc : Phases, op : Ops, value : Values \cup {None}, key : Keys \cup {None},
     inode : Inodes \cup {None}, got : Rings, todo : SUBSET Entries]

TypeOK ==
    /\ lockPath \in Inodes \cup {None}
    /\ flock \in [Inodes -> Procs \cup {Free}]
    /\ dir \in BOOLEAN /\ marker \in BOOLEAN /\ litter \in BOOLEAN
    /\ current \in Values \cup {None}
    /\ ring \in Rings
    /\ temps \subseteq Procs
    /\ proc \in [Procs -> Processes]
    /\ kills \in 0..MaxKills

Init ==
    /\ lockPath = None
    /\ flock = [i \in Inodes |-> Free]
    /\ dir = FALSE /\ marker = FALSE /\ current = None /\ ring = <<>>
    /\ temps = {} /\ litter = FALSE
    /\ proc = [p \in Procs |-> Idle]
    /\ kills = 0

-----------------------------------------------------------------------------

At(p, pc) == proc[p].pc = pc
Goto(p, pc) == proc' = [proc EXCEPT ![p].pc = pc]

Present ==
    {e \in Entries : \/ e = "owner" /\ marker
                     \/ e = "current" /\ current # None
                     \/ e = "events" /\ ring # <<>>
                     \/ e = "temp" /\ (temps # {} \/ litter)}

Unused == {i \in Inodes : i # lockPath /\ \A p \in Procs : proc[p].inode # i}

(* _process_lock: open the lock file, creating it, then flock.             *)

OpenLock(p, op, v, k) ==
    \E i \in IF lockPath = None THEN Unused ELSE {lockPath} :
        /\ lockPath' = i
        /\ proc' = [proc EXCEPT ![p] = [Idle EXCEPT !.pc = "lock", !.op = op,
                                            !.value = v, !.key = k, !.inode = i]]
        /\ UNCHANGED <<flock, files, kills>>

StartWrite(p, v) == At(p, "idle") /\ OpenLock(p, "write", v, None)
StartAppend(p, k) == At(p, "idle") /\ OpenLock(p, "append", None, k)
StartPurge(p) ==
    /\ Purging # "never"
    /\ Purging = "alone" => \A q \in Procs : At(q, "idle")
    /\ At(p, "idle") /\ OpenLock(p, "purge", None, None)

\* A reader finds no directory, or reads without a lock when there is no
\* lock file: its no-mutation contract.
StartRead(p) ==
    /\ At(p, "idle") /\ dir
    /\ proc' = [proc EXCEPT ![p] = [Idle EXCEPT
           !.inode = lockPath, !.pc = IF lockPath = None THEN "assert" ELSE "lock"]]
    /\ UNCHANGED <<lockPath, flock, files, kills>>

\* Faulty variant: the lock is shared.
LockedShared(p) == TRUE

Locked(p) == flock[proc[p].inode] = Free

Acquire(p) ==
    /\ At(p, "lock") /\ Locked(p)
    /\ flock' = [flock EXCEPT ![proc[p].inode] = p]
    /\ Goto(p, CASE proc[p].op = "read" -> "assert"
                 [] proc[p].op = "purge" -> "list"
                 [] OTHER -> "own")
    /\ UNCHANGED <<lockPath, files, kills>>

\* Leaving the with-block: the lock is freed and the file closed.
Release(p) ==
    /\ At(p, "unlock")
    /\ flock' = [i \in Inodes |-> IF flock[i] = p THEN Free ELSE flock[i]]
    /\ proc' = [proc EXCEPT ![p] = Idle]
    /\ UNCHANGED <<lockPath, files, kills>>

-----------------------------------------------------------------------------
(* _ensure_owned and _atomic_write.                                        *)

\* The first step after the marker: append_event reads the ring.
Owned(p) == IF proc[p].op = "append" THEN "load" ELSE "temp"

\* Faulty variant: the marker is left to a later write.
EnsureOwnedLater(p) ==
    /\ At(p, "own")
    /\ dir' = TRUE
    /\ Goto(p, Owned(p))
    /\ UNCHANGED <<lockPath, flock, marker, current, ring, temps, litter, kills>>

EnsureOwned(p) ==
    /\ At(p, "own")
    /\ dir' = TRUE
    /\ Goto(p, IF marker THEN Owned(p) ELSE IF Present = {} THEN "mark" ELSE "unlock")
    /\ UNCHANGED <<lockPath, flock, marker, current, ring, temps, litter, kills>>

\* A temporary file can be created while the directory is there, and it can
\* be moved into place while it is there itself.
CreateTemp(p, next) ==
    /\ IF dir THEN temps' = temps \cup {p} /\ Goto(p, next)
       ELSE temps' = temps /\ Goto(p, "unlock")
    /\ UNCHANGED <<lockPath, flock, dir, marker, current, ring, litter, kills>>

MarkTemp(p) == At(p, "mark") /\ CreateTemp(p, "marked")

MarkReplace(p) ==
    /\ At(p, "marked")
    /\ temps' = temps \ {p}
    /\ marker' = (marker \/ p \in temps)
    /\ Goto(p, IF p \in temps THEN Owned(p) ELSE "unlock")
    /\ UNCHANGED <<lockPath, flock, dir, current, ring, litter, kills>>

Holds(s, k) == \E i \in DOMAIN s : s[i] = k

Newest(s) == IF Len(s) <= Retention THEN s
             ELSE SubSeq(s, Len(s) - Retention + 1, Len(s))

\* Faulty variant: a key is appended whether it is known or not.
LoadUnchecked(p) ==
    /\ At(p, "load")
    /\ proc' = [proc EXCEPT ![p].pc = "temp", ![p].got = Newest(Append(ring, proc[p].key))]
    /\ UNCHANGED <<lockPath, flock, files, kills>>

\* A known key is not appended again.
LoadRing(p) ==
    LET k == proc[p].key IN
    /\ At(p, "load")
    /\ proc' = [proc EXCEPT
           ![p].pc = IF Holds(ring, k) THEN "unlock" ELSE "temp",
           ![p].got = IF Holds(ring, k) THEN @ ELSE Newest(Append(ring, k))]
    /\ UNCHANGED <<lockPath, flock, files, kills>>

WriteTemp(p) == At(p, "temp") /\ CreateTemp(p, "replace")

Replace(p) ==
    LET moved == p \in temps IN
    /\ At(p, "replace")
    /\ temps' = temps \ {p}
    /\ current' = IF moved /\ proc[p].op = "write" THEN proc[p].value ELSE current
    /\ ring' = IF moved /\ proc[p].op = "append" THEN proc[p].got ELSE ring
    /\ Goto(p, "unlock")
    /\ UNCHANGED <<lockPath, flock, dir, marker, litter, kills>>

-----------------------------------------------------------------------------
(* read_current, read_events.                                              *)

AssertOwner(p) ==
    /\ At(p, "assert")
    /\ Goto(p, IF marker THEN "fetch" ELSE "unlock")
    /\ UNCHANGED <<lockPath, flock, files, kills>>

Fetch(p) ==
    /\ At(p, "fetch")
    /\ Goto(p, "unlock")
    /\ UNCHANGED <<lockPath, flock, files, kills>>

-----------------------------------------------------------------------------
(* purge.                                                                  *)

List(p) ==
    /\ At(p, "list")
    /\ proc' = [proc EXCEPT
           ![p].pc = IF ~dir THEN "unlink" ELSE IF marker THEN "remove" ELSE "unlock",
           ![p].todo = IF dir /\ marker THEN Present ELSE {}]
    /\ UNCHANGED <<lockPath, flock, files, kills>>

\* The entries go in the order the directory lists them.
Remove(p, e) ==
    /\ At(p, "remove") /\ e \in proc[p].todo
    /\ proc' = [proc EXCEPT ![p].todo = @ \ {e}]
    /\ marker' = (marker /\ e # "owner")
    /\ current' = IF e = "current" THEN None ELSE current
    /\ ring' = IF e = "events" THEN <<>> ELSE ring
    /\ temps' = IF e = "temp" THEN {} ELSE temps
    /\ litter' = (litter /\ e # "temp")
    /\ UNCHANGED <<lockPath, flock, dir, kills>>

\* rmdir fails when there is an entry again, and the lock file stays.
RemoveDirectory(p) ==
    /\ At(p, "remove") /\ proc[p].todo = {}
    /\ dir' = (Present # {})
    /\ Goto(p, IF Present = {} THEN "unlink" ELSE "unlock")
    /\ UNCHANGED <<lockPath, flock, marker, current, ring, temps, litter, kills>>

\* The lock is freed first, then the path unlinked, whatever it names by now.
FreeLock(p) ==
    /\ At(p, "unlink") /\ proc[p].inode # None
    /\ flock' = [flock EXCEPT ![proc[p].inode] = Free]
    /\ proc' = [proc EXCEPT ![p].inode = None]
    /\ UNCHANGED <<lockPath, files, kills>>

UnlinkLock(p) ==
    /\ At(p, "unlink") /\ proc[p].inode = None
    /\ lockPath' = None
    /\ proc' = [proc EXCEPT ![p] = Idle]
    /\ UNCHANGED <<flock, files, kills>>

-----------------------------------------------------------------------------

Kill(p) ==
    /\ kills < MaxKills /\ kills' = kills + 1
    /\ ~At(p, "idle") /\ proc[p].op \in Killable
    /\ flock' = [i \in Inodes |-> IF flock[i] = p THEN Free ELSE flock[i]]
    /\ temps' = temps \ {p}
    /\ litter' = (litter \/ p \in temps)
    /\ proc' = [proc EXCEPT ![p] = Idle]
    /\ UNCHANGED <<lockPath, dir, marker, current, ring>>

Purges(p) == ~At(p, "idle") /\ proc[p].op = "purge"

\* The documented rollback removes the hooks before it purges.
Undisturbed == Purging = "alone" => \A p \in Procs : ~Purges(p)

Start(p) ==
    \/ \E v \in Values : StartWrite(p, v)
    \/ \E k \in Keys : StartAppend(p, k)
    \/ StartRead(p) \/ StartPurge(p)

Advance(p) ==
    \/ Acquire(p) \/ Release(p)
    \/ EnsureOwned(p) \/ MarkTemp(p) \/ MarkReplace(p)
    \/ LoadRing(p) \/ WriteTemp(p) \/ Replace(p)
    \/ AssertOwner(p) \/ Fetch(p)
    \/ List(p) \/ (\E e \in Entries : Remove(p, e)) \/ RemoveDirectory(p)
    \/ FreeLock(p) \/ UnlinkLock(p)

Next == \E p \in Procs : (Undisturbed /\ Start(p)) \/ Advance(p) \/ Kill(p)

Spec == Init /\ [][Next]_vars

-----------------------------------------------------------------------------
(* Properties.                                                             *)

Inside(p) == proc[p].inode # None /\ ~At(p, "lock") /\ ~At(p, "idle")

\* "Serialize independent hook processes": never two inside the lock.
MutualExclusion == \A p, q \in Procs : Inside(p) /\ Inside(q) => p = q

\* State is only ever left behind beside a valid marker: a directory that a
\* killed process left unmarked holds nothing to lose.  Only a purge at work
\* may have removed the marker before the state.
OnlyMarkedState ==
    (\A p \in Procs : ~Purges(p)) => (current # None \/ ring # <<>> => marker)

\* The store implements the atomic one: no event is lost or doubled by
\* processes that append at once, nor by one killed halfway, and what goes
\* goes with a purge.
Atomic == INSTANCE AtomicStore WITH current <- current, ring <- ring
Implements == Atomic!Spec
=============================================================================
