----------------------------- MODULE AtomicStore -----------------------------
(***************************************************************************)
(* What StateStore promises to a hook (context_compaction/storage.py): the *)
(* current state is replaced at once, and an event is appended at once to  *)
(* a ring that knows no duplicates and drops its oldest events.  A purge   *)
(* disposes of either at once.                                             *)
(***************************************************************************)
EXTENDS Integers, Sequences

CONSTANTS Values, Keys, None, Retention, Purging

VARIABLES current, ring

Newest(s) == IF Len(s) <= Retention THEN s
             ELSE SubSeq(s, Len(s) - Retention + 1, Len(s))

Holds(s, k) == \E i \in DOMAIN s : s[i] = k

Init == current = None /\ ring = <<>>

Write(v) == current' = v /\ UNCHANGED ring

Append1(k) ==
    /\ ~Holds(ring, k)
    /\ ring' = Newest(Append(ring, k))
    /\ UNCHANGED current

Dispose ==
    /\ Purging # "never"
    /\ \/ current' = None /\ UNCHANGED ring
       \/ ring' = <<>> /\ UNCHANGED current

Next == (\E v \in Values : Write(v)) \/ (\E k \in Keys : Append1(k)) \/ Dispose

Spec == Init /\ [][Next]_<<current, ring>>
=============================================================================
