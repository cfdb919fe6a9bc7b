------------------------------- MODULE Journal -------------------------------
(***************************************************************************)
(* The action journal of an envelope (lifecycle.py, ActiveStateEnvelope    *)
(* .actions).  Every write of the envelope passes the list through         *)
(* _bounded_actions, which puts the unfinished records first and the       *)
(* completed ones after them, so a stored list is two lists: the records   *)
(* still open, with their status, and the calls done.  A record's class    *)
(* and fingerprint never change and are functions of its call.             *)
(***************************************************************************)
EXTENDS Integers, Sequences

CONSTANTS
    Calls,          \* tool calls, each with its own tool_use_id
    KeepUnfinished, \* unfinished records kept (64 in the code)
    KeepCompleted   \* completed records kept (20 in the code)

ASSUME JournalAssumption ==
    KeepUnfinished \in Nat \ {0} /\ KeepCompleted \in Nat \ {0}

Unfinished == {"started", "failed", "ambiguous"}
Journals == [open : Seq([call : Calls, status : Unfinished]), done : Seq(Calls)]
EmptyJournal == [open |-> <<>>, done |-> <<>>]

LastN(s, n) == IF Len(s) <= n THEN s ELSE SubSeq(s, Len(s) - n + 1, Len(s))

Fits(j) == Len(j.open) <= KeepUnfinished /\ Len(j.done) <= KeepCompleted
BoundedJournals == {j \in Journals : Fits(j)}

Bounded(open, done) ==
    [open |-> LastN(open, KeepUnfinished), done |-> LastN(done, KeepCompleted)]

DeleteAt(s, i) == [k \in 1..(Len(s) - 1) |-> IF k < i THEN s[k] ELSE s[k + 1]]

OpenAt(j, t) == {i \in DOMAIN j.open : j.open[i].call = t}
DoneAt(j, t) == {i \in DOMAIN j.done : j.done[i] = t}
IsDone(j, t) == DoneAt(j, t) # {}
IsAmbiguous(j) == \E i \in DOMAIN j.open : j.open[i].status = "ambiguous"

\* Faulty variant: the record of a call that ends stays among the open ones.
KeepOpen(j, t) == j.open

DropOpen(j, t) ==
    IF OpenAt(j, t) = {} THEN j.open ELSE DeleteAt(j.open, CHOOSE i \in OpenAt(j, t) : TRUE)
DropDone(j, t) ==
    IF IsDone(j, t) THEN DeleteAt(j.done, CHOOSE i \in DoneAt(j, t) : TRUE) ELSE j.done

\* PreToolUse: an older record of the call goes, a started one is appended.
Begin(j, t) ==
    Bounded(Append(DropOpen(j, t), [call |-> t, status |-> "started"]), DropDone(j, t))

\* PostToolUse "completed".  The record changes in its place in the list.
\* All open records stand before the done ones, so a record that was open
\* becomes the FIRST of the done ones; a call without a record is appended.
Complete(j, t) ==
    Bounded(DropOpen(j, t),
            IF OpenAt(j, t) # {} THEN <<t>> \o j.done
            ELSE IF IsDone(j, t) THEN j.done
            ELSE Append(j.done, t))

\* PostToolUse "failed": in place if open, else after the open records.
Fail(j, t) ==
    LET failed == [call |-> t, status |-> "failed"]
    IN  IF OpenAt(j, t) # {}
        THEN [j EXCEPT !.open = [i \in DOMAIN j.open |->
                 IF j.open[i].call = t THEN failed ELSE j.open[i]]]
        ELSE Bounded(Append(j.open, failed), DropDone(j, t))

\* Faulty variant: only failed calls are in doubt after a compaction.
DoubtFailed(j) ==
    [j EXCEPT !.open = [i \in DOMAIN j.open |->
        IF j.open[i].status = "failed" THEN [j.open[i] EXCEPT !.status = "ambiguous"]
        ELSE j.open[i]]]

\* A compact-sourced session start can no longer tell how a started call ended.
Doubt(j) ==
    [j EXCEPT !.open = [i \in DOMAIN j.open |->
        IF j.open[i].status = "started" THEN [j.open[i] EXCEPT !.status = "ambiguous"]
        ELSE j.open[i]]]

Distinct(j) ==
    /\ \A i, k \in DOMAIN j.open : j.open[i].call = j.open[k].call => i = k
    /\ \A i, k \in DOMAIN j.done : j.done[i] = j.done[k] => i = k
    /\ \A i \in DOMAIN j.open : ~IsDone(j, j.open[i].call)
=============================================================================
