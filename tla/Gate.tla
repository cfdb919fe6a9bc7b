-------------------------------- MODULE Gate --------------------------------
(***************************************************************************)
(* What the gate of the pilot promises, whatever hooks keep it and however *)
(* it is stored: a compaction shuts it, and nothing but reading opens it.  *)
(* What is to be read and what has been are sets, of files or of files     *)
(* with what they hold.  Lifecycle stores such a gate, and HookEntry       *)
(* answers the host by one.                                                *)
(***************************************************************************)
VARIABLES
    gate,       \* "none" as long as nothing is stored
    wanted,     \* what has to be read before it opens
    reads       \* what has been read since it was shut

vars == <<gate, wanted, reads>>

Init == gate \in {"none", "open"} /\ reads = {}

\* Nothing read before counts; what is wanted may be anything new.
Shut(as) == gate' = as /\ reads' = {}

Capture == Shut("captured")

Resume == Shut("closed")

\* A read takes the place of earlier ones of the same file.
Observe ==
    /\ gate \in {"open", "closed"}
    /\ \E r \in reads' : reads' \subseteq reads \cup {r}
    /\ UNCHANGED <<gate, wanted>>

Open ==
    /\ gate = "closed"
    /\ wanted \subseteq reads
    /\ gate' = "open"
    /\ UNCHANGED <<wanted, reads>>

\* Something is wrong with what was read: other things may be wanted now.
Refuse ==
    /\ gate \in {"open", "closed"}
    /\ gate' = "closed"
    /\ UNCHANGED reads

\* The operator disposes of the gate ...
Dispose == gate' = "none" /\ wanted' = {} /\ reads' = {}

\* ... and where there is none one is made, or stored by a hook that had it in
\* hand when it went.
Make == gate = "none" /\ gate' \in {"open", "captured", "closed"}

Next == Capture \/ Resume \/ Observe \/ Open \/ Refuse \/ Dispose \/ Make

Spec == Init /\ [][Next]_vars
=============================================================================
