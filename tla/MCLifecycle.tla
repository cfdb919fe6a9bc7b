---------------------------- MODULE MCLifecycle ----------------------------
(***************************************************************************)
(* Instances of Lifecycle for TLC: one read of tasks.md, and writes that   *)
(* share a fingerprint.                                                    *)
(***************************************************************************)
EXTENDS Lifecycle, TLC

CONSTANTS r1, w1, w2, w3, tasks, plain, asking

MCClass == [t \in Calls |-> IF t = r1 THEN "read" ELSE "local_write"]
MCFingerprint == [t \in Calls |-> IF t = r1 THEN "read tasks.md" ELSE IF t = w3 THEN "other write" ELSE "write"]
MCTarget == [t \in Calls |-> IF t = r1 THEN tasks ELSE NoPath]
\* Hook processes are alike.
Interchangeable == Permutations(Procs)

MCBase == [f \in Paths |-> plain]
=============================================================================
