----------------------------- MODULE MCMemoryLog -----------------------------
(* Instances of MemoryLog for TLC: a public memory, one for the first agent *)
(* only that expires.                                                       *)
EXTENDS MemoryLog, TLC

CONSTANTS a1, m1

MCReaders == [m \in Memories |-> IF m = m1 THEN {a1} ELSE {}]
=============================================================================
