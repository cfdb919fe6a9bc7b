---------------------------- MODULE MCStateStore ----------------------------
(* Instances of StateStore for TLC.                                         *)
EXTENDS StateStore, TLC

Interchangeable == Permutations(Procs) \cup Permutations(Values) \cup Permutations(Inodes)
=============================================================================
