----------------------------- MODULE MCCodeIndex -----------------------------
(* Instances of CodeIndex for TLC: contents of one and two chunks and a     *)
(* blank one, agents that share a model.                                    *)
EXTENDS CodeIndex, TLC

CONSTANTS small, other, large, blank

MCChunkCount ==
    [c \in Contents |-> CASE c = blank -> 0 [] c = large -> 2 [] OTHER -> 1]
SharedModel == [a \in Agents |-> "ada"]

AnyFile == Permutations(Files)
=============================================================================
