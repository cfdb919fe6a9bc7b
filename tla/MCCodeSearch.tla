---------------------------- MODULE MCCodeSearch ----------------------------
(* An instance of CodeSearch for TLC: two agents, each with a model of its  *)
(* own, and contents of one chunk.                                          *)
EXTENDS CodeSearch, TLC

CONSTANTS a1, a2

OneChunk == [c \in Contents |-> 1]
OwnModels == [a \in Agents |-> IF a = a1 THEN "ada" ELSE "bge"]
=============================================================================
