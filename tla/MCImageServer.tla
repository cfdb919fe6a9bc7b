---------------------------- MODULE MCImageServer ----------------------------
(* Instances of ImageServer for TLC: two calls, an edit for two images named *)
(* image and a generation of one named image-2, so that their names overlap. *)
EXTENDS ImageServer, TLC

CONSTANTS c1, c2

MCBase == [c \in Calls |-> IF c = c2 THEN <<2>> ELSE <<>>]
MCWanted == [c \in Calls |-> IF c = c2 THEN 1 ELSE 2]
MCUserFiles == {<<>>}
MCRetryAfters == {-1, 0, 5}
=============================================================================
